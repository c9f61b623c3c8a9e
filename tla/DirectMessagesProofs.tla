------------------------- MODULE DirectMessagesProofs -------------------------
(***************************************************************************)
(* Theorems about DirectMessages for every set of senders, of tabs, of     *)
(* room ids and of requests, and every bound.                              *)
(***************************************************************************)
EXTENDS DirectMessages, FiniteSetTheorems, SequenceTheorems, WellFoundedInduction, TLAPS

----------------------------------------------------------------------------
(* The invariant *)

\* Rooms are finitely many, messages are stored in order, each in a room there is.
StoredInOrder ==
  /\ IsFiniteSet(rooms)
  /\ \A i \in Ids : Stored(i) =>
       msg[i].room \in rooms /\ \A j \in Ids : j < i => Stored(j)

\* A cursor is null or on a message of its room; what it is past it has covered; and what it
\* has covered it still covers, save what has been deleted, unless requests to mark the
\* conversation have overlapped.
OnMessage(i, d) == i \in Ids /\ Stored(i) /\ msg[i].room = d

Covers(u, i, d) ==
  "mark" \notin overlaps[u] =>
    \A j \in seen[u] : Present(j) /\ msg[j].room = d => j <= i

PastIsSeen(u, d) ==
  \A j \in Ids : j <= cursor[u][d] /\ Stored(j) /\ msg[j].room = d => j \in seen[u]

CursorsCover ==
  \A u \in Users :
    /\ \A j \in seen[u] : Stored(j)
    /\ \A d \in DmRooms : /\ cursor[u][d] = 0 \/ OnMessage(cursor[u][d], d)
                          /\ Covers(u, cursor[u][d], d) /\ PastIsSeen(u, d)

\* What a request has read or written: a send past the check began between friends; a room
\* that exists; a message that exists, or is deleted; a position for the cursor that covers
\* what the cursor does.  The page of a conversation is awaited only while it is open.
Sound(r) ==
  Busy(r) =>
    LET q == req[r] IN
    /\ q.op = "send" =>
         /\ q.stage = "friends" /\ relation = "friends" => q.asFriends
         /\ q.stage \in {"find", "createRoom", "create"} => q.asFriends
         /\ q.stage = "emit" => q.id \in Ids /\ Stored(q.id)
    /\ q.stage \in {"create", "page", "latest", "upsert", "count"} => q.room \in rooms
    /\ q.op = "delete" /\ q.stage \in {"erase", "emit"} =>
         /\ q.id \in Ids /\ Stored(q.id)
         /\ q.stage = "emit" => msg[q.id].deleted
    /\ q.op = "mark" /\ q.stage = "upsert" =>
         (q.id = 0 \/ OnMessage(q.id, q.room)) /\ Covers(q.user, q.id, q.room)
    /\ q.op = "list" => Open(q.user)

AllSound == \A r \in Requests : Sound(r)

\* Without an overlap, requests of a kind come one at a time.
OneAtATime ==
  \A u \in Users, op \in {"mark", "summary"} : op \notin overlaps[u] =>
    \A r, q \in InFlight(u, op) : r = q

\* A mark left by its conversation overlaps with none, unless that is recorded.
LeftAloneOf(u) ==
  "left" \notin overlaps[u] /\ Marking(u, "nothing") # {} => "mark" \notin overlaps[u]

LeftAlone ==
  \A u \in Users : LeftAloneOf(u)

\* Events name messages, and deletions deleted ones.
EventsSound ==
  \A u \in Users : \A k \in 1..Len(events[u]) :
    LET e == events[u][k] IN
    e.kind # "refresh" => /\ e.id \in Ids /\ Stored(e.id)
                          /\ e.kind = "deleted" => msg[e.id].deleted

\* A message is on its way to an open conversation, or shown, or on the page that is.
InOneRoom == \A d, e \in rooms : d = e

Told(u, i) == \E k \in 1..Len(events[u]) : events[u][k].kind = "message" /\ events[u][k].id = i

Coming(u, i) == Told(u, i) \/ \E r \in Requests : At(r, "emit", "send") /\ req[r].id = i

Complete(u, shown) == \A i \in Ids : Present(i) => i \in shown \/ Coming(u, i)

NothingLostTo(u) ==
  /\ Open(u) /\ chat[u].loaded => Complete(u, chat[u].shown)
  /\ \A r \in InFlight(u, "list") :
       req[r].stage = "respond" => Complete(u, chat[u].shown \union req[r].page)

NothingLost == InOneRoom => \A u \in Watchers : NothingLostTo(u)

\* Unless the counts are going to be fetched again, the fetch under way, or the badge if
\* there is none, is about the unread messages there are.  A mark that overlaps with none
\* leaves no more of them than there were, whether or not it fetches.
Notified(u) == \E k \in 1..Len(events[u]) : events[u][k].kind = "refresh"

Stale(u) ==
  \/ Notified(u)
  \/ "mark" \in overlaps[u] /\ \E r \in InFlight(u, "mark") : req[r].then # "nothing"
  \/ \E r \in Requests : Busy(r) /\ req[r].op = "send" /\ req[r].stage \in {"emit", "notify"}

Accurate(u, r) ==
  \/ req[r].stage = "find"
  \/ /\ req[r].stage = "count"
     /\ req[r].id = 0 \/ OnMessage(req[r].id, req[r].room)
     /\ \A i \in Unread(u) : i > req[r].id
  \/ req[r].stage = "respond" /\ (Unread(u) # {} => req[r].id > 0)

BadgeFollowsOf(u) ==
  overlaps[u] \subseteq {"mark"} /\ ~Stale(u) =>
    /\ \A r \in InFlight(u, "summary") : Accurate(u, r)
    /\ InFlight(u, "summary") = {} /\ Unread(u) # {} => badge[u] > 0

BadgeFollows == InOneRoom => \A u \in Watchers : BadgeFollowsOf(u)

DmInv ==
  /\ TypeOK
  /\ StoredInOrder
  /\ CursorsCover
  /\ AllSound
  /\ OneAtATime
  /\ LeftAlone
  /\ EventsSound
  /\ NothingLost
  /\ BadgeFollows

----------------------------------------------------------------------------
(* The least and the greatest of a set of numbers *)

LEMMA LeastOf ==
  ASSUME NEW T \in SUBSET Nat, T # {}
  PROVE  \E m \in T : \A k \in T : m <= k
<1>1. IsWellFoundedOn(OpToRel(<, Nat), Nat)
  BY NatLessThanWellFounded
<1>2. PICK m \in T : \A k \in T : ~(<<k, m>> \in OpToRel(<, Nat))
  BY <1>1, WFMin
<1>3. \A k \in T : ~(k < m)
  BY <1>2 DEF OpToRel
<1> QED BY <1>3

LEMMA GreatestOf ==
  ASSUME NEW n \in Nat, NEW S \in SUBSET (1..n), S # {}
  PROVE  \E m \in S : \A k \in S : k <= m
<1> DEFINE T == {n - i : i \in S}
<1>1. \A i \in S : n - i \in Nat
  OBVIOUS
<1>2. T \in SUBSET Nat /\ T # {}
  BY <1>1
<1>3. PICK j \in T : \A k \in T : j <= k
  BY <1>2, LeastOf
<1>4. PICK m \in S : j = n - m
  OBVIOUS
<1>5. \A k \in S : n - m <= n - k
  BY <1>3, <1>4
<1>6. \A k \in S : k \in 1..n
  OBVIOUS
<1>7. \A k \in S : k <= m
  BY <1>5, <1>6
<1> QED BY <1>7

----------------------------------------------------------------------------
(* What the queries return *)

\* Latest is the last message of the room that is not deleted, or 0.
LEMMA LatestIs ==
  ASSUME TypeOK, NEW d
  PROVE  /\ Latest(d) \in 0..MaxMessages
         /\ Latest(d) = 0 \/ OnMessage(Latest(d), d)
         /\ \A j \in Ids : Present(j) /\ msg[j].room = d => j <= Latest(d)
<1> DEFINE there == {i \in Ids : Present(i) /\ msg[i].room = d}
<1>1. there \in SUBSET (1..MaxMessages)
  BY DEF Ids
<1>2. CASE there = {}
  <2>1. Latest(d) = 0
    BY <1>2 DEF Latest
  <2> QED BY <1>2, <2>1, BoundsAssumption
<1>3. CASE there # {}
  <2>1. \E m \in there : \A k \in there : k <= m
    BY <1>1, <1>3, BoundsAssumption, GreatestOf
  <2>2. Latest(d) \in there /\ \A k \in there : k <= Latest(d)
    BY <1>3, <2>1 DEF Latest
  <2> QED BY <1>1, <2>2, BoundsAssumption DEF OnMessage, Present, Ids
<1> QED BY <1>2, <1>3

\* A count is positive exactly when there is something to count.
LEMMA CountIs ==
  ASSUME NEW u, NEW d, NEW last
  PROVE  /\ countUnreadFromOthers(u, d, last) \in 0..MaxMessages
         /\ (\E i \in Ids : i > Anchor(d, last) /\ Present(i)
                            /\ msg[i].room = d /\ msg[i].sender # u)
            => countUnreadFromOthers(u, d, last) > 0
<1> DEFINE S == {i \in Ids : i > Anchor(d, last) /\ Present(i)
                             /\ msg[i].room = d /\ msg[i].sender # u}
<1>1. IsFiniteSet(Ids) /\ Cardinality(Ids) = MaxMessages
  BY BoundsAssumption, FS_Interval DEF Ids
<1>2. S \in SUBSET Ids
  OBVIOUS
<1> HIDE DEF S
<1>3. IsFiniteSet(S) /\ Cardinality(S) <= MaxMessages /\ Cardinality(S) \in Nat
  BY <1>1, <1>2, FS_Subset, FS_CardinalityType
<1>4. S # {} => Cardinality(S) # 0
  BY <1>3, FS_EmptySet
<1>5. countUnreadFromOthers(u, d, last) = Cardinality(S)
  BY DEF countUnreadFromOthers, S
<1>6. (\E i \in Ids : i > Anchor(d, last) /\ Present(i)
                     /\ msg[i].room = d /\ msg[i].sender # u) => S # {}
  BY DEF S
<1> QED BY <1>3, <1>4, <1>5, <1>6, BoundsAssumption

\* With one room, what is unread is what is after the anchor in that room.
LEMMA UnreadIn ==
  ASSUME InOneRoom, NEW d \in rooms, NEW u
  PROVE  \A i : i \in Unread(u) <=>
           /\ i \in Ids /\ i > Anchor(d, cursor[u][d]) /\ Present(i)
           /\ msg[i].room = d /\ msg[i].sender # u
BY DEF InOneRoom, Unread

LEMMA AnchorIsCursor ==
  ASSUME DmInv, NEW u \in Users, NEW d \in DmRooms
  PROVE  Anchor(d, cursor[u][d]) = cursor[u][d]
BY DEF DmInv, CursorsCover, OnMessage, Anchor

----------------------------------------------------------------------------
(* Facts about requests *)

LEMMA BusyRequest ==
  ASSUME TypeOK, NEW r \in Requests, Busy(r)
  PROVE  req[r] \in Request
BY DEF TypeOK, Busy

LEMMA RequestIsBusy ==
  ASSUME NEW q \in Request
  PROVE  q # Idle
BY DEF Request, Stages, Idle

LEMMA AtIsBusy ==
  ASSUME TypeOK, NEW r \in Requests, NEW stage \in Stages, NEW op, At(r, stage, op)
  PROVE  Busy(r) /\ req[r] \in Request
BY DEF TypeOK, At, Busy, Stages, Idle

LEMMA Moved ==
  ASSUME TypeOK, NEW r \in Requests, NEW new \in Request \union {Idle},
         req' = [req EXCEPT ![r] = new]
  PROVE  /\ req' \in [Requests -> Request \union {Idle}]
         /\ req'[r] = new
         /\ \A q \in Requests \ {r} : req'[q] = req[q]
BY DEF TypeOK

\* A request that begins.
LEMMA NewIs ==
  ASSUME NEW stage \in Stages, NEW op \in Ops, NEW u \in Users
  PROVE  /\ New(stage, op, u) \in Request
         /\ New(stage, op, u).stage = stage /\ New(stage, op, u).op = op
         /\ New(stage, op, u).user = u /\ New(stage, op, u).id = 0
         /\ New(stage, op, u).then = "refetch"
         /\ op = "send" /\ relation = "friends" => New(stage, op, u).asFriends
<1>1. PICK b \in BOOLEAN : b = (op = "send" /\ relation = "friends")
  OBVIOUS
<1>2. New(stage, op, u) = [stage |-> stage, op |-> op, user |-> u, room |-> NoRoom, id |-> 0,
                           page |-> {}, then |-> "refetch", asFriends |-> b]
  BY <1>1 DEF New
<1>3. op = "send" /\ relation = "friends" => b
  BY <1>1
<1> QED BY <1>2, <1>3, BoundsAssumption DEF Request

----------------------------------------------------------------------------
(* What every step keeps *)

\* Rooms and messages are only added, messages only deleted, overlaps only recorded.
Forward ==
  /\ rooms \subseteq rooms'
  /\ \A i \in Ids : Stored(i) =>
       /\ Stored(i)' /\ msg'[i].room = msg[i].room /\ msg'[i].sender = msg[i].sender
       /\ msg[i].deleted => msg'[i].deleted
  /\ \A u \in Users : overlaps[u] \subseteq overlaps'[u]
  /\ relation' = "friends" => relation = "friends"

LEMMA ForwardOnTables ==
  ASSUME TypeOK, UNCHANGED <<rooms, msg>>,
         \A u \in Users : overlaps[u] \subseteq overlaps'[u],
         relation' = "friends" => relation = "friends"
  PROVE  Forward
BY DEF Forward, Stored

\* What was stored and is present was present before.
LEMMA PresentBefore ==
  ASSUME TypeOK, Forward, msg' \in [Ids -> Row \union {NoRow}],
         NEW i \in Ids, Stored(i), Present(i)'
  PROVE  Present(i)
BY DEF Forward, Present, TypeOK, Stored, Row, NoRow

LEMMA OnMessageStays ==
  ASSUME Forward, NEW i, NEW d, OnMessage(i, d)
  PROVE  OnMessage(i, d)'
BY DEF Forward, OnMessage

LEMMA CoversStays ==
  ASSUME DmInv, Forward, msg' \in [Ids -> Row \union {NoRow}],
         NEW u \in Users, NEW i, NEW d, Covers(u, i, d), seen'[u] = seen[u]
  PROVE  Covers(u, i, d)'
<1> SUFFICES ASSUME "mark" \notin overlaps'[u], NEW j \in seen[u], Present(j)', msg'[j].room = d
             PROVE  j <= i
  BY DEF Covers
<1>1. j \in Ids /\ Stored(j)
  BY DEF DmInv, TypeOK, CursorsCover
<1>2. Present(j) /\ msg[j].room = d
  BY <1>1, PresentBefore DEF DmInv, Forward
<1>3. "mark" \notin overlaps[u]
  BY DEF Forward
<1> QED BY <1>2, <1>3 DEF Covers

\* A request that does not move stays sound.
LEMMA SoundStays ==
  ASSUME DmInv, Forward, msg' \in [Ids -> Row \union {NoRow}],
         NEW r \in Requests, req'[r] = req[r],
         Busy(r) => /\ \/ seen'[req[r].user] = seen[req[r].user]
                       \/ req[r].op = "mark" => "mark" \in overlaps'[req[r].user]
                    /\ req[r].op = "list" => chat'[req[r].user] # Closed
  PROVE  Sound(r)'
<1> SUFFICES ASSUME Busy(r)' PROVE Sound(r)'
  BY DEF Sound
<1>1. Busy(r) /\ Sound(r)
  BY DEF Busy, DmInv, AllSound
<1>2. PICK q \in Request : q = req[r] /\ q = req'[r]
  BY <1>1, BusyRequest DEF DmInv
<1>3. q.user \in Users
  BY <1>2 DEF Request
<1>4. q.op = "send" =>
        /\ q.stage = "friends" /\ relation' = "friends" => q.asFriends
        /\ q.stage \in {"find", "createRoom", "create"} => q.asFriends
        /\ q.stage = "emit" => q.id \in Ids /\ Stored(q.id)'
  BY <1>1, <1>2 DEF Sound, Forward
<1>5. q.stage \in {"create", "page", "latest", "upsert", "count"} => q.room \in rooms'
  BY <1>1, <1>2 DEF Sound, Forward
<1>6. q.op = "delete" /\ q.stage \in {"erase", "emit"} =>
        /\ q.id \in Ids /\ Stored(q.id)'
        /\ q.stage = "emit" => msg'[q.id].deleted
  BY <1>1, <1>2 DEF Sound, Forward
<1>7. q.op = "mark" /\ q.stage = "upsert" =>
        (q.id = 0 \/ OnMessage(q.id, q.room)') /\ Covers(q.user, q.id, q.room)'
  <2> SUFFICES ASSUME q.op = "mark", q.stage = "upsert"
               PROVE  (q.id = 0 \/ OnMessage(q.id, q.room)') /\ Covers(q.user, q.id, q.room)'
    OBVIOUS
  <2>1. (q.id = 0 \/ OnMessage(q.id, q.room)) /\ Covers(q.user, q.id, q.room)
    BY <1>1, <1>2 DEF Sound
  <2>2. CASE seen'[q.user] = seen[q.user]
    BY <1>3, <2>1, <2>2, OnMessageStays, CoversStays
  <2>3. CASE "mark" \in overlaps'[q.user]
    BY <2>1, <2>3, OnMessageStays DEF Covers
  <2> QED BY <1>1, <1>2, <2>2, <2>3
<1>8. q.op = "list" => chat'[q.user] # Closed
  BY <1>1, <1>2
<1> QED BY <1>2, <1>4, <1>5, <1>6, <1>7, <1>8 DEF Sound, Open, Stored, OnMessage, Covers, Present

LEMMA CursorsStay ==
  ASSUME DmInv, Forward, msg' \in [Ids -> Row \union {NoRow}], UNCHANGED <<cursor, seen>>
  PROVE  CursorsCover'
<1>1. \A u \in Users : \A j \in seen[u] : Stored(j)'
  BY DEF DmInv, CursorsCover, Forward, TypeOK
<1>2. ASSUME NEW u \in Users, NEW d \in DmRooms
      PROVE  /\ (cursor[u][d] = 0 \/ OnMessage(cursor[u][d], d))' /\ Covers(u, cursor[u][d], d)'
             /\ PastIsSeen(u, d)'
  <2>1. PICK c : c = cursor[u][d] /\ c = cursor'[u][d]
    OBVIOUS
  <2>2. /\ (c = 0 \/ OnMessage(c, d)) /\ Covers(u, c, d) /\ seen'[u] = seen[u]
        /\ PastIsSeen(u, d)
    BY <2>1 DEF DmInv, CursorsCover
  <2>3. (c = 0 \/ OnMessage(c, d)') /\ Covers(u, c, d)'
    BY <2>2, OnMessageStays, CoversStays
  <2>4. ASSUME NEW j \in Ids, j <= c, Stored(j)', msg'[j].room = d PROVE j \in seen'[u]
    <3>1. Stored(j)
      BY <2>2, <2>4, BoundsAssumption DEF DmInv, StoredInOrder, OnMessage, Ids
    <3>2. msg[j].room = d
      BY <2>4, <3>1 DEF Forward
    <3> QED BY <2>1, <2>2, <2>4, <3>1, <3>2 DEF PastIsSeen
  <2>5. PastIsSeen(u, d)'
    BY <2>1, <2>4 DEF PastIsSeen, Stored
  <2> QED BY <2>1, <2>3, <2>5 DEF OnMessage, Covers
<1> QED BY <1>1, <1>2 DEF CursorsCover

LEMMA StoredStays ==
  ASSUME DmInv, UNCHANGED <<rooms, msg>>
  PROVE  StoredInOrder'
BY DEF DmInv, StoredInOrder, Stored

\* Requests of a kind that only end or go on are no more than they were.
LEMMA OneAtATimeStays ==
  ASSUME DmInv, \A u \in Users : overlaps[u] \subseteq overlaps'[u],
         \A u \in Users, op \in {"mark", "summary"} : InFlight(u, op)' \subseteq InFlight(u, op)
  PROVE  OneAtATime'
BY DEF DmInv, OneAtATime

LEMMA LeftAloneStays ==
  ASSUME DmInv, NEW u \in Users,
         overlaps'[u] \subseteq overlaps[u] \union {"summary"},
         overlaps[u] \subseteq overlaps'[u],
         \A r : r \in Marking(u, "nothing")' => r \in Marking(u, "nothing")
  PROVE  LeftAloneOf(u)'
<1> SUFFICES ASSUME "left" \notin overlaps'[u], NEW r, r \in Marking(u, "nothing")'
             PROVE  "mark" \notin overlaps'[u]
  BY DEF LeftAloneOf
<1>1. Marking(u, "nothing") # {} /\ "left" \notin overlaps[u]
  OBVIOUS
<1>2. "mark" \notin overlaps[u]
  BY <1>1 DEF DmInv, LeftAlone, LeftAloneOf
<1> QED BY <1>2

\* A fetch that does not move stays right as long as nothing becomes unread.
LEMMA AccurateStays ==
  ASSUME Forward, NEW u, NEW r, Accurate(u, r), req'[r] = req[r], Unread(u)' \subseteq Unread(u)
  PROVE  Accurate(u, r)'
<1>1. CASE req[r].stage = "count"
  <2>1. PICK i, d : i = req[r].id /\ d = req[r].room
    OBVIOUS
  <2>2. i = 0 \/ OnMessage(i, d)
    BY <1>1, <2>1 DEF Accurate
  <2>3. i = 0 \/ OnMessage(i, d)'
    BY <2>2, OnMessageStays
  <2> QED BY <1>1, <2>1, <2>3 DEF Accurate, OnMessage
<1>2. CASE req[r].stage # "count"
  BY <1>2 DEF Accurate
<1> QED BY <1>1, <1>2

LEMMA EventsStay ==
  ASSUME DmInv, Forward,
         \A u \in Users : \A k \in 1..Len(events'[u]) :
           \/ \E j \in 1..Len(events[u]) : events'[u][k] = events[u][j]
           \/ events'[u][k].kind = "refresh"
           \/ /\ events'[u][k].id \in Ids
              /\ \E i \in Ids : /\ i = events'[u][k].id /\ Stored(i)'
                                /\ events'[u][k].kind = "deleted" => msg'[i].deleted
  PROVE  EventsSound'
<1> SUFFICES ASSUME NEW u \in Users, NEW k \in 1..Len(events'[u]),
                    events'[u][k].kind # "refresh"
             PROVE  /\ events'[u][k].id \in Ids /\ msg'[events'[u][k].id] # NoRow
                    /\ events'[u][k].kind = "deleted" => msg'[events'[u][k].id].deleted
  BY DEF EventsSound, Stored
<1>1. CASE \E j \in 1..Len(events[u]) : events'[u][k] = events[u][j]
  <2>1. PICK j \in 1..Len(events[u]) : events'[u][k] = events[u][j]
    BY <1>1
  <2>2. PICK e : e = events[u][j]
    OBVIOUS
  <2>3. e.kind # "refresh"
    BY <2>1, <2>2
  <2>4. e.id \in Ids /\ Stored(e.id) /\ (e.kind = "deleted" => msg[e.id].deleted)
    BY <2>2, <2>3 DEF DmInv, EventsSound
  <2>5. PICK i \in Ids : i = e.id /\ Stored(i) /\ (e.kind = "deleted" => msg[i].deleted)
    BY <2>4
  <2>6. Stored(i)' /\ (e.kind = "deleted" => msg'[i].deleted)
    BY <2>5 DEF Forward
  <2> QED BY <2>1, <2>2, <2>5, <2>6 DEF Stored
<1> QED BY <1>1 DEF Stored

----------------------------------------------------------------------------
(* A request that only reads, or ends *)

\* A step of one request that changes nothing else, and begins or ends no request of a tab.
LEMMA RequestMoves ==
  ASSUME DmInv, NEW r \in Requests, NEW new \in Request \union {Idle},
         req' = [req EXCEPT ![r] = new], UNCHANGED <<relation, tables, tabs>>,
         Sound(r)',
         ~(Busy(r) /\ req[r].op = "send" /\ req[r].stage \in {"emit", "notify"}),
         \A op \in {"mark", "summary", "list"} :
           /\ Busy(r) /\ req[r].op = op => new # Idle /\ new.op = op /\ new.user = req[r].user
           /\ new # Idle /\ new.op = op =>
                Busy(r) /\ req[r].op = op /\ new.user = req[r].user,
         new # Idle /\ new.op = "mark" => new.then = req[r].then,
         new # Idle /\ new.op = "list" /\ new.stage = "respond" /\ InOneRoom =>
           {i \in Ids : Present(i)} \subseteq new.page,
         new # Idle /\ new.op = "summary" /\ InOneRoom /\ Accurate(new.user, r) =>
           Accurate(new.user, r)'
  PROVE  DmInv'
<1>1. /\ req' \in [Requests -> Request \union {Idle}] /\ req'[r] = new
      /\ \A q \in Requests \ {r} : req'[q] = req[q]
  BY Moved DEF DmInv
<1>2. /\ relation' = relation /\ rooms' = rooms /\ msg' = msg /\ cursor' = cursor
      /\ seen' = seen /\ events' = events /\ chat' = chat /\ badge' = badge
      /\ overlaps' = overlaps
  BY DEF tables, tabs
<1>3. TypeOK'
  BY <1>1, <1>2 DEF DmInv, TypeOK
<1>4. Forward /\ msg' \in [Ids -> Row \union {NoRow}]
  BY <1>2, <1>3, ForwardOnTables DEF DmInv, TypeOK
<1>5. StoredInOrder' /\ CursorsCover'
  BY <1>2, <1>4, StoredStays, CursorsStay
<1>6. AllSound'
  <2> SUFFICES ASSUME NEW q \in Requests \ {r} PROVE Sound(q)'
    BY DEF AllSound
  <2>1. Busy(q) /\ req[q].op = "list" => chat'[req[q].user] # Closed
    BY <1>2 DEF DmInv, AllSound, Sound, Open
  <2> QED BY <1>1, <1>2, <1>4, <2>1, SoundStays
<1>7. \A u \in Users, op \in {"mark", "summary", "list"} :
        \A q \in Requests : q \in InFlight(u, op)' <=> q \in InFlight(u, op)
  BY <1>1 DEF InFlight, Busy
<1>8. \A u \in Users, op \in {"mark", "summary", "list"} : InFlight(u, op)' = InFlight(u, op)
  BY <1>7 DEF InFlight
<1>9. OneAtATime' /\ LeftAlone'
  <2>1. \A u \in Users : \A q : q \in Marking(u, "nothing")' => q \in Marking(u, "nothing")
    BY <1>1, <1>8 DEF Marking, InFlight
  <2>2. LeftAlone'
    BY <1>2, <2>1, LeftAloneStays DEF LeftAlone
  <2> QED BY <1>2, <1>8, <2>2, OneAtATimeStays
<1>10. EventsSound'
  BY <1>2, <1>4, EventsStay
<1>11. NothingLost'
  <2> SUFFICES ASSUME NEW u \in Watchers, InOneRoom'
               PROVE  /\ Open(u)' /\ chat'[u].loaded => Complete(u, chat[u].shown)'
                      /\ \A q \in InFlight(u, "list")' : req'[q].stage = "respond" =>
                           Complete(u, chat[u].shown \union req[q].page)'
    BY DEF NothingLost, NothingLostTo
  <2>1. InOneRoom /\ u \in Users
    BY <1>2, TabsAssumption DEF InOneRoom
  <2>2. \A i \in Ids : (Coming(u, i) => Coming(u, i)') /\ (Present(i)' => Present(i))
    BY <1>1, <1>2, AtIsBusy DEF DmInv, Coming, Told, At, Busy, Stages, Present, Stored
  <2>3. ASSUME Open(u)', chat'[u].loaded PROVE Complete(u, chat[u].shown)'
    BY <1>2, <2>1, <2>2, <2>3 DEF DmInv, NothingLost, NothingLostTo, Complete, Open
  <2>4. ASSUME NEW q \in InFlight(u, "list")', req'[q].stage = "respond"
        PROVE  Complete(u, chat[u].shown \union req[q].page)'
    <3>1. q \in InFlight(u, "list") /\ q \in Requests
      BY <1>8, <2>1, <2>4 DEF InFlight
    <3>2. CASE q = r
      <4>1. {i \in Ids : Present(i)} \subseteq new.page
        BY <1>1, <2>1, <2>4, <3>2 DEF InFlight, Busy
      <4> QED BY <1>1, <1>2, <2>2, <3>2, <4>1 DEF Complete
    <3>3. CASE q # r
      <4>1. Complete(u, chat[u].shown \union req[q].page)
        BY <1>1, <2>1, <2>4, <3>1, <3>3 DEF DmInv, NothingLost, NothingLostTo
      <4> QED BY <1>1, <1>2, <2>2, <3>1, <3>3, <4>1 DEF Complete
    <3> QED BY <3>2, <3>3
  <2> QED BY <2>3, <2>4
<1>12. BadgeFollows'
  <2> SUFFICES ASSUME NEW u \in Watchers, InOneRoom', overlaps'[u] \subseteq {"mark"}, ~Stale(u)'
               PROVE  /\ \A q \in InFlight(u, "summary")' : Accurate(u, q)'
                      /\ InFlight(u, "summary")' = {} /\ Unread(u)' # {} => badge'[u] > 0
    BY DEF BadgeFollows, BadgeFollowsOf
  <2>1. InOneRoom /\ u \in Users /\ overlaps[u] \subseteq {"mark"} /\ Unread(u)' = Unread(u)
    BY <1>2, TabsAssumption DEF InOneRoom, Unread, Anchor, Present, Stored
  <2>2. ~Stale(u)
    <3>1. "mark" \in overlaps[u] =>
            \A q \in InFlight(u, "mark") : req[q].then = "nothing"
      BY <1>1, <1>2, <1>8, <2>1 DEF Stale, InFlight
    <3> QED BY <1>1, <1>2, <2>1, <3>1 DEF Stale, Notified, Busy
  <2>3. /\ \A q \in InFlight(u, "summary") : Accurate(u, q)
        /\ InFlight(u, "summary") = {} /\ Unread(u) # {} => badge[u] > 0
    BY <2>1, <2>2 DEF DmInv, BadgeFollows, BadgeFollowsOf
  <2>4. ASSUME NEW q \in InFlight(u, "summary")' PROVE Accurate(u, q)'
    <3>1. q \in InFlight(u, "summary") /\ q \in Requests
      BY <1>8, <2>1, <2>4 DEF InFlight
    <3>2. CASE q = r
      <4>1. new # Idle /\ new.op = "summary" /\ new.user = u
        BY <1>1, <2>4, <3>2 DEF InFlight, Busy
      <4> QED BY <2>1, <2>3, <3>1, <3>2, <4>1
    <3>3. CASE q # r
      BY <1>1, <1>4, <2>1, <2>3, <3>1, <3>3, AccurateStays
    <3> QED BY <3>2, <3>3
  <2> QED BY <1>2, <1>8, <2>1, <2>3, <2>4
<1> QED BY <1>3, <1>5, <1>6, <1>9, <1>10, <1>11, <1>12 DEF DmInv

\* The same, of a request of a tab that goes on.
LEMMA RequestGoesOn ==
  ASSUME DmInv, NEW r \in Requests, Busy(r), req[r].op \in {"mark", "summary", "list"},
         NEW new \in Request, req' = [req EXCEPT ![r] = new], req'[r] = new,
         UNCHANGED <<relation, tables, tabs>>, Sound(r)',
         NEW u, u = req[r].user, new.user = u, new.op = req[r].op, new.then = req[r].then,
         req[r].op = "list" /\ new.stage = "respond" /\ InOneRoom =>
           {i \in Ids : Present(i)} \subseteq new.page,
         req[r].op = "summary" /\ InOneRoom /\ Accurate(u, r) => Accurate(u, r)'
  PROVE  DmInv'
<1>1. new # Idle
  BY RequestIsBusy
<1>2. req[r].op # "send"
  OBVIOUS
<1>3. new.op = "summary" /\ InOneRoom /\ Accurate(new.user, r) => Accurate(new.user, r)'
  OBVIOUS
<1> QED BY <1>1, <1>2, <1>3, RequestMoves

LEMMA StartSendKeeps ==
  ASSUME DmInv, NEW r \in Requests, NEW u \in Users, StartSend(r, u)
  PROVE  DmInv'
<1>1. PICK new \in Request : new = New("friends", "send", u)
  BY NewIs DEF Stages, Ops
<1>2. /\ new.stage = "friends" /\ new.op = "send"
      /\ relation = "friends" => new.asFriends
  BY <1>1, NewIs DEF Stages, Ops
<1>3. /\ ~Busy(r) /\ req' = [req EXCEPT ![r] = new] /\ UNCHANGED <<relation, tables, tabs>>
  BY <1>1 DEF StartSend
<1>4. req'[r] = new /\ new # Idle
  BY <1>3, RequestIsBusy DEF DmInv, TypeOK
<1>5. Sound(r)'
  BY <1>2, <1>3, <1>4 DEF Sound
<1> QED BY <1>2, <1>3, <1>5, RequestMoves

LEMMA areFriendsKeeps ==
  ASSUME DmInv, NEW r \in Requests, areFriends(r)
  PROVE  DmInv'
<1>1. /\ Busy(r) /\ req[r] \in Request /\ req[r].stage = "friends" /\ req[r].op = "send"
      /\ UNCHANGED <<relation, tables, tabs>>
  BY AtIsBusy DEF areFriends, At, DmInv, Stages
<1>2. CASE relation = "friends"
  <2>1. PICK new \in Request : new = [req[r] EXCEPT !.stage = "find"]
    BY <1>1 DEF Request, Stages
  <2>2. new.stage = "find" /\ new.op = "send" /\ new.asFriends = req[r].asFriends
    BY <1>1, <2>1 DEF Request
  <2>3. req' = [req EXCEPT ![r] = new]
    BY <1>2, <2>1 DEF areFriends, Proceed
  <2>4. req'[r] = new /\ new # Idle
    BY <2>3, RequestIsBusy DEF DmInv, TypeOK
  <2>5. req[r].asFriends
    BY <1>1, <1>2 DEF DmInv, AllSound, Sound
  <2>6. Sound(r)'
    BY <2>2, <2>4, <2>5 DEF Sound
  <2> QED BY <1>1, <2>2, <2>3, <2>6, RequestMoves
<1>3. CASE relation # "friends"
  <2>1. req' = [req EXCEPT ![r] = Idle]
    BY <1>3 DEF areFriends, Finish
  <2>2. Sound(r)'
    BY <2>1 DEF Sound, Busy, DmInv, TypeOK
  <2> QED BY <1>1, <2>1, <2>2, RequestMoves
<1> QED BY <1>2, <1>3

\* findDmRoom, of a request: it gets a room, or goes on without.
LEMMA Found ==
  ASSUME DmInv, NEW r \in Requests, Busy(r), NEW found \in Stages, NEW without \in Stages,
         findDmRoom(r, found, [req[r] EXCEPT !.stage = without])
  PROVE  \E new \in Request :
           /\ req' = [req EXCEPT ![r] = new] /\ req'[r] = new /\ new # Idle
           /\ new.op = req[r].op /\ new.user = req[r].user /\ new.id = req[r].id
           /\ new.page = req[r].page /\ new.asFriends = req[r].asFriends
           /\ new.then = req[r].then
           /\ \/ new.stage = found /\ new.room \in rooms
              \/ new.stage = without /\ rooms = {} /\ new.room = req[r].room
<1>1. req[r] \in Request /\ rooms \subseteq DmRooms
  BY BusyRequest DEF DmInv, TypeOK
<1>2. CASE rooms = {}
  <2>1. PICK new \in Request : new = [req[r] EXCEPT !.stage = without]
    BY <1>1 DEF Request
  <2>2. new.stage = without /\ new.op = req[r].op /\ new.user = req[r].user /\ new.id = req[r].id
        /\ new.page = req[r].page /\ new.asFriends = req[r].asFriends /\ new.room = req[r].room
        /\ new.then = req[r].then
    BY <1>1, <2>1 DEF Request
  <2>3. req' = [req EXCEPT ![r] = new]
    BY <1>2, <2>1 DEF findDmRoom
  <2>4. req'[r] = new /\ new # Idle
    BY <2>3, RequestIsBusy DEF DmInv, TypeOK
  <2> QED BY <1>2, <2>2, <2>3, <2>4
<1>3. CASE rooms # {}
  <2>1. PICK d \in rooms : req' = [req EXCEPT ![r].stage = found, ![r].room = d]
    BY <1>3 DEF findDmRoom
  <2>2. PICK new \in Request : new = [req[r] EXCEPT !.stage = found, !.room = d]
    BY <1>1 DEF Request
  <2>3. new.stage = found /\ new.op = req[r].op /\ new.user = req[r].user /\ new.id = req[r].id
        /\ new.page = req[r].page /\ new.asFriends = req[r].asFriends /\ new.room = d
        /\ new.then = req[r].then
    BY <1>1, <2>2 DEF Request
  <2>4. req' = [req EXCEPT ![r] = new]
    BY <2>1, <2>2
  <2>5. req'[r] = new /\ new # Idle
    BY <2>4, RequestIsBusy DEF DmInv, TypeOK
  <2> QED BY <2>3, <2>4, <2>5
<1> QED BY <1>2, <1>3

LEMMA FindForSendKeeps ==
  ASSUME DmInv, NEW r \in Requests, FindForSend(r)
  PROVE  DmInv'
<1>1. /\ Busy(r) /\ req[r].stage = "find" /\ req[r].op = "send"
      /\ UNCHANGED <<relation, tables, tabs>>
  BY AtIsBusy DEF FindForSend, At, DmInv, Stages
<1>2. "create" \in Stages /\ "createRoom" \in Stages
  BY DEF Stages
<1>3. PICK new \in Request :
        /\ req' = [req EXCEPT ![r] = new] /\ req'[r] = new /\ new # Idle /\ new.op = "send"
        /\ new.asFriends = req[r].asFriends
        /\ \/ new.stage = "create" /\ new.room \in rooms
           \/ new.stage = "createRoom"
  BY <1>1, <1>2, Found DEF FindForSend
<1>4. new.asFriends
  BY <1>1, <1>3 DEF DmInv, AllSound, Sound
<1>5. new.stage \in {"create", "createRoom"} /\ (new.stage = "create" => new.room \in rooms')
  BY <1>1, <1>3 DEF tables
<1>6. Sound(r)'
  BY <1>3, <1>4, <1>5 DEF Sound
<1> QED BY <1>1, <1>3, <1>6, RequestMoves

LEMMA StartDeleteKeeps ==
  ASSUME DmInv, NEW r \in Requests, NEW u \in Users, NEW i \in Ids, StartDelete(r, u, i)
  PROVE  DmInv'
<1>1. PICK begun \in Request : begun = New("erase", "delete", u)
  BY NewIs DEF Stages, Ops
<1>2. begun.stage = "erase" /\ begun.op = "delete"
  BY <1>1, NewIs DEF Stages, Ops
<1>3. PICK new \in Request : new = [begun EXCEPT !.id = i]
  <2>1. i \in 0..MaxMessages
    BY BoundsAssumption DEF Ids
  <2> QED BY <2>1 DEF Request
<1>4. new.stage = "erase" /\ new.op = "delete" /\ new.id = i
  BY <1>2, <1>3 DEF Request
<1>5. /\ ~Busy(r) /\ req' = [req EXCEPT ![r] = new] /\ UNCHANGED <<relation, tables, tabs>>
      /\ Stored(i)
  BY <1>1, <1>3 DEF StartDelete, Present
<1>6. req'[r] = new /\ new # Idle
  BY <1>5, RequestIsBusy DEF DmInv, TypeOK
<1>7. Sound(r)'
  BY <1>4, <1>5, <1>6 DEF Sound, tables, Stored
<1> QED BY <1>4, <1>5, <1>7, RequestMoves

LEMMA FindForListKeeps ==
  ASSUME DmInv, NEW r \in Requests, FindForList(r)
  PROVE  DmInv'
<1>1. /\ Busy(r) /\ req[r].stage = "find" /\ req[r].op = "list"
      /\ UNCHANGED <<relation, tables, tabs>>
  BY AtIsBusy DEF FindForList, At, DmInv, Stages
<1>2. "page" \in Stages /\ "respond" \in Stages
  BY DEF Stages
<1>3. PICK new \in Request :
        /\ req' = [req EXCEPT ![r] = new] /\ req'[r] = new /\ new # Idle /\ new.op = "list"
        /\ new.user = req[r].user
        /\ \/ new.stage = "page" /\ new.room \in rooms
           \/ new.stage = "respond" /\ rooms = {}
  BY <1>1, <1>2, Found DEF FindForList
<1>4. Sound(r)'
  BY <1>1, <1>3 DEF Sound, tables, tabs, DmInv, AllSound, Open
<1>5. rooms = {} => \A i \in Ids : ~Present(i)
  BY DEF DmInv, StoredInOrder, Present
<1> QED BY <1>1, <1>3, <1>4, <1>5, RequestMoves

LEMMA ReadPageKeeps ==
  ASSUME DmInv, NEW r \in Requests, ReadPage(r)
  PROVE  DmInv'
<1>1. /\ Busy(r) /\ req[r].stage = "page" /\ req[r].op = "list" /\ req[r] \in Request
      /\ UNCHANGED <<relation, tables, tabs>>
  BY AtIsBusy DEF ReadPage, At, DmInv, Stages
<1>2. PICK there \in SUBSET Ids : there = {i \in Ids : Present(i) /\ msg[i].room = req[r].room}
  OBVIOUS
<1>3. PICK new \in Request : new = [req[r] EXCEPT !.stage = "respond", !.page = there]
  BY <1>1 DEF Request, Stages
<1>4. /\ new.stage = "respond" /\ new.op = "list" /\ new.user = req[r].user /\ new.page = there
      /\ new.then = req[r].then
  BY <1>1, <1>3 DEF Request
<1>5. req' = [req EXCEPT ![r] = new]
  BY <1>2, <1>3 DEF ReadPage
<1>6. req'[r] = new /\ new # Idle
  BY <1>5, RequestIsBusy DEF DmInv, TypeOK
<1>7. Sound(r)'
  BY <1>1, <1>4, <1>6 DEF Sound, tabs, DmInv, AllSound, Open
<1>8. req[r].room \in rooms
  BY <1>1 DEF DmInv, AllSound, Sound
<1>9. InOneRoom => {i \in Ids : Present(i)} \subseteq there
  BY <1>2, <1>8 DEF InOneRoom, DmInv, StoredInOrder, Present
<1> QED BY <1>1, <1>4, <1>5, <1>6, <1>7, <1>9, RequestGoesOn

LEMMA FindForMarkKeeps ==
  ASSUME DmInv, NEW r \in Requests, FindForMark(r)
  PROVE  DmInv'
<1>1. /\ Busy(r) /\ req[r].stage = "find" /\ req[r].op = "mark"
      /\ UNCHANGED <<relation, tables, tabs>>
  BY AtIsBusy DEF FindForMark, At, DmInv, Stages
<1>2. "latest" \in Stages /\ "respond" \in Stages
  BY DEF Stages
<1>3. PICK new \in Request :
        /\ req' = [req EXCEPT ![r] = new] /\ req'[r] = new /\ new # Idle /\ new.op = "mark"
        /\ new.user = req[r].user /\ new.then = req[r].then
        /\ \/ new.stage = "latest" /\ new.room \in rooms
           \/ new.stage = "respond"
  BY <1>1, <1>2, Found DEF FindForMark
<1>4. Sound(r)'
  BY <1>1, <1>3 DEF Sound, tables
<1> QED BY <1>1, <1>3, <1>4, RequestMoves

LEMMA ReadLatestKeeps ==
  ASSUME DmInv, NEW r \in Requests, ReadLatest(r)
  PROVE  DmInv'
<1>1. /\ Busy(r) /\ req[r].stage = "latest" /\ req[r].op = "mark" /\ req[r] \in Request
      /\ UNCHANGED <<relation, tables, tabs>>
  BY AtIsBusy DEF ReadLatest, At, DmInv, Stages
<1>2. PICK d, last : d = req[r].room /\ last = Latest(d)
  OBVIOUS
<1>3. /\ last \in 0..MaxMessages /\ (last = 0 \/ OnMessage(last, d))
      /\ \A j \in Ids : Present(j) /\ msg[j].room = d => j <= last
  BY <1>2, LatestIs DEF DmInv
<1>4. PICK new \in Request : new = [req[r] EXCEPT !.stage = "upsert", !.id = last]
  BY <1>1, <1>3 DEF Request, Stages
<1>5. /\ new.stage = "upsert" /\ new.op = "mark" /\ new.user = req[r].user /\ new.room = d
      /\ new.id = last /\ new.user \in Users /\ new.then = req[r].then
  BY <1>1, <1>2, <1>4 DEF Request
<1>6. req' = [req EXCEPT ![r] = new]
  BY <1>2, <1>4 DEF ReadLatest
<1>7. req'[r] = new /\ new # Idle
  BY <1>6, RequestIsBusy DEF DmInv, TypeOK
<1>8. d \in rooms
  BY <1>1, <1>2 DEF DmInv, AllSound, Sound
<1>9. Covers(new.user, last, d) /\ seen[new.user] \subseteq Ids
  BY <1>3, <1>5 DEF Covers, DmInv, TypeOK
<1>10. (last = 0 \/ OnMessage(last, d))' /\ \A u \in Users : Covers(u, last, d) => Covers(u, last, d)'
  BY <1>1, <1>3 DEF tables, tabs, Covers, OnMessage, Present, Stored
<1>11. Sound(r)'
  BY <1>1, <1>5, <1>7, <1>8, <1>9, <1>10 DEF Sound, tables, OnMessage, Covers, Present, Stored
<1> QED BY <1>1, <1>5, <1>6, <1>7, <1>11, RequestGoesOn

LEMMA ReadStateKeeps ==
  ASSUME DmInv, NEW r \in Requests, ReadState(r)
  PROVE  DmInv'
<1>1. /\ Busy(r) /\ req[r].stage = "find" /\ req[r].op = "summary" /\ req[r] \in Request
      /\ UNCHANGED <<relation, tables, tabs>> /\ rooms' = rooms /\ cursor' = cursor /\ msg' = msg
  BY AtIsBusy DEF ReadState, At, DmInv, Stages, tables
<1>2. CASE rooms = {}
  <2>1. PICK new \in Request : new = [req[r] EXCEPT !.stage = "respond"]
    BY <1>1 DEF Request, Stages
  <2>2. PICK u : /\ u = req[r].user /\ new.user = u
                 /\ new.stage = "respond" /\ new.op = "summary" /\ new.then = req[r].then
    BY <1>1, <2>1 DEF Request
  <2>3. req' = [req EXCEPT ![r] = new]
    BY <1>2, <2>1 DEF ReadState, Proceed
  <2>4. req'[r] = new /\ new # Idle
    BY <2>3, RequestIsBusy DEF DmInv, TypeOK
  <2>5. Sound(r)'
    BY <2>2, <2>4 DEF Sound
  <2>6. Unread(u)' = {}
    BY <1>1, <1>2 DEF Unread
  <2>7. Accurate(u, r)'
    BY <2>2, <2>4, <2>6 DEF Accurate
  <2> QED BY <1>1, <2>2, <2>3, <2>4, <2>5, <2>7, RequestGoesOn
<1>3. CASE rooms # {}
  <2>1. PICK d \in rooms :
          req' = [req EXCEPT ![r].stage = "count", ![r].room = d,
                             ![r].id = cursor[req[r].user][d]]
    BY <1>3 DEF ReadState
  <2>2. PICK u \in Users : u = req[r].user
    BY <1>1 DEF Request
  <2>3. PICK last \in 0..MaxMessages : last = cursor[u][d]
    BY DEF DmInv, TypeOK
  <2>4. PICK new \in Request : new = [req[r] EXCEPT !.stage = "count", !.room = d, !.id = last]
    BY <1>1 DEF DmInv, TypeOK, Request, Stages
  <2>5. /\ new.stage = "count" /\ new.op = "summary" /\ new.user = u /\ new.room = d
        /\ new.id = last /\ new.then = req[r].then
    BY <1>1, <2>2, <2>4 DEF Request
  <2>6. req' = [req EXCEPT ![r] = new]
    BY <2>1, <2>2, <2>3, <2>4
  <2>7. req'[r] = new /\ new # Idle
    BY <2>6, RequestIsBusy DEF DmInv, TypeOK
  <2>8. Sound(r)'
    BY <1>1, <2>5, <2>7 DEF Sound
  <2>9. InOneRoom => Accurate(u, r)'
    <3> SUFFICES ASSUME InOneRoom PROVE Accurate(u, r)'
      OBVIOUS
    <3>1. d \in DmRooms
      BY DEF DmInv, TypeOK
    <3>2. (last = 0 \/ OnMessage(last, d)) /\ Anchor(d, last) = last
      BY <2>3, <3>1, AnchorIsCursor DEF DmInv, CursorsCover
    <3>3. \A i \in Unread(u) : i > last
      BY <2>3, <3>2, UnreadIn
    <3>4. Unread(u)' = Unread(u) /\ (last = 0 \/ OnMessage(last, d)')
      BY <1>1, <3>2 DEF Unread, Anchor, Present, Stored, OnMessage
    <3> QED BY <2>5, <2>7, <3>3, <3>4 DEF Accurate, OnMessage
  <2> QED BY <1>1, <2>2, <2>5, <2>6, <2>7, <2>8, <2>9, RequestGoesOn
<1> QED BY <1>2, <1>3

LEMMA CountKeeps ==
  ASSUME DmInv, NEW r \in Requests, Count(r)
  PROVE  DmInv'
<1>1. /\ Busy(r) /\ req[r].stage = "count" /\ req[r].op = "summary" /\ req[r] \in Request
      /\ UNCHANGED <<relation, tables, tabs>> /\ rooms' = rooms /\ cursor' = cursor /\ msg' = msg
  BY AtIsBusy DEF Count, At, DmInv, Stages, tables
<1>2. PICK u \in Users, d \in rooms : u = req[r].user /\ d = req[r].room
  BY <1>1 DEF Request, DmInv, AllSound, Sound
<1>3. PICK n \in 0..MaxMessages : n = countUnreadFromOthers(u, d, req[r].id)
  BY CountIs
<1>4. PICK new \in Request :
        new = [req[r] EXCEPT !.stage = "respond", !.room = NoRoom, !.id = n]
  BY <1>1 DEF Request, Stages
<1>5. /\ new.stage = "respond" /\ new.op = "summary" /\ new.user = u /\ new.id = n
      /\ new.then = req[r].then
  BY <1>1, <1>2, <1>4 DEF Request
<1>6. req' = [req EXCEPT ![r] = new]
  BY <1>2, <1>3, <1>4 DEF Count
<1>7. req'[r] = new /\ new # Idle
  BY <1>6, RequestIsBusy DEF DmInv, TypeOK
<1>8. Sound(r)'
  BY <1>5, <1>7 DEF Sound
<1>9. InOneRoom /\ Accurate(u, r) => Accurate(u, r)'
  <2> SUFFICES ASSUME InOneRoom, Accurate(u, r), Unread(u)' # {} PROVE n > 0
    BY <1>5, <1>7 DEF Accurate
  <2>1. Unread(u)' = Unread(u)
    BY <1>1 DEF Unread, Anchor, Present, Stored
  <2>2. PICK i : i \in Unread(u)
    BY <2>1
  <2>3. (req[r].id = 0 \/ OnMessage(req[r].id, d)) /\ i > req[r].id
    BY <1>1, <1>2, <2>2 DEF Accurate
  <2>4. i \in Ids /\ i > Anchor(d, req[r].id) /\ Present(i) /\ msg[i].room = d
        /\ msg[i].sender # u
    BY <2>2, <2>3, UnreadIn DEF Anchor, OnMessage
  <2> QED BY <1>3, <2>4, CountIs
<1> QED BY <1>1, <1>2, <1>5, <1>6, <1>7, <1>8, <1>9, RequestGoesOn

----------------------------------------------------------------------------
(* Sends and deletions *)

LEMMA UnreadShrinks ==
  ASSUME DmInv, Forward, msg' \in [Ids -> Row \union {NoRow}], NEW u \in Users,
         rooms' \subseteq DmRooms, cursor' = cursor, \A i \in Ids : Present(i)' => Present(i)
  PROVE  Unread(u)' \subseteq Unread(u)
<1> SUFFICES ASSUME NEW i \in Unread(u)' PROVE i \in Unread(u)
  OBVIOUS
<1>1. PICK d \in rooms' : /\ i \in Ids /\ i > Anchor(d, cursor[u][d])' /\ Present(i)'
                          /\ msg'[i].room = d /\ msg'[i].sender # u
  BY DEF Unread
<1>2. Present(i) /\ Stored(i)
  BY <1>1 DEF Present
<1>3. msg[i].room = d /\ msg[i].sender # u /\ d \in rooms
  BY <1>1, <1>2 DEF Forward, DmInv, StoredInOrder
<1>4. PICK c \in 0..MaxMessages : c = cursor[u][d]
  BY <1>3 DEF DmInv, TypeOK
<1>5. c = 0 \/ OnMessage(c, d)
  BY <1>3, <1>4 DEF DmInv, CursorsCover, TypeOK
<1>6. Anchor(d, c) = c /\ Anchor(d, c)' = c
  <2>1. CASE c = 0
    BY <2>1 DEF Anchor
  <2>2. CASE OnMessage(c, d)
    <3>1. OnMessage(c, d)'
      BY <2>2, OnMessageStays
    <3> QED BY <2>2, <3>1 DEF Anchor, OnMessage
  <2> QED BY <1>5, <2>1, <2>2
<1>7. i > Anchor(d, cursor[u][d])
  BY <1>1, <1>4, <1>6 DEF Anchor, Stored
<1> QED BY <1>1, <1>2, <1>3, <1>7 DEF Unread

\* A step of a send or a deletion that publishes nothing.
LEMMA SenderMoves ==
  ASSUME DmInv, NEW r \in Requests, Busy(r), req[r].op \in {"send", "delete"},
         NEW new \in Request, req' = [req EXCEPT ![r] = new], new.op = req[r].op,
         UNCHANGED <<relation, cursor, seen, tabs>>,
         Forward, msg' \in [Ids -> Row \union {NoRow}], rooms' \subseteq DmRooms,
         StoredInOrder', Sound(r)',
         ~(req[r].op = "send" /\ req[r].stage \in {"emit", "notify"}),
         \A i \in Ids : Present(i)' =>
           Present(i) \/ (new.op = "send" /\ new.stage = "emit" /\ new.id = i)
  PROVE  DmInv'
<1>1. /\ req' \in [Requests -> Request \union {Idle}] /\ req'[r] = new /\ new # Idle
      /\ \A q \in Requests \ {r} : req'[q] = req[q]
  BY Moved, RequestIsBusy DEF DmInv
<1>2. /\ relation' = relation /\ cursor' = cursor
      /\ seen' = seen /\ events' = events /\ chat' = chat /\ badge' = badge
      /\ overlaps' = overlaps
  BY DEF tabs
<1>3. TypeOK'
  BY <1>1, <1>2 DEF DmInv, TypeOK
<1>4. CursorsCover'
  BY <1>2, CursorsStay
<1>5. AllSound'
  <2> SUFFICES ASSUME NEW q \in Requests \ {r} PROVE Sound(q)'
    BY DEF AllSound
  <2>1. Busy(q) /\ req[q].op = "list" => chat'[req[q].user] # Closed
    BY <1>2 DEF DmInv, AllSound, Sound, Open
  <2> QED BY <1>1, <1>2, <2>1, SoundStays
<1>6. \A u \in Users, op \in {"mark", "summary", "list"} : InFlight(u, op)' = InFlight(u, op)
  BY <1>1 DEF InFlight, Busy
<1>7. OneAtATime' /\ LeftAlone'
  <2>1. \A u \in Users : \A q : q \in Marking(u, "nothing")' => q \in Marking(u, "nothing")
    BY <1>1, <1>6 DEF Marking, InFlight
  <2>2. LeftAlone'
    BY <1>2, <2>1, LeftAloneStays DEF LeftAlone
  <2> QED BY <1>2, <1>6, <2>2, OneAtATimeStays
<1>8. EventsSound'
  BY <1>2, EventsStay
<1>9. InOneRoom' => InOneRoom
  BY DEF InOneRoom, Forward
<1>10. NothingLost'
  <2> SUFFICES ASSUME NEW u \in Watchers, InOneRoom'
               PROVE  /\ Open(u)' /\ chat'[u].loaded => Complete(u, chat[u].shown)'
                      /\ \A q \in InFlight(u, "list")' : req'[q].stage = "respond" =>
                           Complete(u, chat[u].shown \union req[q].page)'
    BY DEF NothingLost, NothingLostTo
  <2>1. InOneRoom /\ u \in Users
    BY <1>9, TabsAssumption
  <2>2. \A i \in Ids : (Coming(u, i) => Coming(u, i)') /\ (Present(i)' => Present(i) \/ Coming(u, i)')
    BY <1>1, <1>2 DEF Coming, Told, At
  <2>3. ASSUME Open(u)', chat'[u].loaded PROVE Complete(u, chat[u].shown)'
    BY <1>2, <2>1, <2>2, <2>3 DEF DmInv, NothingLost, NothingLostTo, Complete, Open
  <2>4. ASSUME NEW q \in InFlight(u, "list")', req'[q].stage = "respond"
        PROVE  Complete(u, chat[u].shown \union req[q].page)'
    <3>1. q \in InFlight(u, "list") /\ q \in Requests /\ q # r
      BY <1>1, <1>6, <2>1, <2>4 DEF InFlight
    <3>2. Complete(u, chat[u].shown \union req[q].page)
      BY <1>1, <2>1, <2>4, <3>1 DEF DmInv, NothingLost, NothingLostTo
    <3> QED BY <1>1, <1>2, <2>2, <3>1, <3>2 DEF Complete
  <2> QED BY <2>3, <2>4
<1>11. BadgeFollows'
  <2> SUFFICES ASSUME NEW u \in Watchers, InOneRoom', overlaps'[u] \subseteq {"mark"}, ~Stale(u)'
               PROVE  /\ \A q \in InFlight(u, "summary")' : Accurate(u, q)'
                      /\ InFlight(u, "summary")' = {} /\ Unread(u)' # {} => badge'[u] > 0
    BY DEF BadgeFollows, BadgeFollowsOf
  <2>1. InOneRoom /\ u \in Users /\ overlaps[u] \subseteq {"mark"}
    BY <1>2, <1>9, TabsAssumption
  <2>2. ~Stale(u) /\ ~(new.op = "send" /\ new.stage = "emit")
    <3>1. "mark" \in overlaps[u] =>
            \A q \in InFlight(u, "mark") : req[q].then = "nothing"
      BY <1>1, <1>2, <1>6, <2>1 DEF Stale, InFlight
    <3> QED BY <1>1, <1>2, <2>1, <3>1 DEF Stale, Notified, Busy
  <2>3. Unread(u)' \subseteq Unread(u)
    BY <1>2, <2>1, <2>2, UnreadShrinks
  <2>4. /\ \A q \in InFlight(u, "summary") : Accurate(u, q)
        /\ InFlight(u, "summary") = {} /\ Unread(u) # {} => badge[u] > 0
    BY <2>1, <2>2 DEF DmInv, BadgeFollows, BadgeFollowsOf
  <2>5. ASSUME NEW q \in InFlight(u, "summary")' PROVE Accurate(u, q)'
    <3>1. q \in InFlight(u, "summary") /\ q \in Requests /\ q # r
      BY <1>1, <1>6, <2>1, <2>5 DEF InFlight
    <3> QED BY <1>1, <2>3, <2>4, <3>1, AccurateStays
  <2> QED BY <1>2, <1>6, <2>1, <2>3, <2>4, <2>5
<1> QED BY <1>3, <1>4, <1>5, <1>7, <1>8, <1>10, <1>11 DEF DmInv

LEMMA createDmRoomKeeps ==
  ASSUME DmInv, NEW r \in Requests, createDmRoom(r)
  PROVE  DmInv'
<1>1. PICK d \in DmRooms \ rooms :
        /\ rooms' = rooms \union {d}
        /\ req' = [req EXCEPT ![r].stage = "create", ![r].room = d]
  BY DEF createDmRoom
<1>2. /\ Busy(r) /\ req[r] \in Request /\ req[r].stage = "createRoom" /\ req[r].op = "send"
      /\ UNCHANGED <<relation, msg, cursor, seen, tabs>>
  BY AtIsBusy DEF createDmRoom, At, DmInv, Stages
<1>3. PICK new \in Request : new = [req[r] EXCEPT !.stage = "create", !.room = d]
  BY <1>2 DEF Request, Stages
<1>4. /\ new.stage = "create" /\ new.op = "send" /\ new.room = d
      /\ new.asFriends = req[r].asFriends
  BY <1>2, <1>3 DEF Request
<1>5. req' = [req EXCEPT ![r] = new]
  BY <1>1, <1>3
<1>6. req'[r] = new
  BY <1>5 DEF DmInv, TypeOK
<1>7. Forward /\ msg' \in [Ids -> Row \union {NoRow}] /\ rooms' \subseteq DmRooms
  BY <1>1, <1>2 DEF Forward, Stored, tabs, DmInv, TypeOK
<1>8. StoredInOrder'
  <2>1. IsFiniteSet(rooms')
    BY <1>1, FS_AddElement DEF DmInv, StoredInOrder
  <2> QED BY <1>1, <1>2, <2>1 DEF DmInv, StoredInOrder, Stored
<1>9. new.asFriends
  BY <1>2, <1>4 DEF DmInv, AllSound, Sound
<1>10. Sound(r)'
  <2>1. new.room \in rooms'
    BY <1>1, <1>4
  <2> QED BY <1>4, <1>6, <1>9, <2>1 DEF Sound
<1>11. \A i \in Ids : Present(i)' => Present(i)
  BY <1>2 DEF Present, Stored
<1>12. req[r].op \in {"send", "delete"} /\ new.op = req[r].op
  BY <1>2, <1>4
<1>13. ~(req[r].op = "send" /\ req[r].stage \in {"emit", "notify"})
  BY <1>2
<1>14. \A i \in Ids : Present(i)' =>
         Present(i) \/ (new.op = "send" /\ new.stage = "emit" /\ new.id = i)
  BY <1>11 DEF Present, Stored
<1> QED BY <1>2, <1>5, <1>7, <1>8, <1>10, <1>12, <1>13, <1>14, SenderMoves

LEMMA CreateKeeps ==
  ASSUME DmInv, NEW r \in Requests, Create(r)
  PROVE  DmInv'
<1>1. /\ Busy(r) /\ req[r] \in Request /\ req[r].stage = "create" /\ req[r].op = "send"
      /\ UNCHANGED <<relation, rooms, cursor, seen, tabs>>
  BY AtIsBusy DEF Create, At, DmInv, Stages
<1>2. PICK u \in Users, d \in rooms : u = req[r].user /\ d = req[r].room
  BY <1>1 DEF DmInv, AllSound, Sound, Request
<1>3. d \in DmRooms
  BY DEF DmInv, TypeOK
<1>4. PICK i \in Ids :
        /\ ~Stored(i) /\ \A j \in 1..(i - 1) : Stored(j)
        /\ msg' = [msg EXCEPT ![i] = [room |-> d, sender |-> u, deleted |-> FALSE]]
        /\ req' = [req EXCEPT ![r] = [req[r] EXCEPT !.stage = "emit", !.id = i, !.room = NoRoom,
                                       !.asFriends = FALSE]]
  BY <1>2 DEF Create
<1>5. i \in 0..MaxMessages /\ i \in Nat
  BY BoundsAssumption DEF Ids
<1>6. PICK new \in Request : new = [req[r] EXCEPT !.stage = "emit", !.id = i, !.room = NoRoom,
                                       !.asFriends = FALSE]
  BY <1>1, <1>5 DEF Request, Stages
<1>7. new.stage = "emit" /\ new.op = "send" /\ new.id = i
  BY <1>1, <1>6 DEF Request
<1>8. req' = [req EXCEPT ![r] = new] /\ req'[r] = new
  BY <1>4, <1>6 DEF DmInv, TypeOK
<1>9. PICK row \in Row : row = [room |-> d, sender |-> u, deleted |-> FALSE]
  BY <1>3 DEF Row
<1>10. row.room = d /\ row # NoRow
  BY <1>9 DEF NoRow
<1>11. /\ msg' \in [Ids -> Row \union {NoRow}] /\ msg'[i] = row
       /\ \A j \in Ids \ {i} : msg'[j] = msg[j]
  BY <1>4, <1>9 DEF DmInv, TypeOK
<1>12. /\ \A j \in Ids \ {i} : (Stored(j)' <=> Stored(j)) /\ (Present(j)' <=> Present(j))
       /\ Stored(i)'
  BY <1>10, <1>11 DEF Stored, Present
<1>13. Forward /\ rooms' \subseteq DmRooms
  BY <1>1, <1>4, <1>11, <1>12 DEF Forward, tabs, DmInv, TypeOK
<1>14. StoredInOrder'
  <2> SUFFICES ASSUME NEW k \in Ids, Stored(k)'
               PROVE  msg'[k].room \in rooms' /\ \A j \in Ids : j < k => Stored(j)'
    BY <1>1 DEF DmInv, StoredInOrder
  <2>1. CASE k = i
    <3>1. \A j \in Ids : j < i => j \in 1..(i - 1)
      BY <1>5, BoundsAssumption DEF Ids
    <3> QED BY <1>1, <1>4, <1>10, <1>11, <1>12, <2>1, <3>1
  <2>2. CASE k # i
    BY <1>1, <1>11, <1>12, <2>2 DEF DmInv, StoredInOrder
  <2> QED BY <2>1, <2>2
<1>15. Sound(r)'
  BY <1>7, <1>8, <1>12 DEF Sound, Stored
<1>16. \A j \in Ids : Present(j)' => Present(j) \/ new.id = j
  BY <1>7, <1>12
<1>17. req[r].op \in {"send", "delete"} /\ new.op = req[r].op
  BY <1>1, <1>7
<1>18. ~(req[r].op = "send" /\ req[r].stage \in {"emit", "notify"})
  BY <1>1
<1>19. \A j \in Ids : Present(j)' =>
         Present(j) \/ (new.op = "send" /\ new.stage = "emit" /\ new.id = j)
  BY <1>7, <1>16 DEF Present, Stored
<1> QED BY <1>1, <1>8, <1>11, <1>13, <1>14, <1>15, <1>17, <1>18, <1>19, SenderMoves

LEMMA EraseKeeps ==
  ASSUME DmInv, NEW r \in Requests, Erase(r)
  PROVE  DmInv'
<1>1. /\ Busy(r) /\ req[r] \in Request /\ req[r].stage = "erase" /\ req[r].op = "delete"
      /\ UNCHANGED <<relation, rooms, cursor, seen, tabs>>
  BY AtIsBusy DEF Erase, At, DmInv, Stages
<1>2. PICK i \in Ids : i = req[r].id /\ Stored(i)
  BY <1>1 DEF DmInv, AllSound, Sound
<1>3. /\ msg' = [msg EXCEPT ![i].deleted = TRUE]
      /\ Proceed(r, "emit")
  BY <1>2 DEF Erase
<1>4. msg[i] \in Row
  BY <1>2 DEF DmInv, TypeOK, Stored
<1>5. PICK row \in Row : row = [msg[i] EXCEPT !.deleted = TRUE]
  BY <1>4 DEF Row
<1>6. row.deleted /\ row.room = msg[i].room /\ row.sender = msg[i].sender /\ row # NoRow
  BY <1>4, <1>5 DEF Row, NoRow
<1>7. /\ msg' \in [Ids -> Row \union {NoRow}] /\ msg'[i] = row
      /\ \A j \in Ids \ {i} : msg'[j] = msg[j]
  BY <1>3, <1>5 DEF DmInv, TypeOK
<1>8. /\ \A j \in Ids : (Stored(j)' <=> Stored(j)) /\ (Present(j)' => Present(j))
      /\ \A j \in Ids : Stored(j) => msg'[j].room = msg[j].room /\ msg'[j].sender = msg[j].sender
  BY <1>2, <1>6, <1>7 DEF Stored, Present
<1>9. \A j \in Ids : Stored(j) /\ msg[j].deleted => msg'[j].deleted
  BY <1>6, <1>7
<1>10. Forward /\ rooms' \subseteq DmRooms
  BY <1>1, <1>8, <1>9 DEF Forward, tabs, DmInv, TypeOK
<1>11. StoredInOrder'
  BY <1>1, <1>8 DEF DmInv, StoredInOrder
<1>12. PICK new \in Request : new = [req[r] EXCEPT !.stage = "emit"]
  BY <1>1 DEF Request, Stages
<1>13. new.stage = "emit" /\ new.op = "delete" /\ new.id = i
  BY <1>1, <1>2, <1>12 DEF Request
<1>14. req' = [req EXCEPT ![r] = new] /\ req'[r] = new
  BY <1>3, <1>12 DEF Proceed, DmInv, TypeOK
<1>15. Sound(r)'
  BY <1>2, <1>6, <1>7, <1>8, <1>13, <1>14 DEF Sound, Stored
<1>16. req[r].op \in {"send", "delete"} /\ new.op = req[r].op
  BY <1>1, <1>13
<1>17. ~(req[r].op = "send" /\ req[r].stage \in {"emit", "notify"})
  BY <1>1
<1>18. \A j \in Ids : Present(j)' =>
         Present(j) \/ (new.op = "send" /\ new.stage = "emit" /\ new.id = j)
  BY <1>8 DEF Present, Stored
<1> QED BY <1>1, <1>7, <1>10, <1>11, <1>14, <1>15, <1>16, <1>17, <1>18, SenderMoves

----------------------------------------------------------------------------
(* What a step keeps for a user it is not about *)

LEMMA LostStays ==
  ASSUME DmInv, NEW u \in Watchers, InOneRoom,
         \A i \in Ids : (Present(i)' => Present(i)) /\ (Coming(u, i) => Coming(u, i)'),
         chat'[u] = chat[u],
         \A q \in InFlight(u, "list")' : q \in InFlight(u, "list") /\ req'[q] = req[q]
  PROVE  NothingLostTo(u)'
<1>1. NothingLostTo(u)
  BY DEF DmInv, NothingLost
<1>2. \A shown : Complete(u, shown) => Complete(u, shown)'
  BY DEF Complete
<1>3. Open(u)' /\ chat'[u].loaded => Complete(u, chat[u].shown)'
  <2> SUFFICES ASSUME Open(u)', chat'[u].loaded PROVE Complete(u, chat[u].shown)'
    OBVIOUS
  <2>1. PICK shown : shown = chat[u].shown /\ shown = chat'[u].shown
    OBVIOUS
  <2>2. Complete(u, shown)
    BY <1>1, <2>1 DEF NothingLostTo, Open
  <2> QED BY <1>2, <2>1, <2>2 DEF Complete
<1>4. ASSUME NEW q \in InFlight(u, "list")', req'[q].stage = "respond"
      PROVE  Complete(u, chat[u].shown \union req[q].page)'
  <2>1. PICK shown : /\ shown = chat[u].shown \union req[q].page
                     /\ shown = chat'[u].shown \union req'[q].page
    BY <1>4
  <2>2. Complete(u, shown)
    BY <1>1, <1>4, <2>1 DEF NothingLostTo
  <2> QED BY <1>2, <2>1, <2>2 DEF Complete
<1> QED BY <1>3, <1>4 DEF NothingLostTo

LEMMA BadgeStays ==
  ASSUME DmInv, NEW u \in Watchers, InOneRoom,
         Forward, overlaps'[u] \subseteq {"mark"} /\ Stale(u) => Stale(u)',
         Unread(u)' \subseteq Unread(u), badge'[u] = badge[u],
         \A q \in Requests : q \in InFlight(u, "summary") <=> q \in InFlight(u, "summary")',
         \A q \in InFlight(u, "summary") : req'[q] = req[q]
  PROVE  BadgeFollowsOf(u)'
<1> SUFFICES ASSUME overlaps'[u] \subseteq {"mark"}, ~Stale(u)'
             PROVE  /\ \A q \in InFlight(u, "summary")' : Accurate(u, q)'
                    /\ InFlight(u, "summary")' = {} /\ Unread(u)' # {} => badge'[u] > 0
  BY DEF BadgeFollowsOf
<1>1. InFlight(u, "summary")' = InFlight(u, "summary")
  BY DEF InFlight
<1>2. BadgeFollowsOf(u) /\ overlaps[u] \subseteq {"mark"} /\ ~Stale(u)
  BY TabsAssumption DEF DmInv, BadgeFollows, Forward
<1>3. /\ \A q \in InFlight(u, "summary") : Accurate(u, q)
      /\ InFlight(u, "summary") = {} /\ Unread(u) # {} => badge[u] > 0
  BY <1>2 DEF BadgeFollowsOf
<1>4. \A q \in InFlight(u, "summary")' : Accurate(u, q)'
  BY <1>1, <1>3, AccurateStays
<1> QED BY <1>1, <1>3, <1>4

\* A cursor set to where it covers what it covered leaves nothing more unread.
LEMMA UnreadOfSet ==
  ASSUME DmInv, InOneRoom, UNCHANGED <<rooms, msg>>, NEW u \in Users, NEW d \in rooms,
         NEW last \in 0..MaxMessages, cursor'[u][d] = last, last = 0 \/ OnMessage(last, d),
         Covers(u, last, d), "mark" \notin overlaps[u]
  PROVE  Unread(u)' \subseteq Unread(u)
<1> SUFFICES ASSUME NEW i \in Unread(u)' PROVE i \in Unread(u)
  OBVIOUS
<1>1. d \in DmRooms
  BY DEF DmInv, TypeOK
<1>2. PICK c \in 0..MaxMessages : c = cursor[u][d] /\ Anchor(d, c) = c
  BY <1>1, AnchorIsCursor DEF DmInv, TypeOK
<1>3. Anchor(d, last) = last
  BY DEF Anchor, OnMessage
<1>4. i \in Ids /\ i > last /\ Present(i) /\ msg[i].room = d /\ msg[i].sender # u
  BY <1>3 DEF Unread, InOneRoom, Anchor, Present, Stored
<1>5. i > c
  <2> SUFFICES ASSUME i <= c PROVE FALSE
    BY <1>2, <1>4, BoundsAssumption DEF Ids
  <2>1. i \in seen[u]
    BY <1>1, <1>2, <1>4 DEF DmInv, CursorsCover, PastIsSeen, Present
  <2>2. i <= last
    BY <1>4, <2>1 DEF Covers
  <2> QED BY <1>4, <2>2, BoundsAssumption DEF Ids
<1> QED BY <1>2, <1>4, <1>5, UnreadIn

LEMMA UnreadStays ==
  ASSUME UNCHANGED <<rooms, msg>>, NEW u, cursor'[u] = cursor[u]
  PROVE  Unread(u)' = Unread(u)
BY DEF Unread, Anchor, Present, Stored

----------------------------------------------------------------------------
(* The friendship and the cursor *)

LEMMA RelateKeeps ==
  ASSUME DmInv, Relate
  PROVE  DmInv'
<1>1. /\ relation = "friends" /\ relation' \in {"strangers", "banned"} /\ rooms' = rooms
      /\ msg' = msg /\ cursor' = cursor /\ seen' = seen /\ req' = req /\ events' = events
      /\ chat' = chat /\ badge' = badge /\ overlaps' = overlaps
  BY DEF Relate, tables, tabs
<1>2. TypeOK'
  BY <1>1 DEF DmInv, TypeOK
<1>3. Forward /\ msg' \in [Ids -> Row \union {NoRow}]
  BY <1>1, <1>2, ForwardOnTables DEF DmInv, TypeOK
<1>4. StoredInOrder' /\ CursorsCover'
  BY <1>1, <1>3, StoredStays, CursorsStay
<1>5. AllSound'
  <2> SUFFICES ASSUME NEW q \in Requests PROVE Sound(q)'
    BY DEF AllSound
  <2>1. Busy(q) /\ req[q].op = "list" => chat'[req[q].user] # Closed
    BY <1>1 DEF DmInv, AllSound, Sound, Open
  <2> QED BY <1>1, <1>3, <2>1, SoundStays
<1>6. OneAtATime' /\ LeftAlone' /\ EventsSound'
  BY <1>1
     DEF DmInv, OneAtATime, LeftAlone, LeftAloneOf, Marking, EventsSound, InFlight, Busy, Stored
<1>7. NothingLost'
  BY <1>1, LostStays
     DEF NothingLost, InOneRoom, Coming, Told, At, Present, Stored, InFlight, Busy
<1>8. BadgeFollows'
  BY <1>1, <1>3, BadgeStays, UnreadStays
     DEF BadgeFollows, InOneRoom, Stale, Notified, InFlight, Busy
<1> QED BY <1>2, <1>4, <1>5, <1>6, <1>7, <1>8 DEF DmInv

\* The cursor is set to what Latest found, and covers all it covered: no other request to
\* mark the conversation has run meanwhile.
LEMMA UpsertKeeps ==
  ASSUME DmInv, NEW r \in Requests, Upsert(r)
  PROVE  DmInv'
<1>1. /\ Busy(r) /\ req[r].stage = "upsert" /\ req[r].op = "mark" /\ req[r] \in Request
      /\ UNCHANGED <<relation, rooms, msg, tabs>>
  BY AtIsBusy DEF Upsert, At, DmInv, Stages
<1>2. PICK u \in Users, d \in rooms, last \in 0..MaxMessages :
        u = req[r].user /\ d = req[r].room /\ last = req[r].id
  BY <1>1 DEF Request, DmInv, AllSound, Sound
<1>3. (last = 0 \/ OnMessage(last, d)) /\ Covers(u, last, d)
  BY <1>1, <1>2 DEF DmInv, AllSound, Sound
<1>4. PICK got : got = {i \in 1..last : msg[i].room = d}
  OBVIOUS
<1>5. /\ cursor' = [cursor EXCEPT ![u][d] = last] /\ seen' = [seen EXCEPT ![u] = @ \union got]
      /\ req' = [req EXCEPT ![r].stage = "respond", ![r].room = NoRoom, ![r].id = 0]
  BY <1>2, <1>4 DEF Upsert
<1>6. PICK new \in Request : new = [req[r] EXCEPT !.stage = "respond", !.room = NoRoom, !.id = 0]
  <2>1. 0 \in 0..MaxMessages
    BY BoundsAssumption
  <2> QED BY <1>1, <2>1 DEF Request, Stages
<1>7. /\ new.stage = "respond" /\ new.op = "mark" /\ new.user = u /\ new # Idle
      /\ new.then = req[r].then
  BY <1>1, <1>2, <1>6, RequestIsBusy DEF Request
<1>8. /\ req' \in [Requests -> Request \union {Idle}] /\ req'[r] = new
      /\ \A q \in Requests \ {r} : req'[q] = req[q]
  <2>1. req' = [req EXCEPT ![r] = new]
    BY <1>5, <1>6
  <2> QED BY <2>1, Moved DEF DmInv
<1>9. /\ relation' = relation /\ rooms' = rooms /\ msg' = msg /\ events' = events
      /\ chat' = chat /\ badge' = badge /\ overlaps' = overlaps
  BY <1>1 DEF tabs
<1>10. d \in DmRooms /\ got \subseteq Ids
  BY <1>4, BoundsAssumption DEF Ids, DmInv, TypeOK
<1>11. /\ cursor' \in [Users -> [DmRooms -> 0..MaxMessages]] /\ seen' \in [Users -> SUBSET Ids]
       /\ cursor'[u][d] = last /\ \A e \in DmRooms \ {d} : cursor'[u][e] = cursor[u][e]
       /\ seen'[u] = seen[u] \union got
       /\ \A v \in Users \ {u} : cursor'[v] = cursor[v] /\ seen'[v] = seen[v]
  BY <1>5, <1>10 DEF DmInv, TypeOK
<1>12. TypeOK'
  BY <1>8, <1>9, <1>11 DEF DmInv, TypeOK
<1>13. Forward /\ msg' \in [Ids -> Row \union {NoRow}] /\ StoredInOrder'
  BY <1>9, <1>12, ForwardOnTables, StoredStays DEF DmInv, TypeOK
<1>14. \A i \in got : i \in Ids /\ Stored(i) /\ msg[i].room = d /\ i <= last
  <2> SUFFICES ASSUME NEW i \in got PROVE Stored(i)
    BY <1>4, <1>10
  <2>1. OnMessage(last, d) /\ i \in Ids /\ i <= last
    BY <1>3, <1>4, <1>10
  <2> QED BY <2>1 DEF OnMessage, DmInv, StoredInOrder, Ids
<1>15. CursorsCover'
  <2>1. ASSUME NEW v \in Users, NEW j \in seen'[v] PROVE Stored(j)'
    BY <1>9, <1>11, <1>14, <2>1 DEF DmInv, CursorsCover, Stored
  <2>2. ASSUME NEW v \in Users, NEW e \in DmRooms
        PROVE  /\ (cursor[v][e] = 0 \/ OnMessage(cursor[v][e], e))' /\ Covers(v, cursor[v][e], e)'
               /\ PastIsSeen(v, e)'
    <3>1. PICK c : c = cursor'[v][e]
      OBVIOUS
    <3>2. PICK b : b = cursor[v][e]
      OBVIOUS
    <3>3. (b = 0 \/ OnMessage(b, e)) /\ Covers(v, b, e) /\ PastIsSeen(v, e)
      BY <3>2 DEF DmInv, CursorsCover
    <3>4. c = 0 \/ OnMessage(c, e)
      BY <1>3, <1>11, <3>1, <3>2, <3>3
    <3>5. ASSUME "mark" \notin overlaps[v], NEW j \in seen'[v], Present(j), msg[j].room = e
          PROVE  j <= c
      <4>1. CASE v = u /\ e = d
        BY <1>3, <1>11, <1>14, <3>1, <3>5, <4>1 DEF Covers
      <4>2. CASE v = u /\ e # d
        BY <1>11, <1>14, <3>1, <3>2, <3>3, <3>5, <4>2 DEF Covers
      <4>3. CASE v # u
        BY <1>11, <3>1, <3>2, <3>3, <3>5, <4>3 DEF Covers
      <4> QED BY <4>1, <4>2, <4>3
    <3>6. (c = 0 \/ OnMessage(c, e)') /\ Covers(v, c, e)'
      BY <1>9, <3>4, <3>5 DEF OnMessage, Covers, Present, Stored
    <3>7. ASSUME NEW j \in Ids, j <= c, Stored(j), msg[j].room = e PROVE j \in seen'[v]
      <4>1. CASE v = u /\ e = d
        BY <1>4, <1>11, <3>1, <3>7, <4>1, BoundsAssumption DEF Ids
      <4>2. CASE ~(v = u /\ e = d)
        BY <1>11, <3>1, <3>3, <3>7, <4>2 DEF PastIsSeen
      <4> QED BY <4>1, <4>2
    <3>8. PastIsSeen(v, e)'
      BY <1>9, <3>1, <3>7 DEF PastIsSeen, Stored
    <3> QED BY <3>1, <3>6, <3>8 DEF OnMessage, Covers
  <2> QED BY <2>1, <2>2 DEF CursorsCover
<1>16. Sound(r)'
  BY <1>7, <1>8 DEF Sound
<1>17. AllSound'
  <2> SUFFICES ASSUME NEW q \in Requests \ {r} PROVE Sound(q)'
    BY <1>16 DEF AllSound
  <2>1. Busy(q) /\ req[q].op = "list" => chat'[req[q].user] # Closed
    BY <1>9 DEF DmInv, AllSound, Sound, Open
  <2>2. ASSUME Busy(q)
        PROVE  \/ seen'[req[q].user] = seen[req[q].user]
               \/ req[q].op = "mark" => "mark" \in overlaps'[req[q].user]
    <3>1. req[q].user \in Users
      BY <2>2, BusyRequest DEF DmInv, Request
    <3>2. CASE req[q].user # u
      BY <1>11, <3>1, <3>2
    <3>3. CASE req[q].user = u
      <4>1. req[q].op = "mark" => q \in InFlight(u, "mark") /\ r \in InFlight(u, "mark")
        BY <1>1, <1>2, <2>2, <3>3 DEF InFlight
      <4> QED BY <1>9, <3>3, <4>1 DEF DmInv, OneAtATime
    <3> QED BY <3>2, <3>3
  <2> QED BY <1>8, <1>13, <2>1, <2>2, SoundStays
<1>18. \A v \in Users, op \in {"mark", "summary", "list"} : InFlight(v, op)' = InFlight(v, op)
  BY <1>1, <1>2, <1>7, <1>8 DEF InFlight, Busy
<1>19. OneAtATime' /\ LeftAlone' /\ EventsSound'
  <2>1. \A v \in Users : \A q : q \in Marking(v, "nothing")' => q \in Marking(v, "nothing")
    BY <1>7, <1>8, <1>18 DEF Marking, InFlight
  <2>2. LeftAlone'
    BY <1>9, <2>1, LeftAloneStays DEF LeftAlone
  <2> QED BY <1>9, <1>13, <1>18, <2>2, OneAtATimeStays, EventsStay
<1>20. InOneRoom' <=> InOneRoom
  BY <1>9 DEF InOneRoom
<1>21. NothingLost'
  <2> SUFFICES ASSUME NEW v \in Watchers, InOneRoom PROVE NothingLostTo(v)'
    BY <1>20 DEF NothingLost
  <2>1. \A i \in Ids : (Present(i)' => Present(i)) /\ (Coming(v, i) => Coming(v, i)')
    BY <1>1, <1>8, <1>9 DEF Coming, Told, At, Present, Stored
  <2>2. \A q \in InFlight(v, "list")' : q \in InFlight(v, "list") /\ req'[q] = req[q]
    BY <1>7, <1>8, <1>18, TabsAssumption DEF InFlight
  <2>3. chat'[v] = chat[v]
    BY <1>9
  <2> QED BY <2>1, <2>2, <2>3, LostStays
<1>22. BadgeFollows'
  <2> SUFFICES ASSUME NEW v \in Watchers, InOneRoom PROVE BadgeFollowsOf(v)'
    BY <1>20 DEF BadgeFollows
  <2>1. v \in Users
    BY TabsAssumption
  <2>2. Stale(v) => Stale(v)'
    <3>1. (\E q \in InFlight(v, "mark") : req[q].then # "nothing")
            => (\E q \in InFlight(v, "mark") : req[q].then # "nothing")'
      BY <1>7, <1>8, <1>18, <2>1 DEF InFlight
    <3> QED BY <1>1, <1>8, <1>9, <3>1 DEF Stale, Notified, Busy
  <2>3. \A q \in Requests : q \in InFlight(v, "summary") <=> q \in InFlight(v, "summary")'
    BY <1>18, <2>1
  <2>4. \A q \in InFlight(v, "summary") : req'[q] = req[q]
    BY <1>1, <1>8 DEF InFlight
  <2>5. CASE v # u
    <3>1. Unread(v)' \subseteq Unread(v)
      BY <1>9, <1>11, <2>1, <2>5, UnreadStays
    <3> QED BY <1>9, <1>13, <2>2, <2>3, <2>4, <3>1, BadgeStays
  <2>6. CASE v = u /\ "mark" \notin overlaps[u]
    <3>1. Unread(u)' \subseteq Unread(u)
      BY <1>2, <1>3, <1>9, <1>10, <1>11, <2>6, UnreadOfSet
    <3> QED BY <1>9, <1>13, <2>2, <2>3, <2>4, <2>6, <3>1, BadgeStays
  <2>7. CASE v = u /\ "mark" \in overlaps[u] /\ "left" \notin overlaps[u]
    <3>1. req[r].then # "nothing"
      <4>1. r \in InFlight(u, "mark")
        BY <1>1, <1>2 DEF InFlight
      <4> QED BY <2>7, <4>1 DEF Marking, DmInv, LeftAlone, LeftAloneOf
    <3>2. r \in InFlight(u, "mark")' /\ req'[r].then # "nothing"
      BY <1>7, <1>8, <3>1 DEF InFlight, Busy
    <3> QED BY <1>9, <2>7, <3>2 DEF BadgeFollowsOf, Stale
  <2>8. CASE v = u /\ "left" \in overlaps[u]
    BY <1>9, <2>8 DEF BadgeFollowsOf
  <2> QED BY <2>5, <2>6, <2>7, <2>8
<1> QED BY <1>12, <1>13, <1>15, <1>17, <1>19, <1>21, <1>22 DEF DmInv

----------------------------------------------------------------------------
(* Events published to the tabs *)

\* Publish keeps what is on its way, in its place, and adds one event behind it.
LEMMA Published ==
  ASSUME DmInv, NEW e \in Event, Publish(e)
  PROVE  /\ events' \in [Users -> Seq(Event)]
         /\ \A u \in Watchers : \A k \in 1..Len(events[u]) :
              k \in 1..Len(events'[u]) /\ events'[u][k] = events[u][k]
         /\ \A u \in Watchers : \E k \in 1..Len(events'[u]) : events'[u][k] = e
         /\ \A u \in Users : \A k \in 1..Len(events'[u]) :
              \/ \E j \in 1..Len(events[u]) : events'[u][k] = events[u][j]
              \/ events'[u][k] = e
<1>1. /\ events' = [u \in Users |-> IF u \in Watchers THEN Append(events[u], e) ELSE <<>>]
      /\ events \in [Users -> Seq(Event)]
  BY DEF Publish, DmInv, TypeOK
<1>2. \A u \in Users \ Watchers : events'[u] = <<>>
  BY <1>1
<1>3. ASSUME NEW u \in Watchers
      PROVE  /\ u \in Users /\ events'[u] = Append(events[u], e) /\ events[u] \in Seq(Event)
             /\ events'[u] \in Seq(Event) /\ Len(events'[u]) = Len(events[u]) + 1
             /\ \A k \in 1..Len(events[u]) : events'[u][k] = events[u][k]
             /\ events'[u][Len(events[u]) + 1] = e
  <2>1. u \in Users
    BY TabsAssumption
  <2>2. events'[u] = Append(events[u], e) /\ events[u] \in Seq(Event)
    BY <1>1, <2>1
  <2> QED BY <2>1, <2>2, AppendProperties
<1>4. \A u \in Watchers : Len(events[u]) \in Nat
  BY <1>3, LenProperties
<1>5. events' \in [Users -> Seq(Event)]
  <2>1. \A u \in Users : (IF u \in Watchers THEN Append(events[u], e) ELSE <<>>) \in Seq(Event)
    BY <1>3, EmptySeq
  <2> QED BY <1>1, <2>1
<1>6. ASSUME NEW u \in Users, NEW k \in 1..Len(events'[u])
      PROVE  \/ \E j \in 1..Len(events[u]) : events'[u][k] = events[u][j]
             \/ events'[u][k] = e
  <2>1. CASE u \in Watchers
    <3>1. k \in 1..Len(events[u]) \/ k = Len(events[u]) + 1
      BY <1>3, <1>4, <1>6, <2>1
    <3> QED BY <1>3, <2>1, <3>1
  <2>2. CASE u \notin Watchers
    BY <1>2, <1>6, <2>2
  <2> QED BY <2>1, <2>2
<1>7. \A u \in Watchers : \A k \in 1..Len(events[u]) :
        k \in 1..Len(events'[u]) /\ events'[u][k] = events[u][k]
  BY <1>3, <1>4
<1>8. \A u \in Watchers : \E k \in 1..Len(events'[u]) : events'[u][k] = e
  BY <1>3, <1>4
<1> QED BY <1>5, <1>6, <1>7, <1>8

\* A send or a deletion publishes e and goes on or ends.
LEMMA PublishKeeps ==
  ASSUME DmInv, NEW r \in Requests, Busy(r), req[r].op \in {"send", "delete"},
         NEW e \in Event, Publish(e), NEW new \in Request \union {Idle},
         req' = [req EXCEPT ![r] = new], new # Idle => new.op = req[r].op,
         UNCHANGED <<relation, tables, chat, badge, overlaps>>, Sound(r)',
         e.kind # "refresh" => /\ e.id \in Ids /\ Stored(e.id)
                               /\ e.kind = "deleted" => msg[e.id].deleted,
         At(r, "emit", "send") => e.kind = "message" /\ e.id = req[r].id,
         \/ req[r].op = "delete"
         \/ e.kind = "refresh"
         \/ new # Idle /\ new.op = "send" /\ new.stage \in {"emit", "notify"}
  PROVE  DmInv'
<1>1. /\ req' \in [Requests -> Request \union {Idle}] /\ req'[r] = new
      /\ \A q \in Requests \ {r} : req'[q] = req[q]
  BY Moved DEF DmInv
<1>2. /\ relation' = relation /\ rooms' = rooms /\ msg' = msg /\ cursor' = cursor
      /\ seen' = seen /\ chat' = chat /\ badge' = badge /\ overlaps' = overlaps
  BY DEF tables
<1>3. /\ events' \in [Users -> Seq(Event)]
      /\ \A u \in Watchers : \A k \in 1..Len(events[u]) :
           k \in 1..Len(events'[u]) /\ events'[u][k] = events[u][k]
      /\ \A u \in Watchers : \E k \in 1..Len(events'[u]) : events'[u][k] = e
      /\ \A u \in Users : \A k \in 1..Len(events'[u]) :
           \/ \E j \in 1..Len(events[u]) : events'[u][k] = events[u][j]
           \/ events'[u][k] = e
  BY Published
<1>4. TypeOK'
  BY <1>1, <1>2, <1>3 DEF DmInv, TypeOK
<1>5. Forward /\ msg' \in [Ids -> Row \union {NoRow}]
  BY <1>2, <1>4, ForwardOnTables DEF DmInv, TypeOK
<1>6. StoredInOrder' /\ CursorsCover'
  BY <1>2, <1>5, StoredStays, CursorsStay
<1>7. AllSound'
  <2> SUFFICES ASSUME NEW q \in Requests \ {r} PROVE Sound(q)'
    BY DEF AllSound
  <2>1. Busy(q) /\ req[q].op = "list" => chat'[req[q].user] # Closed
    BY <1>2 DEF DmInv, AllSound, Sound, Open
  <2> QED BY <1>1, <1>2, <1>5, <2>1, SoundStays
<1>8. \A u \in Users, op \in {"mark", "summary", "list"} : InFlight(u, op)' = InFlight(u, op)
  BY <1>1 DEF InFlight, Busy
<1>9. OneAtATime' /\ LeftAlone'
  <2>1. \A u \in Users : \A q : q \in Marking(u, "nothing")' => q \in Marking(u, "nothing")
    BY <1>1, <1>8 DEF Marking, InFlight
  <2>2. LeftAlone'
    BY <1>2, <2>1, LeftAloneStays DEF LeftAlone
  <2> QED BY <1>2, <1>8, <2>2, OneAtATimeStays
<1>10. EventsSound'
  <2>1. e.kind # "refresh" =>
          /\ e.id \in Ids
          /\ \E i \in Ids : /\ i = e.id /\ Stored(i)'
                            /\ e.kind = "deleted" => msg'[i].deleted
    BY <1>2 DEF Stored
  <2>2. \A u \in Users : \A k \in 1..Len(events'[u]) :
          \/ \E j \in 1..Len(events[u]) : events'[u][k] = events[u][j]
          \/ events'[u][k].kind = "refresh"
          \/ /\ events'[u][k].id \in Ids
             /\ \E i \in Ids : /\ i = events'[u][k].id /\ Stored(i)'
                               /\ events'[u][k].kind = "deleted" => msg'[i].deleted
    BY <1>3, <2>1
  <2> QED BY <1>5, <2>2, EventsStay
<1>11. InOneRoom' <=> InOneRoom
  BY <1>2 DEF InOneRoom
<1>12. NothingLost'
  <2> SUFFICES ASSUME NEW u \in Watchers, InOneRoom PROVE NothingLostTo(u)'
    BY <1>11 DEF NothingLost
  <2>1. \A i \in Ids : Coming(u, i) => Coming(u, i)'
    <3> SUFFICES ASSUME NEW i \in Ids, Coming(u, i) PROVE Coming(u, i)'
      OBVIOUS
    <3>1. CASE Told(u, i)
      BY <1>3, <3>1 DEF Coming, Told
    <3>2. CASE At(r, "emit", "send") /\ req[r].id = i
      <4>1. e.kind = "message" /\ e.id = i
        BY <3>2
      <4> QED BY <1>3, <4>1 DEF Coming, Told
    <3>3. CASE \E q \in Requests \ {r} : At(q, "emit", "send") /\ req[q].id = i
      BY <1>1, <3>3 DEF Coming, At
    <3> QED BY <3>1, <3>2, <3>3 DEF Coming
  <2>2. \A i \in Ids : (Present(i)' => Present(i)) /\ (Coming(u, i) => Coming(u, i)')
    BY <1>2, <2>1 DEF Present, Stored
  <2>3. \A q \in InFlight(u, "list")' : q \in InFlight(u, "list") /\ req'[q] = req[q]
    BY <1>1, <1>8, TabsAssumption DEF InFlight
  <2>4. chat'[u] = chat[u]
    BY <1>2
  <2> QED BY <2>2, <2>3, <2>4, LostStays
<1>13. BadgeFollows'
  <2> SUFFICES ASSUME NEW u \in Watchers, InOneRoom PROVE BadgeFollowsOf(u)'
    BY <1>11 DEF BadgeFollows
  <2>1. u \in Users
    BY TabsAssumption
  <2>2. Stale(u) => Stale(u)'
    <3> SUFFICES ASSUME Stale(u) PROVE Stale(u)'
      OBVIOUS
    <3>1. CASE Notified(u)
      BY <1>3, <3>1 DEF Stale, Notified
    <3>2. CASE "mark" \in overlaps[u] /\ \E q \in InFlight(u, "mark") : req[q].then # "nothing"
      BY <1>1, <1>2, <1>8, <2>1, <3>2 DEF Stale, InFlight
    <3>3. CASE \E q \in Requests \ {r} :
                 Busy(q) /\ req[q].op = "send" /\ req[q].stage \in {"emit", "notify"}
      BY <1>1, <3>3 DEF Stale, Busy
    <3>4. CASE e.kind = "refresh"
      BY <1>3, <3>4 DEF Stale, Notified
    <3>5. CASE new # Idle /\ new.op = "send" /\ new.stage \in {"emit", "notify"}
      BY <1>1, <3>5 DEF Stale, Busy
    <3> QED BY <3>1, <3>2, <3>3, <3>4, <3>5 DEF Stale
  <2>3. Unread(u)' \subseteq Unread(u)
    BY <1>2, UnreadStays
  <2>4. \A q \in Requests : q \in InFlight(u, "summary") <=> q \in InFlight(u, "summary")'
    BY <1>8, <2>1
  <2>5. \A q \in InFlight(u, "summary") : req'[q] = req[q]
    BY <1>1 DEF InFlight
  <2> QED BY <1>2, <1>5, <2>2, <2>3, <2>4, <2>5, BadgeStays
<1> QED BY <1>4, <1>6, <1>7, <1>9, <1>10, <1>12, <1>13 DEF DmInv

LEMMA EmitMessageKeeps ==
  ASSUME DmInv, NEW r \in Requests, EmitMessage(r)
  PROVE  DmInv'
<1>1. /\ Busy(r) /\ req[r] \in Request /\ req[r].stage = "emit" /\ req[r].op = "send"
      /\ UNCHANGED <<relation, tables, chat, badge, overlaps>>
  BY AtIsBusy DEF EmitMessage, At, DmInv, Stages
<1>2. req[r].id \in Ids /\ Stored(req[r].id) /\ req[r].id \in 0..MaxMessages
  BY <1>1 DEF DmInv, AllSound, Sound, Request
<1>3. PICK e \in Event : e = [kind |-> "message", id |-> req[r].id]
  BY <1>2 DEF Event
<1>4. PICK new \in Request : new = [req[r] EXCEPT !.stage = "notify"]
  BY <1>1 DEF Request, Stages
<1>5. new.stage = "notify" /\ new.op = "send" /\ new # Idle
  BY <1>1, <1>4, RequestIsBusy DEF Request
<1>6. req' = [req EXCEPT ![r] = new] /\ Publish(e)
  BY <1>3, <1>4 DEF EmitMessage, Proceed
<1>7. req'[r] = new
  BY <1>6 DEF DmInv, TypeOK
<1>8. Sound(r)'
  BY <1>5, <1>7 DEF Sound
<1>9. e.kind = "message" /\ e.id = req[r].id
  BY <1>3
<1> QED BY <1>1, <1>2, <1>5, <1>6, <1>8, <1>9, PublishKeeps

LEMMA notifyUnreadRefreshKeeps ==
  ASSUME DmInv, NEW r \in Requests, notifyUnreadRefresh(r)
  PROVE  DmInv'
<1>1. /\ Busy(r) /\ req[r] \in Request /\ req[r].stage = "notify" /\ req[r].op = "send"
      /\ UNCHANGED <<relation, tables, chat, badge, overlaps>>
  BY AtIsBusy DEF notifyUnreadRefresh, At, DmInv, Stages
<1>2. PICK e \in Event : e = [kind |-> "refresh", id |-> 0]
  <2>1. 0 \in 0..MaxMessages
    BY BoundsAssumption
  <2> QED BY <2>1 DEF Event
<1>3. req' = [req EXCEPT ![r] = Idle] /\ Publish(e)
  BY <1>2 DEF notifyUnreadRefresh, Finish
<1>4. Sound(r)'
  BY <1>3 DEF Sound, Busy, DmInv, TypeOK
<1>5. e.kind = "refresh" /\ ~At(r, "emit", "send")
  BY <1>1, <1>2 DEF At
<1> QED BY <1>1, <1>3, <1>4, <1>5, PublishKeeps

LEMMA emitMessageDeletedInDmKeeps ==
  ASSUME DmInv, NEW r \in Requests, emitMessageDeletedInDm(r)
  PROVE  DmInv'
<1>1. /\ Busy(r) /\ req[r] \in Request /\ req[r].stage = "emit" /\ req[r].op = "delete"
      /\ UNCHANGED <<relation, tables, chat, badge, overlaps>>
  BY AtIsBusy DEF emitMessageDeletedInDm, At, DmInv, Stages
<1>2. /\ req[r].id \in Ids /\ Stored(req[r].id) /\ req[r].id \in 0..MaxMessages
      /\ msg[req[r].id].deleted
  BY <1>1 DEF DmInv, AllSound, Sound, Request
<1>3. PICK e \in Event : e = [kind |-> "deleted", id |-> req[r].id]
  BY <1>2 DEF Event
<1>4. req' = [req EXCEPT ![r] = Idle] /\ Publish(e)
  BY <1>3 DEF emitMessageDeletedInDm, Finish
<1>5. Sound(r)'
  BY <1>4 DEF Sound, Busy, DmInv, TypeOK
<1>6. e.kind = "deleted" /\ e.id = req[r].id /\ ~At(r, "emit", "send")
  BY <1>1, <1>3 DEF At
<1> QED BY <1>1, <1>2, <1>4, <1>5, <1>6, PublishKeeps

----------------------------------------------------------------------------
(* The steps of a tab *)

LEMMA ChatIsOpen ==
  ASSUME NEW c \in Chat
  PROVE  c # Closed /\ c.shown \subseteq Ids
BY DEF Chat, Closed

\* A request to mark a conversation whose answer is going to be used otherwise.
OnlyThen(q) ==
  /\ Busy(q) /\ req[q].op = "mark" /\ req'[q].op = "mark"
  /\ req'[q].user = req[q].user /\ req'[q].stage = req[q].stage
  /\ req'[q].room = req[q].room /\ req'[q].id = req[q].id

\* A step of u's tab: requests of u other than sends and deletions begin or end, u's events
\* are taken, u's conversation and badge change, and nothing of another user does.
LEMMA TabMoves ==
  ASSUME DmInv, NEW u \in Users, TypeOK', UNCHANGED <<relation, tables>>,
         \A v \in Users \ {u} : /\ events'[v] = events[v] /\ chat'[v] = chat[v]
                                /\ badge'[v] = badge[v] /\ overlaps'[v] = overlaps[v],
         overlaps[u] \subseteq overlaps'[u],
         \A q \in Requests : req'[q] # req[q] =>
           /\ Busy(q) => req[q].user = u /\ req[q].op \in {"list", "mark", "summary"}
           /\ Busy(q)' => /\ req'[q].user = u /\ req'[q].op \in {"list", "mark", "summary"}
                          /\ req'[q].stage = "find" \/ OnlyThen(q),
         \A q \in InFlight(u, "list")' : chat'[u] # Closed,
         \A k \in 1..Len(events'[u]) : \E j \in 1..Len(events[u]) : events'[u][k] = events[u][j],
         \A op \in {"mark", "summary"} : op \notin overlaps'[u] =>
           \A p, q \in InFlight(u, op)' : p = q,
         LeftAloneOf(u)',
         u \in Watchers /\ InOneRoom => NothingLostTo(u)' /\ BadgeFollowsOf(u)'
  PROVE  DmInv'
<1>1. /\ relation' = relation /\ rooms' = rooms /\ msg' = msg /\ cursor' = cursor
      /\ seen' = seen
  BY DEF tables
<1>2. Forward /\ msg' \in [Ids -> Row \union {NoRow}]
  BY <1>1, ForwardOnTables DEF DmInv, TypeOK
<1>3. StoredInOrder' /\ CursorsCover'
  BY <1>1, <1>2, StoredStays, CursorsStay
<1>4. AllSound'
  <2> SUFFICES ASSUME NEW q \in Requests PROVE Sound(q)'
    BY DEF AllSound
  <2>1. CASE req'[q] # req[q]
    <3> SUFFICES ASSUME Busy(q)' PROVE Sound(q)'
      BY DEF Sound
    <3>1. /\ req'[q].user = u /\ req'[q].op \in {"list", "mark", "summary"}
          /\ req'[q].stage = "find" \/ OnlyThen(q)
      BY <2>1
    <3>2. req'[q].op = "list" => chat'[req'[q].user] # Closed
      BY <3>1 DEF InFlight
    <3>3. CASE req'[q].stage = "find"
      BY <3>1, <3>2, <3>3 DEF Sound, Open
    <3>4. CASE OnlyThen(q)
      <4>1. PICK new : /\ new = req'[q] /\ new.op = "mark" /\ new.user = u
                       /\ new.stage = req[q].stage /\ new.room = req[q].room
                       /\ new.id = req[q].id
        BY <3>1, <3>4 DEF OnlyThen
      <4>2. Sound(q) /\ Busy(q) /\ req[q].op = "mark" /\ req[q].user = u
        BY <3>1, <3>4 DEF OnlyThen, DmInv, AllSound
      <4>3. new.stage \in {"create", "page", "latest", "upsert", "count"} => new.room \in rooms
        BY <4>1, <4>2 DEF Sound
      <4>4. new.stage = "upsert" =>
              (new.id = 0 \/ OnMessage(new.id, new.room)') /\ Covers(u, new.id, new.room)'
        BY <1>1, <1>2, <4>1, <4>2, OnMessageStays, CoversStays DEF Sound
      <4> QED BY <1>1, <4>1, <4>3, <4>4 DEF Sound, OnMessage, Covers, Present, Stored
    <3> QED BY <3>1, <3>3, <3>4
  <2>2. CASE req'[q] = req[q]
    <3>1. ASSUME Busy(q), req[q].op = "list" PROVE chat'[req[q].user] # Closed
      <4>1. CASE req[q].user = u
        <5>1. q \in InFlight(u, "list")'
          BY <2>2, <3>1, <4>1 DEF InFlight, Busy
        <5> QED BY <4>1, <5>1
      <4>2. CASE req[q].user # u
        <5>1. req[q].user \in Users
          BY <3>1, BusyRequest DEF DmInv, Request
        <5>2. Open(req[q].user)
          BY <3>1 DEF DmInv, AllSound, Sound
        <5> QED BY <4>2, <5>1, <5>2 DEF Open
      <4> QED BY <4>1, <4>2
    <3> QED BY <1>1, <1>2, <2>2, <3>1, SoundStays
  <2> QED BY <2>1, <2>2
<1>5. ASSUME NEW v \in Users \ {u}, NEW op
      PROVE  /\ \A q \in Requests : q \in InFlight(v, op) <=> q \in InFlight(v, op)'
             /\ \A q \in InFlight(v, op) : req'[q] = req[q]
  BY DEF InFlight, Busy
<1>6. OneAtATime'
  <2> SUFFICES ASSUME NEW v \in Users, NEW op \in {"mark", "summary"}, op \notin overlaps'[v],
                      NEW p \in InFlight(v, op)', NEW q \in InFlight(v, op)'
               PROVE  p = q
    BY DEF OneAtATime
  <2>1. CASE v = u
    BY <2>1
  <2>2. CASE v # u
    <3>1. p \in InFlight(v, op) /\ q \in InFlight(v, op) /\ op \notin overlaps[v]
      BY <1>5, <2>2 DEF InFlight
    <3> QED BY <3>1 DEF DmInv, OneAtATime
  <2> QED BY <2>1, <2>2
<1>12. LeftAlone'
  <2> SUFFICES ASSUME NEW v \in Users \ {u} PROVE LeftAloneOf(v)'
    BY DEF LeftAlone
  <2>1. \A q : q \in Marking(v, "nothing")' => q \in Marking(v, "nothing")
    BY <1>5 DEF Marking, InFlight
  <2> QED BY <2>1, LeftAloneStays
<1>7. EventsSound'
  <2>1. \A v \in Users : \A k \in 1..Len(events'[v]) :
          \E j \in 1..Len(events[v]) : events'[v][k] = events[v][j]
    OBVIOUS
  <2> QED BY <1>2, <2>1, EventsStay
<1>8. InOneRoom' <=> InOneRoom
  BY <1>1 DEF InOneRoom
<1>9. \A q \in Requests : (Busy(q) /\ req[q].op = "send") => req'[q] = req[q]
  OBVIOUS
<1>10. NothingLost'
  <2> SUFFICES ASSUME NEW v \in Watchers, InOneRoom, v # u PROVE NothingLostTo(v)'
    BY <1>8 DEF NothingLost
  <2>1. v \in Users \ {u}
    BY TabsAssumption
  <2>2. \A q \in Requests : At(q, "emit", "send") => req'[q] = req[q]
    BY <1>9, AtIsBusy DEF DmInv, At, Stages
  <2>3. \A i \in Ids : (Present(i)' => Present(i)) /\ (Coming(v, i) => Coming(v, i)')
    BY <1>1, <2>1, <2>2 DEF Coming, Told, At, Present, Stored
  <2>4. \A q \in InFlight(v, "list")' : q \in InFlight(v, "list") /\ req'[q] = req[q]
    BY <1>5, <2>1 DEF InFlight
  <2> QED BY <2>1, <2>3, <2>4, LostStays
<1>11. BadgeFollows'
  <2> SUFFICES ASSUME NEW v \in Watchers, InOneRoom, v # u PROVE BadgeFollowsOf(v)'
    BY <1>8 DEF BadgeFollows
  <2>1. v \in Users \ {u}
    BY TabsAssumption
  <2>2. Stale(v) => Stale(v)'
    <3>1. (\E q \in InFlight(v, "mark") : req[q].then # "nothing")
            => (\E q \in InFlight(v, "mark") : req[q].then # "nothing")'
      BY <1>5, <2>1 DEF InFlight
    <3> QED BY <1>9, <2>1, <3>1 DEF Stale, Notified, Busy
  <2>3. Unread(v)' \subseteq Unread(v)
    BY <1>1, UnreadStays
  <2> QED BY <1>2, <1>5, <2>1, <2>2, <2>3, BadgeStays
<1> QED BY <1>3, <1>4, <1>6, <1>7, <1>10, <1>11, <1>12 DEF DmInv

LEMMA CloseChatKeeps ==
  ASSUME DmInv, NEW u \in Watchers, CloseChat(u)
  PROVE  DmInv'
<1> DEFINE Leaves == Marking(u, "ifMounted")
<1>1. /\ u \in Users /\ chat' = [chat EXCEPT ![u] = Closed]
      /\ UNCHANGED <<relation, tables, events, badge>>
  BY TabsAssumption DEF CloseChat
<1>2. /\ \A q \in InFlight(u, "list") : req'[q] = Idle
      /\ \A q \in Leaves : req'[q] = [req[q] EXCEPT !.then = "nothing"]
      /\ \A q \in Requests : q \notin InFlight(u, "list") /\ q \notin Leaves => req'[q] = req[q]
      /\ DOMAIN req' = Requests /\ req' = [q \in Requests |-> req'[q]]
  BY DEF CloseChat, InFlight, Marking
<1>3. ASSUME NEW q \in Leaves
      PROVE  /\ req'[q] \in Request /\ Busy(q)' /\ req'[q].then = "nothing" /\ OnlyThen(q)
             /\ req[q].user = u /\ req[q].then = "ifMounted" /\ q \in InFlight(u, "mark")
  <2>1. /\ q \in Requests /\ Busy(q) /\ req[q].op = "mark" /\ req[q].user = u
        /\ req[q].then = "ifMounted" /\ q \in InFlight(u, "mark")
    BY <1>3 DEF Marking, InFlight
  <2>2. req[q] \in Request
    BY <2>1, BusyRequest DEF DmInv
  <2>3. PICK new \in Request : new = [req[q] EXCEPT !.then = "nothing"]
    BY <2>2 DEF Request
  <2>4. /\ new.then = "nothing" /\ new.op = req[q].op /\ new.user = req[q].user
        /\ new.stage = req[q].stage /\ new.room = req[q].room /\ new.id = req[q].id
    BY <2>2, <2>3 DEF Request
  <2>5. req'[q] = new /\ new # Idle
    BY <1>2, <2>3, RequestIsBusy
  <2> QED BY <2>1, <2>4, <2>5 DEF OnlyThen, Busy
<1>4. TypeOK'
  <2>1. \A q \in Requests : req'[q] \in Request \union {Idle}
    BY <1>2, <1>3 DEF DmInv, TypeOK
  <2>2. req' \in [Requests -> Request \union {Idle}]
    BY <1>2, <2>1
  <2>3. chat' \in [Users -> Chat \union {Closed}]
    BY <1>1 DEF DmInv, TypeOK
  <2>4. overlaps' \in [Users -> SUBSET {"mark", "summary", "left"}]
    BY DEF CloseChat, DmInv, TypeOK
  <2> QED BY <1>1, <2>2, <2>3, <2>4 DEF DmInv, TypeOK, tables
<1>5. /\ \A v \in Users \ {u} : /\ events'[v] = events[v] /\ chat'[v] = chat[v]
                                 /\ badge'[v] = badge[v] /\ overlaps'[v] = overlaps[v]
      /\ overlaps[u] \subseteq overlaps'[u] /\ overlaps'[u] \subseteq overlaps[u] \union {"left"}
      /\ "mark" \in overlaps[u] /\ Leaves # {} => "left" \in overlaps'[u]
  BY <1>1 DEF CloseChat, DmInv, TypeOK
<1>6. \A q \in Requests : req'[q] # req[q] =>
        /\ Busy(q) => req[q].user = u /\ req[q].op \in {"list", "mark", "summary"}
        /\ Busy(q)' => /\ req'[q].user = u /\ req'[q].op \in {"list", "mark", "summary"}
                       /\ req'[q].stage = "find" \/ OnlyThen(q)
  BY <1>2, <1>3 DEF InFlight, Busy, OnlyThen
<1>7. \A q : q \notin InFlight(u, "list")'
  BY <1>2, <1>3 DEF InFlight, Busy, OnlyThen
<1>8. \A op \in {"mark", "summary"} : InFlight(u, op)' = InFlight(u, op)
  <2> SUFFICES ASSUME NEW op \in {"mark", "summary"}, NEW q \in Requests
               PROVE  q \in InFlight(u, op)' <=> q \in InFlight(u, op)
    BY DEF InFlight
  <2>1. CASE q \in Leaves
    BY <1>3, <2>1 DEF InFlight, OnlyThen
  <2>2. CASE q \in InFlight(u, "list")
    BY <1>2, <2>2 DEF InFlight, Busy
  <2>3. CASE q \notin Leaves /\ q \notin InFlight(u, "list")
    BY <1>2, <2>3 DEF InFlight, Busy
  <2> QED BY <2>1, <2>2, <2>3
<1>9. \A op \in {"mark", "summary"} : op \notin overlaps'[u] =>
        \A p, q \in InFlight(u, op)' : p = q
  BY <1>1, <1>5, <1>8 DEF DmInv, OneAtATime
<1>10. NothingLostTo(u)'
  BY <1>1, <1>7 DEF NothingLostTo, Open, DmInv, TypeOK
<1>11. LeftAloneOf(u)'
  <2> SUFFICES ASSUME "left" \notin overlaps'[u], NEW q \in Marking(u, "nothing")'
               PROVE  "mark" \notin overlaps'[u]
    BY DEF LeftAloneOf
  <2>1. CASE q \in Leaves
    BY <1>5, <2>1
  <2>2. CASE q \notin Leaves
    <3>1. q \in InFlight(u, "mark") /\ q \in Requests /\ q \notin InFlight(u, "list")
      BY <1>8 DEF Marking, InFlight
    <3>2. q \in Marking(u, "nothing")
      BY <1>2, <2>2, <3>1 DEF Marking
    <3>3. "mark" \notin overlaps[u]
      BY <1>1, <1>5, <3>2 DEF DmInv, LeftAlone, LeftAloneOf
    <3> QED BY <1>5, <3>3
  <2> QED BY <2>1, <2>2
<1>12. InOneRoom => BadgeFollowsOf(u)'
  <2>1. overlaps'[u] \subseteq {"mark"} /\ Stale(u) => Stale(u)'
    <3> SUFFICES ASSUME "left" \notin overlaps'[u], Stale(u) PROVE Stale(u)'
      OBVIOUS
    <3>1. CASE \E q \in Requests :
                 Busy(q) /\ req[q].op = "send" /\ req[q].stage \in {"emit", "notify"}
      BY <1>2, <1>3, <3>1 DEF Stale, InFlight, Busy, OnlyThen
    <3>2. CASE "mark" \in overlaps[u] /\ \E q \in InFlight(u, "mark") : req[q].then # "nothing"
      <4>1. PICK q \in InFlight(u, "mark") : req[q].then # "nothing"
        BY <3>2
      <4>2. q \in Requests /\ q \notin Leaves /\ q \notin InFlight(u, "list")
        BY <1>5, <3>2, <4>1 DEF InFlight
      <4>3. q \in InFlight(u, "mark")' /\ req'[q].then # "nothing"
        BY <1>2, <1>8, <4>1, <4>2
      <4> QED BY <1>5, <3>2, <4>3 DEF Stale
    <3>3. CASE Notified(u)
      BY <1>1, <3>3 DEF Stale, Notified
    <3> QED BY <3>1, <3>2, <3>3 DEF Stale
  <2>2. Unread(u)' \subseteq Unread(u) /\ Forward
    BY <1>1, <1>4, <1>5, UnreadStays, ForwardOnTables DEF tables, DmInv
  <2>3. \A q \in Requests : q \in InFlight(u, "summary") <=> q \in InFlight(u, "summary")'
    BY <1>8
  <2>4. \A q \in InFlight(u, "summary") : req'[q] = req[q]
    BY <1>2, <1>3 DEF InFlight
  <2> QED BY <1>1, <2>1, <2>2, <2>3, <2>4, BadgeStays
<1>13. \A k \in 1..Len(events'[u]) : \E j \in 1..Len(events[u]) : events'[u][k] = events[u][j]
  BY <1>1
<1>14. \A q \in InFlight(u, "list")' : chat'[u] # Closed
  BY <1>7
<1> QED BY <1>1, <1>4, <1>5, <1>6, <1>9, <1>10, <1>11, <1>12, <1>13, <1>14, TabMoves

LEMMA ShowPageKeeps ==
  ASSUME DmInv, NEW r \in Requests, ShowPage(r)
  PROVE  DmInv'
<1>1. /\ Busy(r) /\ req[r] \in Request /\ req[r].stage = "respond" /\ req[r].op = "list"
      /\ UNCHANGED <<relation, tables, events, badge, overlaps>>
  BY AtIsBusy DEF ShowPage, At, DmInv, Stages
<1>2. PICK u \in Users, page \in SUBSET Ids : u = req[r].user /\ page = req[r].page
  BY <1>1 DEF Request
<1>3. Open(u) /\ chat[u] \in Chat
  BY <1>1, <1>2 DEF DmInv, AllSound, Sound, TypeOK, Open
<1>4. PICK shown \in SUBSET Ids : shown = chat[u].shown \union page
  BY <1>3, ChatIsOpen
<1>5. PICK c \in Chat : c = [loaded |-> TRUE, shown |-> shown]
  BY DEF Chat
<1>6. c.shown = shown /\ c # Closed
  BY <1>5, ChatIsOpen
<1>7. chat' = [chat EXCEPT ![u] = c] /\ req' = [req EXCEPT ![r] = Idle]
  BY <1>2, <1>4, <1>5 DEF ShowPage, Merge, Finish
<1>8. /\ chat' \in [Users -> Chat \union {Closed}] /\ chat'[u] = c
      /\ \A v \in Users \ {u} : chat'[v] = chat[v]
  BY <1>7 DEF DmInv, TypeOK
<1>9. /\ req' \in [Requests -> Request \union {Idle}] /\ req'[r] = Idle
      /\ \A q \in Requests \ {r} : req'[q] = req[q]
  BY <1>7, Moved DEF DmInv
<1>10. TypeOK'
  BY <1>1, <1>8, <1>9 DEF DmInv, TypeOK, tables
<1>11. \A v \in Users \ {u} : /\ events'[v] = events[v] /\ chat'[v] = chat[v]
                              /\ badge'[v] = badge[v] /\ overlaps'[v] = overlaps[v]
  BY <1>1, <1>8
<1>12. \A q \in Requests : req'[q] # req[q] =>
         /\ Busy(q) => req[q].user = u /\ req[q].op \in {"list", "mark", "summary"}
         /\ Busy(q)' => /\ req'[q].user = u /\ req'[q].op \in {"list", "mark", "summary"}
                        /\ req'[q].stage = "find"
  BY <1>1, <1>2, <1>9 DEF Busy
<1>13. \A q \in InFlight(u, "list")' : chat'[u] # Closed
  BY <1>6, <1>8
<1>14. \A op \in {"mark", "summary"} : InFlight(u, op)' = InFlight(u, op)
  BY <1>1, <1>9 DEF InFlight, Busy
<1>15. \A op \in {"mark", "summary"} : op \notin overlaps'[u] =>
         \A p, q \in InFlight(u, op)' : p = q
  BY <1>1, <1>14 DEF DmInv, OneAtATime
<1>16. \A k \in 1..Len(events'[u]) : \E j \in 1..Len(events[u]) : events'[u][k] = events[u][j]
  BY <1>1
<1>17. overlaps[u] \subseteq overlaps'[u] /\ UNCHANGED <<relation, tables>>
  BY <1>1
<1>18. u \in Watchers /\ InOneRoom => NothingLostTo(u)'
  <2> SUFFICES ASSUME u \in Watchers, InOneRoom PROVE NothingLostTo(u)'
    OBVIOUS
  <2>1. \A i \in Ids : (Present(i)' => Present(i)) /\ (Coming(u, i) => Coming(u, i)')
    BY <1>1, <1>9 DEF Coming, Told, At, Present, Stored, tables
  <2>2. r \in InFlight(u, "list")
    BY <1>1, <1>2 DEF InFlight
  <2>3. Complete(u, shown)
    BY <1>1, <1>2, <1>4, <2>2 DEF DmInv, NothingLost, NothingLostTo
  <2>4. \A more : (\A i : i \in shown => i \in more) => Complete(u, more)'
    BY <2>1, <2>3 DEF Complete
  <2>5. Complete(u, chat[u].shown)'
    <3>1. chat'[u].shown = shown
      BY <1>6, <1>8
    <3> QED BY <2>4, <3>1 DEF Complete
  <2>6. ASSUME NEW q \in InFlight(u, "list")' PROVE Complete(u, chat[u].shown \union req[q].page)'
    <3>1. PICK more : more = chat'[u].shown \union req'[q].page
      OBVIOUS
    <3>2. \A i : i \in shown => i \in more
      BY <1>6, <1>8, <3>1
    <3> QED BY <2>4, <3>1, <3>2 DEF Complete
  <2> QED BY <2>5, <2>6 DEF NothingLostTo
<1>19. u \in Watchers /\ InOneRoom => BadgeFollowsOf(u)'
  <2>1. Stale(u) => Stale(u)'
    <3>1. (\E q \in InFlight(u, "mark") : req[q].then # "nothing")
            => (\E q \in InFlight(u, "mark") : req[q].then # "nothing")'
      BY <1>1, <1>9, <1>14 DEF InFlight
    <3> QED BY <1>1, <1>9, <3>1 DEF Stale, Notified, Busy
  <2>2. Unread(u)' \subseteq Unread(u) /\ Forward
    BY <1>1, <1>10, UnreadStays, ForwardOnTables DEF tables, DmInv
  <2>3. \A q \in Requests : q \in InFlight(u, "summary") <=> q \in InFlight(u, "summary")'
    BY <1>14
  <2>4. \A q \in InFlight(u, "summary") : req'[q] = req[q]
    BY <1>1, <1>9 DEF InFlight
  <2> QED BY <1>1, <2>1, <2>2, <2>3, <2>4, BadgeStays
<1>20. LeftAloneOf(u)'
  <2>1. \A q : q \in Marking(u, "nothing")' => q \in Marking(u, "nothing")
    BY <1>1, <1>9, <1>14 DEF Marking, InFlight
  <2> QED BY <1>1, <2>1, LeftAloneStays
<1> QED BY <1>10, <1>11, <1>12, <1>13, <1>15, <1>16, <1>17, <1>18, <1>19, <1>20, TabMoves

LEMMA ShowBadgeKeeps ==
  ASSUME DmInv, NEW r \in Requests, ShowBadge(r)
  PROVE  DmInv'
<1>1. /\ Busy(r) /\ req[r] \in Request /\ req[r].stage = "respond" /\ req[r].op = "summary"
      /\ UNCHANGED <<relation, tables, events, chat, overlaps>>
  BY AtIsBusy DEF ShowBadge, At, DmInv, Stages
<1>2. PICK u \in Users, n \in 0..MaxMessages : u = req[r].user /\ n = req[r].id
  BY <1>1 DEF Request
<1>3. badge' = [badge EXCEPT ![u] = n] /\ req' = [req EXCEPT ![r] = Idle]
  BY <1>2 DEF ShowBadge, Finish
<1>4. /\ badge' \in [Users -> 0..MaxMessages] /\ badge'[u] = n
      /\ \A v \in Users \ {u} : badge'[v] = badge[v]
  BY <1>3 DEF DmInv, TypeOK
<1>5. /\ req' \in [Requests -> Request \union {Idle}] /\ req'[r] = Idle
      /\ \A q \in Requests \ {r} : req'[q] = req[q]
  BY <1>3, Moved DEF DmInv
<1>6. TypeOK'
  BY <1>1, <1>4, <1>5 DEF DmInv, TypeOK, tables
<1>7. \A v \in Users \ {u} : /\ events'[v] = events[v] /\ chat'[v] = chat[v]
                             /\ badge'[v] = badge[v] /\ overlaps'[v] = overlaps[v]
  BY <1>1, <1>4
<1>8. \A q \in Requests : req'[q] # req[q] =>
        /\ Busy(q) => req[q].user = u /\ req[q].op \in {"list", "mark", "summary"}
        /\ Busy(q)' => /\ req'[q].user = u /\ req'[q].op \in {"list", "mark", "summary"}
                       /\ req'[q].stage = "find"
  BY <1>1, <1>2, <1>5 DEF Busy
<1>9. /\ \A op \in {"mark", "list"} : InFlight(u, op)' = InFlight(u, op)
      /\ \A q \in InFlight(u, "summary")' : q \in InFlight(u, "summary") /\ q # r
  BY <1>1, <1>5 DEF InFlight, Busy
<1>10. \A op \in {"mark", "summary"} : op \notin overlaps'[u] =>
         \A p, q \in InFlight(u, op)' : p = q
  BY <1>1, <1>9 DEF DmInv, OneAtATime
<1>11. \A q \in InFlight(u, "list")' : chat'[u] # Closed
  BY <1>1, <1>9 DEF InFlight, DmInv, AllSound, Sound, Open
<1>12. \A k \in 1..Len(events'[u]) : \E j \in 1..Len(events[u]) : events'[u][k] = events[u][j]
  BY <1>1
<1>13. overlaps[u] \subseteq overlaps'[u] /\ UNCHANGED <<relation, tables>>
  BY <1>1
<1>14. u \in Watchers /\ InOneRoom => NothingLostTo(u)'
  <2>1. \A i \in Ids : (Present(i)' => Present(i)) /\ (Coming(u, i) => Coming(u, i)')
    BY <1>1, <1>5 DEF Coming, Told, At, Present, Stored, tables
  <2>2. \A q \in InFlight(u, "list")' : q \in InFlight(u, "list") /\ req'[q] = req[q]
    BY <1>1, <1>5, <1>9 DEF InFlight
  <2> QED BY <1>1, <2>1, <2>2, LostStays
<1>15. u \in Watchers /\ InOneRoom => BadgeFollowsOf(u)'
  <2> SUFFICES ASSUME u \in Watchers, InOneRoom, overlaps'[u] \subseteq {"mark"}, ~Stale(u)'
               PROVE  /\ InFlight(u, "summary")' = {}
                      /\ Unread(u)' # {} => badge'[u] > 0
    BY DEF BadgeFollowsOf
  <2>1. r \in InFlight(u, "summary")
    BY <1>1, <1>2 DEF InFlight
  <2>2. InFlight(u, "summary")' = {}
    BY <1>1, <1>9, <2>1 DEF DmInv, OneAtATime
  <2>3. ~Stale(u)
    <3>1. "mark" \in overlaps[u] =>
            \A q \in InFlight(u, "mark") : req[q].then = "nothing"
      BY <1>1, <1>5, <1>9 DEF Stale, InFlight
    <3> QED BY <1>1, <1>5, <3>1 DEF Stale, Notified, Busy
  <2>4. Accurate(u, r)
    BY <1>1, <2>1, <2>3 DEF DmInv, BadgeFollows, BadgeFollowsOf
  <2>5. Unread(u) # {} => n > 0
    BY <1>1, <1>2, <2>4 DEF Accurate
  <2>6. Unread(u)' = Unread(u)
    BY <1>1, UnreadStays DEF tables
  <2> QED BY <1>4, <2>2, <2>5, <2>6
<1>16. LeftAloneOf(u)'
  <2>1. \A q : q \in Marking(u, "nothing")' => q \in Marking(u, "nothing")
    BY <1>1, <1>5, <1>9 DEF Marking, InFlight
  <2> QED BY <1>1, <2>1, LeftAloneStays
<1> QED BY <1>6, <1>7, <1>8, <1>10, <1>11, <1>12, <1>13, <1>14, <1>15, <1>16, TabMoves

\* A request that begins beside another of its kind is recorded.
LEMMA Overlapped ==
  ASSUME DmInv, NEW u \in Users, NEW op \in {"mark", "summary"}, Overlap(u, op)
  PROVE  /\ overlaps' \in [Users -> SUBSET {"mark", "summary", "left"}]
         /\ \A v \in Users \ {u} : overlaps'[v] = overlaps[v]
         /\ overlaps[u] \subseteq overlaps'[u]
         /\ op = "mark" /\ Marking(u, "nothing") # {} => "left" \in overlaps'[u]
         /\ op = "summary" => overlaps'[u] \subseteq overlaps[u] \union {"summary"}
         /\ op \notin overlaps'[u] => InFlight(u, op) = {}
<1>1. overlaps \in [Users -> SUBSET {"mark", "summary", "left"}]
  BY DEF DmInv, TypeOK
<1>2. CASE InFlight(u, op) = {}
  BY <1>1, <1>2 DEF Overlap, Marking
<1>3. CASE InFlight(u, op) # {}
  <2>1. PICK left \in SUBSET {"left"} :
          left = IF op = "mark" /\ Marking(u, "nothing") # {} THEN {"left"} ELSE {}
    OBVIOUS
  <2>3. PICK kinds \in SUBSET {"mark", "summary", "left"} :
          kinds = overlaps[u] \union {op} \union left
    BY <1>1
  <2>2. overlaps' = [overlaps EXCEPT ![u] = kinds]
    BY <1>3, <2>1, <2>3 DEF Overlap
  <2> QED BY <1>1, <2>1, <2>2, <2>3
<1> QED BY <1>2, <1>3

\* Without an overlap, the request that begins is the only one of its kind.
LEMMA OneMore ==
  ASSUME DmInv, NEW u \in Users, NEW op \in {"mark", "summary"}, Overlap(u, op), NEW r,
         \A q : q \in InFlight(u, op)' => q = r \/ q \in InFlight(u, op),
         \A other \in {"mark", "summary"} \ {op} : \A q :
           q \in InFlight(u, other)' => q \in InFlight(u, other)
  PROVE  /\ op \notin overlaps'[u] => \A q \in InFlight(u, op)' : q = r
         /\ \A kind \in {"mark", "summary"} : kind \notin overlaps'[u] =>
              \A p, q \in InFlight(u, kind)' : p = q
<1>1. op \notin overlaps'[u] => \A q \in InFlight(u, op)' : q = r
  BY Overlapped
<1>2. ASSUME NEW kind \in {"mark", "summary"}, kind # op, kind \notin overlaps'[u],
             NEW p \in InFlight(u, kind)', NEW q \in InFlight(u, kind)'
      PROVE  p = q
  <2>1. kind \notin overlaps[u]
    BY <1>2, Overlapped
  <2>2. p \in InFlight(u, kind) /\ q \in InFlight(u, kind)
    BY <1>2
  <2> QED BY <2>1, <2>2 DEF DmInv, OneAtATime
<1> QED BY <1>1, <1>2

\* A mark that begins beside one left by its conversation is recorded as that.
LEMMA LeftAloneBegins ==
  ASSUME DmInv, NEW u \in Users, NEW op \in {"mark", "summary"}, Overlap(u, op),
         \A r : r \in Marking(u, "nothing")' => r \in Marking(u, "nothing")
  PROVE  LeftAloneOf(u)'
<1>1. CASE op = "summary"
  <2>1. /\ overlaps'[u] \subseteq overlaps[u] \union {"summary"}
        /\ overlaps[u] \subseteq overlaps'[u]
    BY <1>1, Overlapped
  <2> QED BY <2>1, LeftAloneStays
<1>2. CASE op = "mark"
  <2>1. Marking(u, "nothing") # {} => "left" \in overlaps'[u]
    BY <1>2, Overlapped
  <2> QED BY <2>1 DEF LeftAloneOf
<1> QED BY <1>1, <1>2

LEMMA MarkedFetches ==
  ASSUME DmInv, NEW r \in Requests, Marked(r), req[r].then # "nothing"
  PROVE  DmInv'
<1>1. /\ Busy(r) /\ req[r] \in Request /\ req[r].stage = "respond" /\ req[r].op = "mark"
      /\ UNCHANGED <<relation, tables, events, chat, badge>>
  BY AtIsBusy DEF Marked, At, DmInv, Stages
<1>2. PICK u \in Users : u = req[r].user
  BY <1>1 DEF Request
<1>3. PICK new \in Request : new = New("find", "summary", u)
  BY NewIs DEF Stages, Ops
<1>4. new.stage = "find" /\ new.op = "summary" /\ new.user = u /\ new # Idle
  BY <1>3, NewIs, RequestIsBusy DEF Stages, Ops
<1>5. req' = [req EXCEPT ![r] = new] /\ Overlap(u, "summary")
  BY <1>2, <1>3 DEF Marked
<1>6. /\ req' \in [Requests -> Request \union {Idle}] /\ req'[r] = new
      /\ \A q \in Requests \ {r} : req'[q] = req[q]
  BY <1>5, Moved DEF DmInv
<1>7. /\ overlaps' \in [Users -> SUBSET {"mark", "summary", "left"}]
      /\ \A v \in Users \ {u} : overlaps'[v] = overlaps[v]
      /\ overlaps[u] \subseteq overlaps'[u]
  BY <1>5, Overlapped
<1>8. TypeOK'
  BY <1>1, <1>6, <1>7 DEF DmInv, TypeOK, tables
<1>9. \A v \in Users \ {u} : /\ events'[v] = events[v] /\ chat'[v] = chat[v]
                             /\ badge'[v] = badge[v] /\ overlaps'[v] = overlaps[v]
  BY <1>1, <1>7
<1>10. \A q \in Requests : req'[q] # req[q] =>
         /\ Busy(q) => req[q].user = u /\ req[q].op \in {"list", "mark", "summary"}
         /\ Busy(q)' => /\ req'[q].user = u /\ req'[q].op \in {"list", "mark", "summary"}
                        /\ req'[q].stage = "find"
  BY <1>1, <1>2, <1>4, <1>6
<1>11. /\ InFlight(u, "list")' = InFlight(u, "list")
       /\ \A q : q \in InFlight(u, "mark")' => q \in InFlight(u, "mark")
       /\ \A q : q \in InFlight(u, "summary")' => q = r \/ q \in InFlight(u, "summary")
       /\ r \in InFlight(u, "summary")'
  BY <1>1, <1>4, <1>6 DEF InFlight, Busy
<1>12. /\ "summary" \notin overlaps'[u] => \A q \in InFlight(u, "summary")' : q = r
       /\ \A kind \in {"mark", "summary"} : kind \notin overlaps'[u] =>
            \A p, q \in InFlight(u, kind)' : p = q
  BY <1>5, <1>11, OneMore
<1>13. \A q \in InFlight(u, "list")' : chat'[u] # Closed
  BY <1>1, <1>11 DEF InFlight, DmInv, AllSound, Sound, Open
<1>14. \A k \in 1..Len(events'[u]) : \E j \in 1..Len(events[u]) : events'[u][k] = events[u][j]
  BY <1>1
<1>15. u \in Watchers /\ InOneRoom => NothingLostTo(u)'
  <2>1. \A i \in Ids : (Present(i)' => Present(i)) /\ (Coming(u, i) => Coming(u, i)')
    BY <1>1, <1>6 DEF Coming, Told, At, Present, Stored, tables
  <2>2. \A q \in InFlight(u, "list")' : q \in InFlight(u, "list") /\ req'[q] = req[q]
    BY <1>1, <1>6, <1>11 DEF InFlight
  <2> QED BY <1>1, <2>1, <2>2, LostStays
<1>16. BadgeFollowsOf(u)'
  <2>1. Accurate(u, r)'
    BY <1>4, <1>6 DEF Accurate
  <2> QED BY <1>11, <1>12, <2>1 DEF BadgeFollowsOf
<1>17. UNCHANGED <<relation, tables>>
  BY <1>1
<1>18. LeftAloneOf(u)'
  <2>1. \A q : q \in Marking(u, "nothing")' => q \in Marking(u, "nothing")
    BY <1>4, <1>6, <1>11 DEF Marking, InFlight
  <2> QED BY <1>5, <2>1, LeftAloneBegins
<1> QED BY <1>7, <1>8, <1>9, <1>10, <1>12, <1>13, <1>14, <1>15, <1>16, <1>17, <1>18, TabMoves

LEMMA MarkedLeaves ==
  ASSUME DmInv, NEW r \in Requests, Marked(r), req[r].then = "nothing"
  PROVE  DmInv'
<1>1. /\ Busy(r) /\ req[r] \in Request /\ req[r].stage = "respond" /\ req[r].op = "mark"
      /\ UNCHANGED <<relation, tables, events, chat, badge, overlaps>>
  BY AtIsBusy DEF Marked, At, DmInv, Stages
<1>2. PICK u \in Users : u = req[r].user
  BY <1>1 DEF Request
<1>3. req' = [req EXCEPT ![r] = Idle]
  BY DEF Marked, Finish
<1>4. /\ req' \in [Requests -> Request \union {Idle}] /\ req'[r] = Idle
      /\ \A q \in Requests \ {r} : req'[q] = req[q]
  BY <1>3, Moved DEF DmInv
<1>5. TypeOK'
  BY <1>1, <1>4 DEF DmInv, TypeOK, tables
<1>6. \A v \in Users : /\ events'[v] = events[v] /\ chat'[v] = chat[v]
                       /\ badge'[v] = badge[v] /\ overlaps'[v] = overlaps[v]
  BY <1>1
<1>7. \A q \in Requests : req'[q] # req[q] =>
        /\ Busy(q) => req[q].user = u /\ req[q].op \in {"list", "mark", "summary"}
        /\ Busy(q)' => /\ req'[q].user = u /\ req'[q].op \in {"list", "mark", "summary"}
                       /\ req'[q].stage = "find" \/ OnlyThen(q)
  BY <1>1, <1>2, <1>4 DEF Busy
<1>8. /\ \A op \in {"summary", "list"} : InFlight(u, op)' = InFlight(u, op)
      /\ \A q : q \in InFlight(u, "mark")' => q \in InFlight(u, "mark") /\ q # r
  BY <1>1, <1>4 DEF InFlight, Busy
<1>9. \A op \in {"mark", "summary"} : op \notin overlaps'[u] =>
        \A p, q \in InFlight(u, op)' : p = q
  BY <1>1, <1>8 DEF DmInv, OneAtATime
<1>10. \A q \in InFlight(u, "list")' : chat'[u] # Closed
  BY <1>1, <1>8 DEF InFlight, DmInv, AllSound, Sound, Open
<1>11. LeftAloneOf(u)'
  <2>1. \A q : q \in Marking(u, "nothing")' => q \in Marking(u, "nothing")
    BY <1>4, <1>8 DEF Marking, InFlight
  <2> QED BY <1>1, <2>1, LeftAloneStays
<1>12. u \in Watchers /\ InOneRoom => NothingLostTo(u)'
  <2>1. \A i \in Ids : (Present(i)' => Present(i)) /\ (Coming(u, i) => Coming(u, i)')
    BY <1>1, <1>4 DEF Coming, Told, At, Present, Stored, tables
  <2>2. \A q \in InFlight(u, "list")' : q \in InFlight(u, "list") /\ req'[q] = req[q]
    BY <1>1, <1>4, <1>8 DEF InFlight
  <2> QED BY <1>1, <2>1, <2>2, LostStays
<1>13. u \in Watchers /\ InOneRoom => BadgeFollowsOf(u)'
  <2>1. Stale(u) => Stale(u)'
    <3>1. (\E q \in InFlight(u, "mark") : req[q].then # "nothing")
            => (\E q \in InFlight(u, "mark") : req[q].then # "nothing")'
      BY <1>4 DEF InFlight, Busy
    <3> QED BY <1>1, <1>4, <3>1 DEF Stale, Notified, Busy
  <2>2. Unread(u)' \subseteq Unread(u) /\ Forward
    BY <1>1, <1>5, UnreadStays, ForwardOnTables DEF tables, DmInv
  <2>3. \A q \in Requests : q \in InFlight(u, "summary") <=> q \in InFlight(u, "summary")'
    BY <1>8
  <2>4. \A q \in InFlight(u, "summary") : req'[q] = req[q]
    BY <1>1, <1>4 DEF InFlight
  <2> QED BY <1>1, <2>1, <2>2, <2>3, <2>4, BadgeStays
<1>14. \A k \in 1..Len(events'[u]) : \E j \in 1..Len(events[u]) : events'[u][k] = events[u][j]
  BY <1>1
<1>15. overlaps[u] \subseteq overlaps'[u] /\ UNCHANGED <<relation, tables>>
  BY <1>1
<1> QED BY <1>5, <1>6, <1>7, <1>9, <1>10, <1>11, <1>12, <1>13, <1>14, <1>15, TabMoves

LEMMA MarkedKeeps ==
  ASSUME DmInv, NEW r \in Requests, Marked(r)
  PROVE  DmInv'
BY MarkedFetches, MarkedLeaves

LEMMA OpenChatKeeps ==
  ASSUME DmInv, NEW r \in Requests, NEW q \in Requests, NEW u \in Watchers, OpenChat(r, q, u)
  PROVE  DmInv'
<1>1. /\ u \in Users /\ ~Open(u) /\ r # q /\ ~Busy(r) /\ ~Busy(q) /\ Overlap(u, "mark")
      /\ UNCHANGED <<relation, tables, events, badge>>
  BY TabsAssumption DEF OpenChat
<1>2. PICK list \in Request : list = New("find", "list", u)
  BY <1>1, NewIs DEF Stages, Ops
<1>3. PICK mark \in Request : mark = [New("find", "mark", u) EXCEPT !.then = "ifMounted"]
  <2>1. New("find", "mark", u) \in Request
    BY <1>1, NewIs DEF Stages, Ops
  <2> QED BY <2>1 DEF Request
<1>4. list.stage = "find" /\ list.op = "list" /\ list.user = u /\ list # Idle
  BY <1>1, <1>2, NewIs, RequestIsBusy DEF Stages, Ops
<1>5. /\ mark.stage = "find" /\ mark.op = "mark" /\ mark.user = u /\ mark # Idle
      /\ mark.then = "ifMounted"
  <2>1. /\ New("find", "mark", u) \in Request /\ New("find", "mark", u).stage = "find"
        /\ New("find", "mark", u).op = "mark" /\ New("find", "mark", u).user = u
    BY <1>1, NewIs DEF Stages, Ops
  <2> QED BY <1>3, <2>1, RequestIsBusy DEF Request
<1>6. req' = [req EXCEPT ![r] = list, ![q] = mark]
  BY <1>2, <1>3 DEF OpenChat
<1>7. /\ req' \in [Requests -> Request \union {Idle}] /\ req'[r] = list /\ req'[q] = mark
      /\ \A p \in Requests \ {r, q} : req'[p] = req[p]
  BY <1>1, <1>6 DEF DmInv, TypeOK
<1>8. PICK c \in Chat : c = [loaded |-> FALSE, shown |-> {}]
  BY DEF Chat
<1>9. ~c.loaded /\ c # Closed
  BY <1>8, ChatIsOpen
<1>10. chat' = [chat EXCEPT ![u] = c]
  BY <1>8 DEF OpenChat
<1>11. /\ chat' \in [Users -> Chat \union {Closed}] /\ chat'[u] = c
       /\ \A v \in Users \ {u} : chat'[v] = chat[v]
  BY <1>1, <1>10 DEF DmInv, TypeOK
<1>12. /\ overlaps' \in [Users -> SUBSET {"mark", "summary", "left"}]
       /\ \A v \in Users \ {u} : overlaps'[v] = overlaps[v]
       /\ overlaps[u] \subseteq overlaps'[u]
  BY <1>1, Overlapped
<1>13. TypeOK'
  BY <1>1, <1>7, <1>11, <1>12 DEF DmInv, TypeOK, tables
<1>14. \A v \in Users \ {u} : /\ events'[v] = events[v] /\ chat'[v] = chat[v]
                              /\ badge'[v] = badge[v] /\ overlaps'[v] = overlaps[v]
  BY <1>1, <1>11, <1>12
<1>15. \A p \in Requests : req'[p] # req[p] =>
         /\ Busy(p) => req[p].user = u /\ req[p].op \in {"list", "mark", "summary"}
         /\ Busy(p)' => /\ req'[p].user = u /\ req'[p].op \in {"list", "mark", "summary"}
                        /\ req'[p].stage = "find"
  BY <1>1, <1>4, <1>5, <1>7
<1>16. \A p \in InFlight(u, "list")' : p = r
  <2>1. \A p \in InFlight(u, "list")' : p = r \/ p \in InFlight(u, "list")
    BY <1>5, <1>7 DEF InFlight, Busy
  <2>2. InFlight(u, "list") = {}
    BY <1>1 DEF InFlight, DmInv, AllSound, Sound
  <2> QED BY <2>1, <2>2
<1>17. /\ \A p : p \in InFlight(u, "mark")' => p = q \/ p \in InFlight(u, "mark")
       /\ \A p : p \in InFlight(u, "summary")' => p \in InFlight(u, "summary")
       /\ q \in InFlight(u, "mark")'
  BY <1>1, <1>4, <1>5, <1>7 DEF InFlight, Busy
<1>18. \A kind \in {"mark", "summary"} : kind \notin overlaps'[u] =>
         \A p, p2 \in InFlight(u, kind)' : p = p2
  BY <1>1, <1>17, OneMore
<1>19. \A p \in InFlight(u, "list")' : chat'[u] # Closed
  BY <1>9, <1>11
<1>20. \A k \in 1..Len(events'[u]) : \E j \in 1..Len(events[u]) : events'[u][k] = events[u][j]
  BY <1>1
<1>21. NothingLostTo(u)'
  BY <1>4, <1>7, <1>9, <1>11, <1>16 DEF NothingLostTo
<1>22. InOneRoom => BadgeFollowsOf(u)'
  <2>1. Stale(u) => Stale(u)'
    <3>1. (\E p \in InFlight(u, "mark") : req[p].then # "nothing")
            => (\E p \in InFlight(u, "mark") : req[p].then # "nothing")'
      BY <1>1, <1>7 DEF InFlight, Busy
    <3> QED BY <1>1, <1>7, <1>12, <3>1 DEF Stale, Notified, Busy
  <2>2. Unread(u)' \subseteq Unread(u) /\ Forward
    BY <1>1, <1>13, <1>14, <1>12, UnreadStays, ForwardOnTables DEF tables, DmInv
  <2>3. \A p \in Requests : p \in InFlight(u, "summary") <=> p \in InFlight(u, "summary")'
    BY <1>1, <1>4, <1>5, <1>7 DEF InFlight, Busy
  <2>4. \A p \in InFlight(u, "summary") : req'[p] = req[p]
    BY <1>1, <1>7 DEF InFlight
  <2> QED BY <1>1, <2>1, <2>2, <2>3, <2>4, BadgeStays
<1>23. UNCHANGED <<relation, tables>>
  BY <1>1
<1>24. LeftAloneOf(u)'
  <2>1. \A p : p \in Marking(u, "nothing")' => p \in Marking(u, "nothing")
    BY <1>4, <1>5, <1>7 DEF Marking, InFlight, Busy
  <2> QED BY <1>1, <2>1, LeftAloneBegins
<1> QED BY <1>1, <1>12, <1>13, <1>14, <1>15, <1>18, <1>19, <1>20, <1>21, <1>22, <1>23, <1>24,
           TabMoves

\* The first event is taken, the others stay on their way.
LEMMA Delivered ==
  ASSUME DmInv, NEW u \in Users, events[u] # <<>>, events' = [events EXCEPT ![u] = Tail(@)]
  PROVE  /\ events' \in [Users -> Seq(Event)]
         /\ \A v \in Users \ {u} : events'[v] = events[v]
         /\ \A k \in 1..Len(events'[u]) :
              \E j \in 1..Len(events[u]) : events'[u][k] = events[u][j]
         /\ \A k \in 1..Len(events[u]) :
              \/ events[u][k] = Head(events[u])
              \/ \E j \in 1..Len(events'[u]) : events'[u][j] = events[u][k]
         /\ Head(events[u]).kind # "refresh" =>
              /\ Head(events[u]).id \in Ids /\ Stored(Head(events[u]).id)
              /\ Head(events[u]).kind = "deleted" => msg[Head(events[u]).id].deleted
<1>1. events \in [Users -> Seq(Event)]
  BY DEF DmInv, TypeOK
<1>2. PICK s \in Seq(Event) : s = events[u]
  BY <1>1
<1>3. s # <<>> /\ Len(s) \in Nat /\ Len(s) # 0
  BY <1>2, LenProperties, EmptySeq
<1>4. /\ Tail(s) \in Seq(Event) /\ Len(Tail(s)) = Len(s) - 1
      /\ \A k \in 1..(Len(s) - 1) : Tail(s)[k] = s[k + 1]
  BY <1>3, HeadTailProperties
<1>5. PICK e : e = Head(events[u]) /\ e = s[1]
  BY <1>2, <1>3, HeadTailProperties
<1>6. events' \in [Users -> Seq(Event)] /\ events'[u] = Tail(s)
      /\ \A v \in Users \ {u} : events'[v] = events[v]
  BY <1>1, <1>2, <1>4
<1>7. ASSUME NEW k \in 1..Len(events'[u])
      PROVE  \E j \in 1..Len(events[u]) : events'[u][k] = events[u][j]
  <2>1. k \in 1..(Len(s) - 1) /\ k + 1 \in 1..Len(s)
    BY <1>3, <1>4, <1>6, <1>7
  <2>2. events'[u][k] = s[k + 1]
    BY <1>4, <1>6, <2>1
  <2> QED BY <1>2, <2>1, <2>2
<1>8. ASSUME NEW k \in 1..Len(events[u]), k # 1
      PROVE  \E j \in 1..Len(events'[u]) : events'[u][j] = events[u][k]
  <2>1. k - 1 \in 1..(Len(s) - 1) /\ (k - 1) + 1 = k
    BY <1>2, <1>3, <1>8
  <2>2. Tail(s)[k - 1] = s[k]
    BY <1>4, <2>1
  <2> QED BY <1>2, <1>4, <1>6, <2>1, <2>2
<1>9. 1 \in 1..Len(events[u]) /\ events[u][1] = e
  BY <1>2, <1>3, <1>5
<1>10. e.kind # "refresh" => /\ e.id \in Ids /\ Stored(e.id)
                             /\ e.kind = "deleted" => msg[e.id].deleted
  BY <1>9 DEF DmInv, EventsSound
<1>11. \A k \in 1..Len(events[u]) :
         events[u][k] = e \/ \E j \in 1..Len(events'[u]) : events'[u][j] = events[u][k]
  BY <1>8, <1>9
<1> QED BY <1>5, <1>6, <1>7, <1>10, <1>11

\* An event of u arrives: what the open conversation shows loses no message that is present
\* and gains one that the event brings; a request of kind op begins, or none.
LEMMA DeliverMoves ==
  ASSUME DmInv, NEW u \in Watchers, NEW r \in Requests, ~Busy(r),
         UNCHANGED <<relation, tables, badge>>,
         events' \in [Users -> Seq(Event)], \A v \in Users \ {u} : events'[v] = events[v],
         \A k \in 1..Len(events'[u]) :
           \E j \in 1..Len(events[u]) : events'[u][k] = events[u][j],
         \A k \in 1..Len(events[u]) :
           \/ events[u][k] = Head(events[u])
           \/ \E j \in 1..Len(events'[u]) : events'[u][j] = events[u][k],
         chat' \in [Users -> Chat \union {Closed}], \A v \in Users \ {u} : chat'[v] = chat[v],
         ~Open(u) => chat'[u] = Closed,
         Open(u) => /\ chat'[u] # Closed /\ (chat'[u].loaded => chat[u].loaded)
                    /\ \A i \in chat[u].shown : i \in chat'[u].shown \/ ~Present(i)
                    /\ Head(events[u]).kind = "message" => Head(events[u]).id \in chat'[u].shown,
         req' \in [Requests -> Request \union {Idle}],
         \A q \in Requests \ {r} : req'[q] = req[q],
         req'[r] = Idle => overlaps' = overlaps /\ Head(events[u]).kind # "refresh",
         NEW op \in {"mark", "summary"},
         req'[r] # Idle => /\ req'[r].op = op /\ req'[r].user = u /\ req'[r].stage = "find"
                           /\ req'[r].then = "refetch" /\ Overlap(u, op),
         op = "mark" => Head(events[u]).kind # "refresh"
  PROVE  DmInv'
<1>1. u \in Users
  BY TabsAssumption
<1> SUFFICES ASSUME NEW e, e = Head(events[u]), NEW c, c = chat'[u],
                    NEW new \in Request \union {Idle}, new = req'[r]
             PROVE  DmInv'
  OBVIOUS
<1>2. /\ \A k \in 1..Len(events[u]) :
           events[u][k] = e \/ \E j \in 1..Len(events'[u]) : events'[u][j] = events[u][k]
      /\ e.kind = "message" /\ Open(u) => e.id \in c.shown
      /\ new = Idle \/ op = "mark" => e.kind # "refresh"
  OBVIOUS
<1>3. /\ Open(u) => /\ c # Closed /\ (c.loaded => chat[u].loaded)
                    /\ \A i \in chat[u].shown : i \in c.shown \/ ~Present(i)
      /\ new = Idle => overlaps' = overlaps
      /\ new # Idle => /\ new.op = op /\ new.user = u /\ new.stage = "find"
                       /\ new.then = "refetch" /\ Overlap(u, op)
  OBVIOUS
<1>4. /\ overlaps' \in [Users -> SUBSET {"mark", "summary", "left"}]
      /\ \A v \in Users \ {u} : overlaps'[v] = overlaps[v]
      /\ overlaps[u] \subseteq overlaps'[u]
      /\ new # Idle /\ op \notin overlaps'[u] => InFlight(u, op) = {}
  BY <1>1, Overlapped DEF DmInv, TypeOK
<1>5. TypeOK'
  BY <1>1, <1>4 DEF DmInv, TypeOK, tables
<1>6. \A v \in Users \ {u} : /\ events'[v] = events[v] /\ chat'[v] = chat[v]
                             /\ badge'[v] = badge[v] /\ overlaps'[v] = overlaps[v]
  BY <1>1, <1>3, <1>4
<1>7. \A q \in Requests : req'[q] # req[q] =>
        /\ Busy(q) => req[q].user = u /\ req[q].op \in {"list", "mark", "summary"}
        /\ Busy(q)' => /\ req'[q].user = u /\ req'[q].op \in {"list", "mark", "summary"}
                       /\ req'[q].stage = "find"
  BY <1>2 DEF Busy
<1>8. /\ InFlight(u, "list")' = InFlight(u, "list")
      /\ \A q \in InFlight(u, "list") : q # r /\ req'[q] = req[q] /\ Open(u)
  BY <1>2 DEF InFlight, Busy, DmInv, AllSound, Sound
<1>9. \A kind \in {"mark", "summary"} : \A q :
        /\ q \in InFlight(u, kind) => q \in InFlight(u, kind)' /\ req'[q] = req[q]
        /\ q \in InFlight(u, kind)' => \/ q = r /\ new # Idle /\ kind = op
                                       \/ q \in InFlight(u, kind)
  BY <1>2 DEF InFlight, Busy
<1>10. /\ new # Idle /\ op \notin overlaps'[u] => \A q \in InFlight(u, op)' : q = r
       /\ \A kind \in {"mark", "summary"} : kind \notin overlaps'[u] =>
            \A p, q \in InFlight(u, kind)' : p = q
  <2>1. CASE new = Idle
    <3>1. overlaps' = overlaps
      BY <2>1
    <3>2. \A kind \in {"mark", "summary"} : \A q :
            q \in InFlight(u, kind)' => q \in InFlight(u, kind)
      BY <1>9, <2>1
    <3>3. \A kind \in {"mark", "summary"} : kind \notin overlaps[u] =>
            \A p, q \in InFlight(u, kind) : p = q
      BY <1>1, <1>2, <1>3 DEF DmInv, OneAtATime
    <3> QED BY <2>1, <3>1, <3>2, <3>3
  <2>2. CASE new # Idle
    <3>1. op \notin overlaps'[u] => \A q \in InFlight(u, op)' : q = r
      BY <1>4, <1>9, <2>2
    <3>2. ASSUME NEW kind \in {"mark", "summary"}, kind # op, kind \notin overlaps'[u],
                 NEW p \in InFlight(u, kind)', NEW q \in InFlight(u, kind)'
          PROVE  p = q
      <4>1. p \in InFlight(u, kind) /\ q \in InFlight(u, kind) /\ kind \notin overlaps[u]
        BY <1>4, <1>9, <3>2
      <4> QED BY <1>1, <4>1 DEF DmInv, OneAtATime
    <3> QED BY <3>1, <3>2
  <2> QED BY <2>1, <2>2
<1>11. \A q \in InFlight(u, "list")' : chat'[u] # Closed
  BY <1>3, <1>8
<1>12. InOneRoom => NothingLostTo(u)'
  <2> SUFFICES ASSUME InOneRoom, Open(u) PROVE NothingLostTo(u)'
    BY <1>3, <1>8 DEF NothingLostTo, Open
  <2>1. NothingLostTo(u)
    BY DEF DmInv, NothingLost
  <2>2. \A i \in Ids : Coming(u, i) => Coming(u, i)' \/ i \in c.shown
    <3> SUFFICES ASSUME NEW i \in Ids, Coming(u, i), i \notin c.shown PROVE Coming(u, i)'
      OBVIOUS
    <3>1. CASE Told(u, i)
      <4>1. PICK k \in 1..Len(events[u]) :
              events[u][k].kind = "message" /\ events[u][k].id = i
        BY <3>1 DEF Told
      <4>2. events[u][k] # e
        BY <4>1
      <4>3. PICK j \in 1..Len(events'[u]) : events'[u][j] = events[u][k]
        BY <1>1, <1>2, <1>3, <4>2
      <4>4. events'[u][j].kind = "message" /\ events'[u][j].id = i
        BY <4>1, <4>3
      <4> QED BY <4>4 DEF Coming, Told
    <3>2. CASE \E q \in Requests : At(q, "emit", "send") /\ req[q].id = i
      <4>1. PICK q \in Requests : At(q, "emit", "send") /\ req[q].id = i
        BY <3>2
      <4>2. q # r
        BY <4>1, AtIsBusy DEF DmInv, Stages
      <4> QED BY <1>2, <4>1, <4>2 DEF Coming, At
    <3> QED BY <3>1, <3>2 DEF Coming
  <2>3. \A i \in Ids : Present(i)' => Present(i)
    BY DEF Present, Stored, tables
  <2>4. ASSUME NEW S, NEW more, Complete(u, S),
               \A i \in S : i \in more \/ ~Present(i), \A i \in c.shown : i \in more
        PROVE  Complete(u, more)'
    BY <2>2, <2>3, <2>4 DEF Complete
  <2>5. Open(u)' /\ chat'[u].loaded => Complete(u, chat[u].shown)'
    <3> SUFFICES ASSUME chat'[u].loaded PROVE Complete(u, chat[u].shown)'
      OBVIOUS
    <3>1. Complete(u, chat[u].shown)
      BY <1>3, <2>1 DEF NothingLostTo
    <3>2. PICK more : more = chat'[u].shown
      OBVIOUS
    <3>3. Complete(u, more)'
      BY <1>3, <2>4, <3>1, <3>2
    <3> QED BY <3>2, <3>3 DEF Complete
  <2>6. ASSUME NEW q \in InFlight(u, "list")', req'[q].stage = "respond"
        PROVE  Complete(u, chat[u].shown \union req[q].page)'
    <3>1. Complete(u, chat[u].shown \union req[q].page)
      BY <1>8, <2>1, <2>6 DEF NothingLostTo
    <3>2. PICK more : more = chat'[u].shown \union req'[q].page
      OBVIOUS
    <3>3. \A i \in chat[u].shown \union req[q].page : i \in more \/ ~Present(i)
      BY <1>3, <1>8, <2>6, <3>2
    <3>4. Complete(u, more)'
      BY <1>3, <2>4, <3>1, <3>2, <3>3
    <3> QED BY <3>2, <3>4 DEF Complete
  <2> QED BY <2>5, <2>6 DEF NothingLostTo
<1>13. InOneRoom => BadgeFollowsOf(u)'
  <2>1. CASE new = Idle \/ op = "mark"
    <3>1. Notified(u) => Notified(u)'
      <4> SUFFICES ASSUME Notified(u) PROVE Notified(u)'
        OBVIOUS
      <4>1. PICK k \in 1..Len(events[u]) : events[u][k].kind = "refresh"
        BY DEF Notified
      <4>2. events[u][k] # e
        BY <1>2, <2>1, <4>1
      <4>3. PICK j \in 1..Len(events'[u]) : events'[u][j] = events[u][k]
        BY <1>1, <1>2, <4>2
      <4>4. events'[u][j].kind = "refresh"
        BY <4>1, <4>3
      <4> QED BY <4>4 DEF Notified
    <3>2. Stale(u) => Stale(u)'
      <4>1. (\E q \in InFlight(u, "mark") : req[q].then # "nothing")
              => (\E q \in InFlight(u, "mark") : req[q].then # "nothing")'
        BY <1>9
      <4> QED BY <1>4, <3>1, <4>1 DEF Stale, Busy
    <3>3. Unread(u)' \subseteq Unread(u) /\ Forward
      BY <1>1, <1>4, <1>5, UnreadStays, ForwardOnTables DEF tables, DmInv
    <3>4. \A q \in Requests : q \in InFlight(u, "summary") <=> q \in InFlight(u, "summary")'
      BY <1>9, <2>1
    <3>5. \A q \in InFlight(u, "summary") : req'[q] = req[q]
      BY <1>9
    <3> QED BY <3>2, <3>3, <3>4, <3>5, BadgeStays
  <2>2. CASE new # Idle /\ op = "summary"
    <3>1. r \in InFlight(u, "summary")' /\ Accurate(u, r)'
      BY <1>2, <2>2 DEF InFlight, Busy, Accurate
    <3> QED BY <1>10, <2>2, <3>1 DEF BadgeFollowsOf
  <2> QED BY <2>1, <2>2
<1>14. LeftAloneOf(u)'
  <2>1. \A q : q \in Marking(u, "nothing")' => q \in Marking(u, "nothing")
    BY <1>3, <1>9 DEF Marking
  <2> QED BY <1>1, <1>3, <1>4, <2>1, LeftAloneBegins, LeftAloneStays
<1> QED BY <1>1, <1>4, <1>5, <1>6, <1>7, <1>10, <1>11, <1>12, <1>13, <1>14, TabMoves

LEMMA DeliverKeeps ==
  ASSUME DmInv, NEW r \in Requests, NEW u \in Watchers, Deliver(r, u)
  PROVE  DmInv'
<1>1. /\ u \in Users /\ ~Busy(r) /\ events[u] # <<>> /\ events' = [events EXCEPT ![u] = Tail(@)]
      /\ UNCHANGED <<relation, tables, badge>>
  BY TabsAssumption DEF Deliver
<1>2. /\ events' \in [Users -> Seq(Event)]
      /\ \A v \in Users \ {u} : events'[v] = events[v]
      /\ \A k \in 1..Len(events'[u]) :
           \E j \in 1..Len(events[u]) : events'[u][k] = events[u][j]
      /\ \A k \in 1..Len(events[u]) :
           \/ events[u][k] = Head(events[u])
           \/ \E j \in 1..Len(events'[u]) : events'[u][j] = events[u][k]
      /\ Head(events[u]).kind # "refresh" =>
           /\ Head(events[u]).id \in Ids /\ Stored(Head(events[u]).id)
           /\ Head(events[u]).kind = "deleted" => msg[Head(events[u]).id].deleted
  BY <1>1, Delivered
<1>3. PICK e : e = Head(events[u])
  OBVIOUS
<1>4. e.kind # "refresh" => /\ e.id \in Ids /\ Stored(e.id)
                            /\ e.kind = "deleted" => msg[e.id].deleted
  BY <1>2, <1>3
<1>5. /\ chat \in [Users -> Chat \union {Closed}] /\ req \in [Requests -> Request \union {Idle}]
      /\ chat[u] \in Chat \union {Closed}
  BY <1>1 DEF DmInv, TypeOK
<1>6. CASE e.kind = "message" /\ Open(u)
  <2>1. chat[u] \in Chat /\ chat[u].shown \subseteq Ids /\ e.id \in Ids
    BY <1>4, <1>5, <1>6, ChatIsOpen DEF Open
  <2>2. PICK shown \in SUBSET Ids : shown = chat[u].shown \union {e.id}
    BY <2>1
  <2>3. PICK c \in Chat : c = [chat[u] EXCEPT !.shown = shown]
    BY <2>1 DEF Chat
  <2>4. c # Closed /\ (c.loaded => chat[u].loaded) /\ c.shown = shown
    BY <2>1, <2>3, ChatIsOpen DEF Chat
  <2>5. PICK new \in Request : new = New("find", "mark", u)
    BY <1>1, NewIs DEF Stages, Ops
  <2>6. /\ new.stage = "find" /\ new.op = "mark" /\ new.user = u /\ new # Idle
        /\ new.then = "refetch"
    BY <1>1, <2>5, NewIs, RequestIsBusy DEF Stages, Ops
  <2>7. /\ chat' = [chat EXCEPT ![u].shown = @ \union {e.id}]
        /\ req' = [req EXCEPT ![r] = New("find", "mark", u)] /\ Overlap(u, "mark")
    BY <1>3, <1>6 DEF Deliver
  <2>8. chat' = [chat EXCEPT ![u] = c] /\ req' = [req EXCEPT ![r] = new]
    BY <2>2, <2>3, <2>5, <2>7
  <2>9. /\ chat' \in [Users -> Chat \union {Closed}] /\ chat'[u] = c
        /\ \A v \in Users \ {u} : chat'[v] = chat[v]
    BY <1>1, <1>5, <2>8
  <2>10. /\ req' \in [Requests -> Request \union {Idle}] /\ req'[r] = new
         /\ \A q \in Requests \ {r} : req'[q] = req[q]
    BY <1>5, <2>8
  <2>11. \A i \in chat[u].shown : i \in chat'[u].shown \/ ~Present(i)
    BY <2>2, <2>4, <2>9
  <2>12. Head(events[u]).kind = "message" => Head(events[u]).id \in chat'[u].shown
    BY <1>3, <2>2, <2>4, <2>9
  <2>13. chat'[u] # Closed /\ (chat'[u].loaded => chat[u].loaded)
    BY <2>4, <2>9
  <2>14. /\ req'[r] # Idle /\ req'[r].op = "mark" /\ req'[r].user = u /\ req'[r].stage = "find"
         /\ req'[r].then = "refetch" /\ Overlap(u, "mark")
    BY <2>6, <2>7, <2>10
  <2>15. Head(events[u]).kind # "refresh"
    BY <1>3, <1>6
  <2> QED BY <1>1, <1>2, <1>6, <2>9, <2>10, <2>11, <2>12, <2>13, <2>14, <2>15, DeliverMoves
<1>7. CASE e.kind = "deleted" /\ Open(u)
  <2>1. chat[u] \in Chat /\ chat[u].shown \subseteq Ids /\ ~Present(e.id)
    BY <1>4, <1>5, <1>7, ChatIsOpen DEF Open, Present
  <2>2. PICK shown \in SUBSET Ids : shown = chat[u].shown \ {e.id}
    BY <2>1
  <2>3. PICK c \in Chat : c = [chat[u] EXCEPT !.shown = shown]
    BY <2>1 DEF Chat
  <2>4. c # Closed /\ (c.loaded => chat[u].loaded) /\ c.shown = shown
    BY <2>1, <2>3, ChatIsOpen DEF Chat
  <2>5. chat' = [chat EXCEPT ![u].shown = @ \ {e.id}] /\ req' = req /\ overlaps' = overlaps
    BY <1>3, <1>7 DEF Deliver
  <2>6. chat' = [chat EXCEPT ![u] = c]
    BY <2>2, <2>3, <2>5
  <2>7. /\ chat' \in [Users -> Chat \union {Closed}] /\ chat'[u] = c
        /\ \A v \in Users \ {u} : chat'[v] = chat[v]
    BY <1>1, <1>5, <2>6
  <2>8. \A i \in chat[u].shown : i \in chat'[u].shown \/ ~Present(i)
    BY <2>1, <2>2, <2>4, <2>7
  <2>9. Head(events[u]).kind # "message" /\ Head(events[u]).kind # "refresh"
    BY <1>3, <1>7
  <2>10. chat'[u] # Closed /\ (chat'[u].loaded => chat[u].loaded)
    BY <2>4, <2>7
  <2>11. req'[r] = Idle /\ req' \in [Requests -> Request \union {Idle}]
    BY <1>1, <1>5, <2>5 DEF Busy
  <2> QED BY <1>1, <1>2, <1>7, <2>5, <2>7, <2>8, <2>9, <2>10, <2>11, DeliverMoves
<1>8. CASE e.kind # "refresh" /\ ~Open(u)
  <2>1. req' = req /\ chat' = chat /\ overlaps' = overlaps
    BY <1>3, <1>8 DEF Deliver
  <2>2. req'[r] = Idle /\ req' \in [Requests -> Request \union {Idle}]
    BY <1>1, <1>5, <2>1 DEF Busy
  <2>3. Head(events[u]).kind # "refresh"
    BY <1>3, <1>8
  <2>4. chat' \in [Users -> Chat \union {Closed}] /\ chat'[u] = Closed
    BY <1>5, <1>8, <2>1 DEF Open
  <2> QED BY <1>1, <1>2, <1>8, <2>1, <2>2, <2>3, <2>4, DeliverMoves
<1>9. CASE e.kind = "refresh"
  <2>1. PICK new \in Request : new = New("find", "summary", u)
    BY <1>1, NewIs DEF Stages, Ops
  <2>2. /\ new.stage = "find" /\ new.op = "summary" /\ new.user = u /\ new # Idle
        /\ new.then = "refetch"
    BY <1>1, <2>1, NewIs, RequestIsBusy DEF Stages, Ops
  <2>3. /\ req' = [req EXCEPT ![r] = new] /\ Overlap(u, "summary") /\ chat' = chat
    BY <1>3, <1>9, <2>1 DEF Deliver
  <2>4. /\ req' \in [Requests -> Request \union {Idle}] /\ req'[r] = new
        /\ \A q \in Requests \ {r} : req'[q] = req[q]
    BY <1>5, <2>3
  <2>5. /\ req'[r] # Idle /\ req'[r].op = "summary" /\ req'[r].user = u
        /\ req'[r].stage = "find" /\ req'[r].then = "refetch" /\ Overlap(u, "summary")
    BY <2>2, <2>3, <2>4
  <2>6. /\ chat' \in [Users -> Chat \union {Closed}]
        /\ ~Open(u) => chat'[u] = Closed
        /\ Open(u) => /\ chat'[u] # Closed /\ (chat'[u].loaded => chat[u].loaded)
                      /\ \A i \in chat[u].shown : i \in chat'[u].shown \/ ~Present(i)
    BY <1>5, <2>3 DEF Open
  <2>7. Head(events[u]).kind # "message"
    BY <1>3, <1>9
  <2> QED BY <1>1, <1>2, <2>3, <2>4, <2>5, <2>6, <2>7, DeliverMoves
<1>10. \/ e.kind = "message" /\ Open(u)
       \/ e.kind = "deleted" /\ Open(u)
       \/ e.kind # "refresh" /\ ~Open(u)
       \/ e.kind = "refresh"
  BY <1>3 DEF Deliver
<1> QED BY <1>6, <1>7, <1>8, <1>9, <1>10

----------------------------------------------------------------------------
(* The invariant holds *)

LEMMA InvInit == Init => DmInv
<1> SUFFICES ASSUME Init PROVE DmInv
  OBVIOUS
<1>1. 0 \in 0..MaxMessages
  BY BoundsAssumption
<1>2. \A u \in Users : events[u] = <<>> /\ chat[u] = Closed /\ seen[u] = {}
  BY DEF Init
<1>3. \A r \in Requests : ~Busy(r)
  BY DEF Init, Busy
<1>4. \A i \in Ids : ~Stored(i)
  BY DEF Init, Stored
<1>5. TypeOK
  <2>1. events \in [Users -> Seq(Event)]
    BY EmptySeq DEF Init
  <2> QED BY <1>1, <2>1 DEF Init, TypeOK
<1>6. StoredInOrder
  BY <1>4, FS_EmptySet DEF Init, StoredInOrder
<1>7. CursorsCover
  BY <1>2, <1>4 DEF Init, CursorsCover, Covers, PastIsSeen
<1>8. AllSound
  BY <1>3 DEF AllSound, Sound
<1>9. OneAtATime /\ LeftAlone
  BY <1>3 DEF OneAtATime, LeftAlone, LeftAloneOf, Marking, InFlight
<1>10. EventsSound
  BY <1>2 DEF EventsSound
<1>11. NothingLost
  BY <1>2, <1>3, TabsAssumption DEF NothingLost, NothingLostTo, Open, InFlight
<1>12. BadgeFollows
  BY <1>3 DEF Init, BadgeFollows, BadgeFollowsOf, InFlight, Unread
<1> QED BY <1>5, <1>6, <1>7, <1>8, <1>9, <1>10, <1>11, <1>12 DEF DmInv

LEMMA InvStutters ==
  ASSUME DmInv, UNCHANGED vars
  PROVE  DmInv'
<1>1. /\ relation' = relation /\ rooms' = rooms /\ msg' = msg /\ cursor' = cursor /\ req' = req
      /\ events' = events /\ chat' = chat /\ badge' = badge /\ seen' = seen
      /\ overlaps' = overlaps
  BY DEF vars
<1>2. TypeOK' /\ StoredInOrder' /\ OneAtATime' /\ EventsSound'
  BY <1>1 DEF DmInv, TypeOK, StoredInOrder, OneAtATime, EventsSound, InFlight, Busy, Stored
<1>6. LeftAlone'
  BY <1>1 DEF DmInv, LeftAlone, LeftAloneOf, Marking, InFlight, Busy
<1>3. CursorsCover' /\ AllSound'
  BY <1>1
     DEF DmInv, CursorsCover, AllSound, Sound, Covers, PastIsSeen, OnMessage, Present, Stored, Busy,
         Open
<1>4. NothingLost'
  BY <1>1, LostStays
     DEF NothingLost, InOneRoom, Coming, Told, At, Present, Stored, InFlight, Busy
<1>5. BadgeFollows'
  <2>1. Forward
    BY <1>1, ForwardOnTables DEF DmInv
  <2> QED BY <1>1, <2>1, BadgeStays, UnreadStays
          DEF BadgeFollows, InOneRoom, Stale, Notified, InFlight, Busy
<1> QED BY <1>2, <1>3, <1>4, <1>5, <1>6 DEF DmInv

LEMMA InvHandled ==
  ASSUME DmInv, NEW r \in Requests, Handle(r)
  PROVE  DmInv'
<1>1. ASSUME areFriends(r) \/ FindForSend(r) \/ createDmRoom(r) \/ Create(r) PROVE DmInv'
  BY <1>1, areFriendsKeeps, FindForSendKeeps, createDmRoomKeeps, CreateKeeps
<1>2. ASSUME EmitMessage(r) \/ notifyUnreadRefresh(r) \/ Erase(r) \/ emitMessageDeletedInDm(r)
      PROVE  DmInv'
  BY <1>2, EmitMessageKeeps, notifyUnreadRefreshKeeps, EraseKeeps, emitMessageDeletedInDmKeeps
<1>3. ASSUME FindForList(r) \/ ReadPage(r) \/ ShowPage(r) PROVE DmInv'
  BY <1>3, FindForListKeeps, ReadPageKeeps, ShowPageKeeps
<1>4. ASSUME FindForMark(r) \/ ReadLatest(r) \/ Upsert(r) \/ Marked(r) PROVE DmInv'
  BY <1>4, FindForMarkKeeps, ReadLatestKeeps, UpsertKeeps, MarkedKeeps
<1>5. ASSUME ReadState(r) \/ Count(r) \/ ShowBadge(r) PROVE DmInv'
  BY <1>5, ReadStateKeeps, CountKeeps, ShowBadgeKeeps
<1> QED BY <1>1, <1>2, <1>3, <1>4, <1>5 DEF Handle

LEMMA InvStep == DmInv /\ [Next]_vars => DmInv'
<1> SUFFICES ASSUME DmInv, [Next]_vars PROVE DmInv'
  OBVIOUS
<1>1. CASE Relate
  BY <1>1, RelateKeeps
<1>2. CASE \E r \in Requests : Handle(r)
  BY <1>2, InvHandled
<1>3. CASE \E r \in Requests, u \in Senders :
             StartSend(r, u) \/ \E i \in Ids : StartDelete(r, u, i)
  BY <1>3, StartSendKeeps, StartDeleteKeeps, TabsAssumption
<1>4. CASE \E u \in Watchers : \E r, q \in Requests : OpenChat(r, q, u)
  BY <1>4, OpenChatKeeps
<1>5. CASE \E u \in Watchers : \E r \in Requests : Deliver(r, u)
  BY <1>5, DeliverKeeps
<1>6. CASE \E u \in Watchers : CloseChat(u)
  BY <1>6, CloseChatKeeps
<1>7. CASE UNCHANGED vars
  BY <1>7, InvStutters
<1> QED BY <1>1, <1>2, <1>3, <1>4, <1>5, <1>6, <1>7 DEF Next

\* DmInv holds in every reachable state, whatever the interleaving of the pair's requests
\* (messages.service.ts), the events to their tabs (chat.gateway.ts) and the answers.
THEOREM InvHolds == Spec => []DmInv
<1>1. Init => DmInv
  BY InvInit
<1>2. DmInv /\ [Next]_vars => DmInv'
  BY InvStep
<1> QED BY <1>1, <1>2, PTL DEF Spec

\* Every variable keeps its shape.
THEOREM TypeCorrect == Spec => []TypeOK
<1>1. DmInv => TypeOK
  BY DEF DmInv
<1> QED BY <1>1, InvHolds, PTL

\* A message is stored only of a send that began between friends: a removal or a ban stops
\* every send that begins after it (sendPersonalMessage, assertCanSendPersonalMessage).
THEOREM BanStops == Spec => []BanStopsNewMessages
<1>1. DmInv => BanStopsNewMessages
  <2> SUFFICES ASSUME DmInv, NEW r \in Requests, At(r, "create", "send") PROVE req[r].asFriends
    BY DEF BanStopsNewMessages
  <2>1. Busy(r)
    BY AtIsBusy DEF DmInv, Stages
  <2> QED BY <2>1 DEF DmInv, AllSound, Sound, At
<1> QED BY <1>1, InvHolds, PTL

\* What a user's cursor has covered is never counted as unread again, whatever is deleted,
\* unless two requests of the user to mark the conversation have overlapped
\* (markRoomRead, countUnreadFromOthers).
THEOREM ReadIsRead == Spec => []ReadStaysRead
<1>1. DmInv => ReadStaysRead
  <2> SUFFICES ASSUME DmInv, NEW u \in Users, "mark" \notin overlaps[u],
                      NEW i \in seen[u], i \in Unread(u)
               PROVE  FALSE
    BY DEF ReadStaysRead
  <2>1. PICK d \in rooms : i \in Ids /\ i > Anchor(d, cursor[u][d]) /\ Present(i) /\ msg[i].room = d
    BY DEF Unread
  <2>2. d \in DmRooms
    BY DEF DmInv, TypeOK
  <2>3. PICK c \in 0..MaxMessages : c = cursor[u][d]
    BY <2>2 DEF DmInv, TypeOK
  <2>4. i <= c
    BY <2>1, <2>2, <2>3 DEF DmInv, CursorsCover, Covers
  <2>5. Anchor(d, cursor[u][d]) = c
    BY <2>2, <2>3, AnchorIsCursor
  <2> QED BY <2>1, <2>3, <2>4, <2>5 DEF Ids
<1> QED BY <1>1, InvHolds, PTL

\* OneRoom counts the rooms; no two of them differ.
LEMMA OneRoomIs ==
  ASSUME DmInv, OneRoom
  PROVE  InOneRoom
<1> SUFFICES ASSUME NEW d \in rooms, NEW e \in rooms, d # e PROVE FALSE
  BY DEF InOneRoom
<1>1. IsFiniteSet(rooms)
  BY DEF DmInv, StoredInOrder
<1>2. Cardinality({d, e}) <= Cardinality(rooms)
  BY <1>1, FS_Subset
<1>3. Cardinality({d}) = 1 /\ IsFiniteSet({d})
  BY FS_Singleton
<1>4. Cardinality({d} \union {e}) = 2
  <2>1. e \notin {d}
    OBVIOUS
  <2> QED BY <1>3, <2>1, FS_AddElement
<1>5. {d} \union {e} = {d, e}
  OBVIOUS
<1>6. Cardinality(rooms) \in Nat /\ Cardinality(rooms) <= 1
  BY <1>1, FS_CardinalityType DEF OneRoom
<1> QED BY <1>2, <1>4, <1>5, <1>6

\* An open conversation with its page and no event on its way shows every message that is
\* stored, emitted and not deleted, whichever of page and events came first
\* (ActiveChat.tsx, mergeLatestPageWithExisting).
THEOREM PagesMissNothing == Spec => []NothingMissed
<1>1. DmInv => NothingMissed
  <2> SUFFICES ASSUME DmInv, NEW u \in Watchers, OneRoom, Open(u), chat[u].loaded,
                      events[u] = <<>>, NEW i \in Ids, Present(i),
                      ~\E r \in Requests : At(r, "emit", "send") /\ req[r].id = i
               PROVE  i \in chat[u].shown
    BY DEF NothingMissed
  <2>1. Complete(u, chat[u].shown)
    BY OneRoomIs DEF DmInv, NothingLost, NothingLostTo
  <2>2. ~Coming(u, i)
    BY DEF Coming, Told
  <2> QED BY <2>1, <2>2 DEF Complete
<1> QED BY <1>1, InvHolds, PTL

\* A message not yet read shows in the badge of a tab at rest, also when marks have moved the
\* cursor back, unless two fetches of the counts have overlapped, or a mark whose
\* conversation was closed meanwhile with another (useUnreadSummary.ts, getUnreadSummary,
\* the effect of ActiveChat.tsx and its `cancelled`).
THEOREM UnreadShows == Spec => []BadgeNotices
<1>1. DmInv => BadgeNotices
  <2> SUFFICES ASSUME DmInv, NEW u \in Watchers, OneRoom, AtRest(u),
                      overlaps[u] \subseteq {"mark"}, Unread(u) # {}
               PROVE  badge[u] > 0
    BY DEF BadgeNotices
  <2>1. /\ events[u] = <<>> /\ InFlight(u, "mark") = {} /\ InFlight(u, "summary") = {}
        /\ ~\E r \in Requests : req[r].stage \in {"emit", "notify"}
    BY DEF AtRest
  <2>2. ~Notified(u)
    BY <2>1 DEF Notified
  <2>3. ~Stale(u)
    BY <2>1, <2>2 DEF Stale
  <2>4. BadgeFollowsOf(u)
    BY OneRoomIs DEF DmInv, BadgeFollows
  <2> QED BY <2>1, <2>3, <2>4 DEF BadgeFollowsOf
<1> QED BY <1>1, InvHolds, PTL
=============================================================================
