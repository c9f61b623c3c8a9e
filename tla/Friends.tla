------------------------------- MODULE Friends -------------------------------
(***************************************************************************)
(* Friend requests, friendships and bans between accounts: the handlers of *)
(* chat_app_be/src/friends/friends.service.ts over the Friendship and      *)
(* UserBan tables.  As in Rooms, a handler is one step per awaited         *)
(* database call, and its check and its write may be several steps of      *)
(* other requests apart.                                                   *)
(***************************************************************************)
EXTENDS FiniteSets

CONSTANTS
  Users,     \* account ids
  Ids,       \* Friendship row ids (bounds how many exist or are remembered)
  NoId,      \* no row id: a request that has not read a row
  Requests,  \* slots for requests in flight (bounds concurrency)
  Faults     \* may an awaited call fail, or the server stop?

ASSUME NoIdAssumption == NoId \notin Ids
ASSUME FaultsAssumption == Faults \in BOOLEAN

VARIABLES
  row,     \* row[id]: the Friendship row, or NoRow
  banned,  \* the UserBan rows, as pairs <<banner, banned user>>
  req,     \* req[r]: the state of the request in slot r
  asked    \* history: who has sent, renewed or accepted row id since it was created

vars == <<row, banned, req, asked>>
tables == <<row, banned, asked>>

----------------------------------------------------------------------------
\* FriendshipStatus has "blocked" too, which nothing writes.
Status == {"pending", "accepted", "declined"}

Row == [from : Users, to : Users, status : Status]

NoRow == [status |-> "none"]

Exists(id) == row[id] # NoRow

Between(id, u, v) == Exists(id) /\ {row[id].from, row[id].to} = {u, v}

\* The rows findFriendshipPair may return: a pair can have one in each direction.
PairRows(u, v) == {id \in Ids : Between(id, u, v)}

Directed(u, v) == {id \in Ids : Exists(id) /\ row[id].from = u /\ row[id].to = v}

pairHasAnyBan(u, v) == <<u, v>> \in banned \/ <<v, u>> \in banned

\* Some row makes them friends (areFriends looks at one row of the pair only).
Friends(u, v) == \E id \in PairRows(u, v) : row[id].status = "accepted"

Ops == {"send", "accept", "decline", "cancel", "remove", "ban", "unban"}
ByRowId == {"accept", "decline", "cancel"}

\* The stage of a request names the call it awaits next.
Stages == {"bans", "find", "create", "confirm", "renew", "read", "decline",
           "delete", "ban", "unban"}

Request == [stage : Stages, op : Ops, me : Users, peer : Users,
            id : Ids \union {NoId}]

Idle == [stage |-> "idle"]

Busy(r) == req[r] # Idle
At(r, stage) == req[r].stage = stage

Finish(r) == req' = [req EXCEPT ![r] = Idle]
Proceed(r, stage) == req' = [req EXCEPT ![r].stage = stage]
ProceedOn(r, stage, id) == req' = [req EXCEPT ![r].stage = stage, ![r].id = id]

\* A new row's id is one that no request remembers: it stands for a fresh uuid.
Fresh(id) == ~Exists(id) /\ \A r \in Requests : Busy(r) => req[r].id # id

FirstStage(op) ==
  CASE op = "send" -> "bans"
    [] op = "remove" -> "find"
    [] op \in ByRowId -> "read"
    [] OTHER -> op

----------------------------------------------------------------------------
\* A client calls an operation on another account, ...
Start(r, op, me, peer) ==
  /\ ~Busy(r)
  /\ op \notin ByRowId /\ me # peer
  /\ req' = [req EXCEPT ![r] = [stage |-> FirstStage(op), op |-> op, me |-> me,
                                peer |-> peer, id |-> NoId]]
  /\ UNCHANGED tables

\* ... or on a request it has listed: any id, since its list may be out of date.
StartById(r, op, me, id) ==
  /\ ~Busy(r)
  /\ op \in ByRowId
  /\ req' = [req EXCEPT ![r] = [stage |-> FirstStage(op), op |-> op, me |-> me,
                                peer |-> me, id |-> id]]
  /\ UNCHANGED tables

\* pairHasAnyBan: before anything else in sendFriendRequest, after the row has been
\* read in acceptRequest.
ReadBans(r) ==
  /\ At(r, "bans")
  /\ IF pairHasAnyBan(req[r].me, req[r].peer) THEN Finish(r)
     ELSE Proceed(r, IF req[r].op = "accept" THEN "confirm" ELSE "find")
  /\ UNCHANGED tables

\* findFriendshipPair, and what send and remove make of the row it returns: any row
\* of the pair, as it asks for no order.
AfterFind(r, id) ==
  LET f == row[id] IN
  CASE req[r].op = "remove" /\ f.status = "accepted" -> "delete"
    [] req[r].op = "send" /\ f.status = "declined" -> "renew"
    [] req[r].op = "send" /\ f.status = "pending" /\ f.from # req[r].me -> "confirm"
    [] OTHER -> "refuse"

Find(r) ==
  /\ At(r, "find")
  /\ \/ /\ PairRows(req[r].me, req[r].peer) = {}
        /\ IF req[r].op = "send" THEN Proceed(r, "create") ELSE Finish(r)
     \/ \E id \in PairRows(req[r].me, req[r].peer) :
          IF AfterFind(r, id) = "refuse" THEN Finish(r)
          ELSE ProceedOn(r, AfterFind(r, id), id)
  /\ UNCHANGED tables

\* friendship.create; it throws when the directed pair has a row by now.
Create(r) ==
  /\ At(r, "create")
  /\ IF Directed(req[r].me, req[r].peer) # {} THEN UNCHANGED <<row, asked>>
     ELSE \E id \in Ids :
            /\ Fresh(id)
            /\ row' = [row EXCEPT ![id] = [from |-> req[r].me, to |-> req[r].peer,
                                           status |-> "pending"]]
            /\ asked' = [asked EXCEPT ![id] = {req[r].me}]
  /\ Finish(r)
  /\ UNCHANGED banned

\* The update to accepted, of acceptRequest and of a send that found the peer's own
\* request.  Like every write by id it throws when the row is gone.
Confirm(r) ==
  /\ At(r, "confirm")
  /\ LET id == req[r].id IN
     IF Exists(id)
     THEN /\ row' = [row EXCEPT ![id].status = "accepted"]
          /\ asked' = [asked EXCEPT ![id] = @ \union {req[r].me}]
     ELSE UNCHANGED <<row, asked>>
  /\ Finish(r)
  /\ UNCHANGED banned

\* A send that found a declined row turns it into its own request; it throws when
\* another row holds that direction.
Renew(r) ==
  /\ At(r, "renew")
  /\ LET id == req[r].id IN
     IF Exists(id) /\ Directed(req[r].me, req[r].peer) \subseteq {id}
     THEN /\ row' = [row EXCEPT ![id] = [from |-> req[r].me, to |-> req[r].peer,
                                         status |-> "pending"]]
          /\ asked' = [asked EXCEPT ![id] = @ \union {req[r].me}]
     ELSE UNCHANGED <<row, asked>>
  /\ Finish(r)
  /\ UNCHANGED banned

\* (mutant: either party may answer)
AnswerableByEither(op, me, id) ==
  /\ Exists(id)
  /\ me \in {row[id].from, row[id].to}
  /\ row[id].status = "pending"

\* findUnique by id: accept and decline are for the addressee of a pending request,
\* cancel for its requester.
Answerable(op, me, id) ==
  /\ Exists(id)
  /\ me = IF op = "cancel" THEN row[id].from ELSE row[id].to
  /\ row[id].status = "pending"

AfterRead(op) ==
  CASE op = "accept" -> "bans"
    [] op = "decline" -> "decline"
    [] OTHER -> "delete"

ReadRow(r) ==
  /\ At(r, "read")
  /\ LET id == req[r].id
         me == req[r].me
         op == req[r].op
     IN IF Answerable(op, me, id)
        THEN req' = [req EXCEPT
               ![r].stage = AfterRead(op),
               ![r].peer = IF op = "cancel" THEN row[id].to ELSE row[id].from]
        ELSE Finish(r)
  /\ UNCHANGED tables

Decline(r) ==
  /\ At(r, "decline")
  /\ row' = IF Exists(req[r].id)
            THEN [row EXCEPT ![req[r].id].status = "declined"]
            ELSE row
  /\ Finish(r)
  /\ UNCHANGED <<banned, asked>>

\* The delete of cancelOutgoingRequest and removeFriend: that one row.
Delete(r) ==
  /\ At(r, "delete")
  /\ row' = [row EXCEPT ![req[r].id] = NoRow]
  /\ asked' = [asked EXCEPT ![req[r].id] = {}]
  /\ Finish(r)
  /\ UNCHANGED banned

\* (mutant: the row is marked blocked, the enum value nothing writes)
BanMarksRow(r) ==
  /\ At(r, "ban")
  /\ row' = [id \in Ids |-> IF Between(id, req[r].me, req[r].peer)
                            THEN [row[id] EXCEPT !.status = "blocked"] ELSE row[id]]
  /\ banned' = banned \union {<<req[r].me, req[r].peer>>}
  /\ Finish(r)
  /\ UNCHANGED asked

\* (mutant: only the request the banner has sent is deleted)
BanOneDirection(r) ==
  /\ At(r, "ban")
  /\ LET gone == Directed(req[r].me, req[r].peer) IN
     /\ row' = [id \in Ids |-> IF id \in gone THEN NoRow ELSE row[id]]
     /\ asked' = [id \in Ids |-> IF id \in gone THEN {} ELSE asked[id]]
  /\ banned' = banned \union {<<req[r].me, req[r].peer>>}
  /\ Finish(r)

\* banUser's transaction: both directions' rows go and the ban is upserted.
Ban(r) ==
  /\ At(r, "ban")
  /\ LET gone == PairRows(req[r].me, req[r].peer) IN
     /\ row' = [id \in Ids |-> IF id \in gone THEN NoRow ELSE row[id]]
     /\ asked' = [id \in Ids |-> IF id \in gone THEN {} ELSE asked[id]]
  /\ banned' = banned \union {<<req[r].me, req[r].peer>>}
  /\ Finish(r)

Unban(r) ==
  /\ At(r, "unban")
  /\ banned' = banned \ {<<req[r].me, req[r].peer>>}
  /\ Finish(r)
  /\ UNCHANGED <<row, asked>>

\* The awaited call fails, or the process stops: what is written stays written.
Abort(r) ==
  /\ Faults
  /\ Busy(r)
  /\ Finish(r)
  /\ UNCHANGED tables

----------------------------------------------------------------------------
Init ==
  /\ row = [id \in Ids |-> NoRow]
  /\ banned = {}
  /\ req = [r \in Requests |-> Idle]
  /\ asked = [id \in Ids |-> {}]

Step(r) ==
  \/ ReadBans(r)
  \/ Find(r)
  \/ Create(r)
  \/ Confirm(r)
  \/ Renew(r)
  \/ ReadRow(r)
  \/ Decline(r)
  \/ Delete(r)
  \/ Ban(r)
  \/ Unban(r)

Next ==
  \/ \E r \in Requests : Step(r) \/ Abort(r)
  \/ \E r \in Requests, op \in Ops, me, peer \in Users : Start(r, op, me, peer)
  \/ \E r \in Requests, op \in Ops, me \in Users, id \in Ids : StartById(r, op, me, id)

Spec == Init /\ [][Next]_vars

----------------------------------------------------------------------------
TypeOK ==
  /\ row \in [Ids -> Row \union {NoRow}]
  /\ banned \in SUBSET (Users \X Users)
  /\ req \in [Requests -> Request \union {Idle}]
  /\ asked \in [Ids -> SUBSET Users]

\* Nobody becomes a friend without having asked: each party of a friendship has sent,
\* renewed or accepted that very row, however sends, declines, renewals, cancels and
\* accepts on stale reads interleave.
BothAsked ==
  \A id \in Ids :
    Exists(id) /\ row[id].status = "accepted" =>
      {row[id].from, row[id].to} \subseteq asked[id]

\* acceptRequest reads the row before the bans, and a ban deletes the row: an accept
\* that is past its check and still has a row to update is of accounts without a ban.
AcceptAheadOfBan ==
  \A r \in Requests :
    At(r, "confirm") /\ req[r].op = "accept" /\ Exists(req[r].id) =>
      ~pairHasAnyBan(req[r].me, req[r].peer)

\* The rest of the inductive invariant.  A request about a row knows its id, ...
AboutRow(r) ==
  /\ Busy(r)
  /\ \/ req[r].stage \in {"read", "confirm", "renew", "decline", "delete"}
     \/ req[r].stage = "bans" /\ req[r].op = "accept"

RowsHeld == \A r \in Requests : AboutRow(r) => req[r].id \in Ids

\* ... one that will make friends knows that its peer has asked, ...
MakesFriends(r) ==
  \/ At(r, "confirm")
  \/ At(r, "bans") /\ req[r].op = "accept"

PeersAsked ==
  \A r \in Requests :
    MakesFriends(r) /\ Exists(req[r].id) => req[r].peer \in asked[req[r].id]

\* ... the row it has read stays a row of the two for as long as it exists, ...
PairsHeld ==
  \A r \in Requests :
    (MakesFriends(r) \/ At(r, "renew")) /\ Exists(req[r].id) =>
      Between(req[r].id, req[r].me, req[r].peer)

\* ... and the requester of a row has asked.
RequestersAsked ==
  \A id \in Ids : Exists(id) => row[id].from \in asked[id]
=============================================================================
