-------------------------------- MODULE Rooms --------------------------------
(***************************************************************************)
(* Membership, roles and bans of one chat room: the handlers of            *)
(* chat_app_be/src/rooms/rooms.service.ts that change a Room, RoomMember   *)
(* or RoomBan row.  The service holds no lock and opens no transaction     *)
(* around its checks, so a handler is a sequence of steps, one for each    *)
(* awaited database call, and the steps of concurrent requests interleave. *)
(* A request keeps what it has read in its own record; the tables may      *)
(* change before it writes.                                                *)
(***************************************************************************)
EXTENDS Naturals, FiniteSets

CONSTANTS
  Users,                  \* account ids
  Creator,                \* the account that creates the room
  Requests,               \* slots for requests in flight (bounds concurrency)
  Ops,                    \* the operations clients call
  MAX_ROOM_PARTICIPANTS,  \* the capacity limit, 1000 in the code
  Faults                  \* may an awaited call fail, or the server stop?

AllOps == {"join", "invite", "leave", "delete", "ban", "unban", "addAdmin",
           "removeAdmin", "promote", "demote", "kick"}

ASSUME CreatorAssumption == Creator \in Users
ASSUME RequestsAssumption == IsFiniteSet(Requests) /\ Requests # {}
ASSUME UsersAssumption == IsFiniteSet(Users)
ASSUME OpsAssumption == Ops \subseteq AllOps
ASSUME CapacityAssumption == MAX_ROOM_PARTICIPANTS \in Nat \ {0}
ASSUME FaultsAssumption == Faults \in BOOLEAN

VARIABLES
  room,    \* the Room row: its type, or "absent" before and "deleted" after
  role,    \* role[u]: the role in u's RoomMember row, "none" without a row
  banned,  \* the users with a RoomBan row
  req      \* req[r]: the state of the request in slot r

vars == <<room, role, banned, req>>
tables == <<room, role, banned>>

----------------------------------------------------------------------------
Roles == {"owner", "admin", "mod", "member"}
RoleOrNone == Roles \union {"none"}

RoomType == {"public", "private"}
Live == room \in RoomType

isStaffRole == {"owner", "admin", "mod"}
isRoomAdminOrOwnerRole == {"owner", "admin"}

Members == {u \in Users : role[u] # "none"}

\* The stage of a request names the call it awaits next.
Stages == {"room", "authorise", "bans", "already", "count", "enrol", "quit",
           "destroy", "actor", "target", "ban", "unban", "update", "remove",
           "record"}

Request == [stage : Stages, op : AllOps, actor : Users, target : Users,
            actorRole : RoleOrNone, targetRole : RoleOrNone]

Idle == [stage |-> "idle"]

Busy(r) == req[r] # Idle
At(r, stage) == req[r].stage = stage

\* The handler throws or returns: the response is sent and the slot is free.
Finish(r) == req' = [req EXCEPT ![r] = Idle]

\* The handler goes on to await its next call.
Proceed(r, stage) == req' = [req EXCEPT ![r].stage = stage]

----------------------------------------------------------------------------
\* (mutant: admins appoint admins, as they already ban and demote)
MayPerformAdminsAppoint(op) ==
  CASE op \in {"invite", "kick"} -> isStaffRole
    [] op = "delete" -> {"owner"}
    [] op = "leave" -> Roles \ {"owner"}
    [] OTHER -> isRoomAdminOrOwnerRole

\* The roles that pass the check on the caller, for each operation.
MayPerform(op) ==
  CASE op \in {"invite", "kick"} -> isStaffRole
    [] op \in {"addAdmin", "delete"} -> {"owner"}
    [] op = "leave" -> Roles \ {"owner"}
    [] OTHER -> isRoomAdminOrOwnerRole

\* (mutant: a kick may remove the owner)
KickAllowedOwner(actorRole, targetRole) ==
  /\ actorRole # "none" /\ targetRole # "none"
  /\ actorRole = "mod" => targetRole = "member"
  /\ actorRole = "admin" => targetRole # "admin"

\* kickMember's comparison of the two roles it has read.  An actor read as
\* "member" passes both branches.
KickAllowed(actorRole, targetRole) ==
  /\ actorRole # "none"
  /\ targetRole \notin {"none", "owner"}
  /\ actorRole = "mod" => targetRole = "member"
  /\ actorRole = "admin" => targetRole # "admin"

\* The role the target's row must hold when it is read ("none": no row).
TargetAllowed(op, actorRole, targetRole) ==
  CASE op = "ban" -> targetRole # "owner"
    [] op = "addAdmin" -> targetRole \notin {"none", "owner"}
    [] op = "removeAdmin" -> targetRole = "admin"
    [] op = "promote" -> targetRole = "member"
    [] op = "demote" -> targetRole = "mod"
    [] OTHER -> KickAllowed(actorRole, targetRole)  \* a kick

\* (mutant: the role's name in the interface, not the enum's value)
NewRoleName(op) ==
  CASE op = "addAdmin" -> "admin"
    [] op = "promote" -> "moderator"
    [] OTHER -> "member"

\* The role a role change writes, whatever the row holds by then.
NewRole(op) ==
  CASE op = "addAdmin" -> "admin"
    [] op = "promote" -> "mod"
    [] OTHER -> "member"

\* The call each handler awaits first, after reading the room, and after its
\* check on the caller.
FirstStage(op) == IF op \in {"join", "invite"} THEN "room" ELSE "authorise"

AfterRoom(op) ==
  CASE op = "join" -> "bans"
    [] op = "invite" -> "authorise"
    [] OTHER -> "destroy"

AfterAuthorise(op) ==
  CASE op = "invite" -> "bans"
    [] op = "leave" -> "quit"
    [] op = "delete" -> "room"
    [] op = "unban" -> "unban"
    [] op = "kick" -> "actor"
    [] OTHER -> "target"

\* Who a request may name.  Join, leave and delete act on the caller; a kick
\* or an invite of oneself is refused before anything is read.
ValidTarget(op, actor, target) ==
  /\ op \in {"join", "leave", "delete"} => target = actor
  /\ op \in {"invite", "kick"} => target # actor

----------------------------------------------------------------------------
\* createRoom: the Room row and the creator's RoomMember row, one nested write.
CreateRoom ==
  /\ room = "absent"
  /\ room' \in RoomType
  /\ role' = [role EXCEPT ![Creator] = "owner"]
  /\ UNCHANGED <<banned, req>>

\* A client calls an operation and the handler runs up to its first await.
Start(r, op, actor, target) ==
  /\ ~Busy(r)
  /\ room # "absent"
  /\ ValidTarget(op, actor, target)
  /\ req' = [req EXCEPT ![r] =
               [stage |-> FirstStage(op), op |-> op, actor |-> actor,
                target |-> target, actorRole |-> "none", targetRole |-> "none"]]
  /\ UNCHANGED tables

\* room.findUnique: the room must exist and have the type the operation is for.
ReadRoom(r) ==
  /\ At(r, "room")
  /\ LET op == req[r].op
         fits == /\ Live
                 /\ op = "join" => room = "public"
                 /\ op = "invite" => room = "private"
     IN IF fits THEN Proceed(r, AfterRoom(op)) ELSE Finish(r)
  /\ UNCHANGED tables

\* assertStaff, assertOwner, ...: read the caller's row and check its role.
Authorise(r) ==
  /\ At(r, "authorise")
  /\ LET op == req[r].op
     IN IF role[req[r].actor] \in MayPerform(op)
        THEN Proceed(r, AfterAuthorise(op))
        ELSE Finish(r)
  /\ UNCHANGED tables

\* (mutant: the ban of the caller is looked up, not the invited user's)
ReadBanOfCaller(r) ==
  /\ At(r, "bans")
  /\ IF req[r].actor \in banned THEN Finish(r) ELSE Proceed(r, "already")
  /\ UNCHANGED tables

\* Join and invite: a user with a RoomBan row is refused.
ReadBan(r) ==
  /\ At(r, "bans")
  /\ IF req[r].target \in banned THEN Finish(r) ELSE Proceed(r, "already")
  /\ UNCHANGED tables

\* Join and invite: is the user in the room already?  A join then returns ok; an
\* invite skips the count and goes straight to its upsert.
ReadAlready(r) ==
  /\ At(r, "already")
  /\ IF role[req[r].target] = "none" THEN Proceed(r, "count")
     ELSE IF req[r].op = "join" THEN Finish(r)
     ELSE Proceed(r, "enrol")
  /\ UNCHANGED tables

\* (mutant: the limit is off by one)
HasPlaceOffByOne == Cardinality(Members) <= MAX_ROOM_PARTICIPANTS

\* Join and invite: roomMember.count against the limit.
HasPlace == Cardinality(Members) < MAX_ROOM_PARTICIPANTS

Count(r) ==
  /\ At(r, "count")
  /\ IF HasPlace THEN Proceed(r, "enrol") ELSE Finish(r)
  /\ UNCHANGED tables

\* roomMember.create of a join, roomMember.upsert of an invite.  With a row there
\* the first fails on the unique key and the second changes nothing; without the
\* room both fail on the foreign key.
Enrol(r) ==
  /\ At(r, "enrol")
  /\ role' = IF Live /\ role[req[r].target] = "none"
             THEN [role EXCEPT ![req[r].target] = "member"]
             ELSE role
  /\ Finish(r)
  /\ UNCHANGED <<room, banned>>

\* leaveRoom deletes the caller's row (and throws when it is gone).
Quit(r) ==
  /\ At(r, "quit")
  /\ role' = [role EXCEPT ![req[r].actor] = "none"]
  /\ Finish(r)
  /\ UNCHANGED <<room, banned>>

\* deleteRoom's transaction: the row goes, and its members and bans by cascade.
Destroy(r) ==
  /\ At(r, "destroy")
  /\ room' = "deleted"
  /\ role' = [u \in Users |-> "none"]
  /\ banned' = {}
  /\ Finish(r)

\* kickMember reads the caller's row a second time, for the role it compares.
ReadActor(r) ==
  /\ At(r, "actor")
  /\ req' = [req EXCEPT ![r].actorRole = role[req[r].actor], ![r].stage = "target"]
  /\ UNCHANGED tables

ReadTarget(r) ==
  /\ At(r, "target")
  /\ LET op == req[r].op
         seen == role[req[r].target]
     IN IF ~TargetAllowed(op, req[r].actorRole, seen) THEN Finish(r)
        ELSE IF op = "kick"
        THEN req' = [req EXCEPT ![r].targetRole = seen, ![r].stage = "remove"]
        ELSE Proceed(r, IF op = "ban" THEN "ban" ELSE "update")
  /\ UNCHANGED tables

\* banFromRoom's transaction: roomMember.deleteMany and roomBan.upsert.  The
\* upsert fails, and the transaction with it, when the room is gone.
Ban(r) ==
  /\ At(r, "ban")
  /\ IF Live
     THEN /\ role' = [role EXCEPT ![req[r].target] = "none"]
          /\ banned' = banned \union {req[r].target}
     ELSE UNCHANGED <<role, banned>>
  /\ Finish(r)
  /\ UNCHANGED room

Unban(r) ==
  /\ At(r, "unban")
  /\ banned' = banned \ {req[r].target}
  /\ Finish(r)
  /\ UNCHANGED <<room, role>>

\* roomMember.update of the role; it throws when the row is gone.
UpdateRole(r) ==
  /\ At(r, "update")
  /\ role' = IF role[req[r].target] = "none" THEN role
             ELSE [role EXCEPT ![req[r].target] = NewRole(req[r].op)]
  /\ Finish(r)
  /\ UNCHANGED <<room, banned>>

\* (mutant: a moderator's kick records a ban too)
RemoveAlwaysBans(r) ==
  /\ At(r, "remove")
  /\ role' = [role EXCEPT ![req[r].target] = "none"]
  /\ IF role[req[r].target] # "none" THEN Proceed(r, "record") ELSE Finish(r)
  /\ UNCHANGED <<room, banned>>

\* kickMember deletes the target's row (and throws when it is gone), ...
Remove(r) ==
  /\ At(r, "remove")
  /\ role' = [role EXCEPT ![req[r].target] = "none"]
  /\ IF /\ role[req[r].target] # "none"
        /\ req[r].actorRole \in isRoomAdminOrOwnerRole
     THEN Proceed(r, "record")
     ELSE Finish(r)
  /\ UNCHANGED <<room, banned>>

\* ... and writes the ban in a second call, outside any transaction.
RecordBan(r) ==
  /\ At(r, "record")
  /\ banned' = IF Live THEN banned \union {req[r].target} ELSE banned
  /\ Finish(r)
  /\ UNCHANGED <<room, role>>

\* The awaited call fails, or the process stops: what is written stays written.
Abort(r) ==
  /\ Faults
  /\ Busy(r)
  /\ Finish(r)
  /\ UNCHANGED tables

----------------------------------------------------------------------------
Init ==
  /\ room = "absent"
  /\ role = [u \in Users |-> "none"]
  /\ banned = {}
  /\ req = [r \in Requests |-> Idle]

Step(r) ==
  \/ ReadRoom(r)
  \/ Authorise(r)
  \/ ReadBan(r)
  \/ ReadAlready(r)
  \/ Count(r)
  \/ Enrol(r)
  \/ Quit(r)
  \/ Destroy(r)
  \/ ReadActor(r)
  \/ ReadTarget(r)
  \/ Ban(r)
  \/ Unban(r)
  \/ UpdateRole(r)
  \/ Remove(r)
  \/ RecordBan(r)

Next ==
  \/ CreateRoom
  \/ \E r \in Requests : Step(r) \/ Abort(r)
  \/ \E r \in Requests, op \in Ops, actor, target \in Users :
       Start(r, op, actor, target)

Spec == Init /\ [][Next]_vars

----------------------------------------------------------------------------
TypeOK ==
  /\ room \in RoomType \union {"absent", "deleted"}
  /\ role \in [Users -> RoleOrNone]
  /\ banned \in SUBSET Users
  /\ req \in [Requests -> Request \union {Idle}]

\* A live room has exactly one owner, its creator, whom no interleaving of kicks,
\* bans, role changes and leaves can remove, demote or ban; before the room is
\* created and once it is deleted no membership and no ban exists, although
\* requests that checked them earlier may still be on their way to write.
OwnerAnchored ==
  IF Live
  THEN /\ \A u \in Users : role[u] = "owner" <=> u = Creator
       /\ Creator \notin banned
  ELSE Members = {} /\ banned = {}

\* Why OwnerAnchored survives requests that write on stale reads: one that is about
\* to delete a row, ban or change a role has seen that it is not aimed at the owner,
\* and what it has seen of the owner cannot change while the room lives.
AimedAwayFromOwner ==
  \A r \in Requests :
    /\ At(r, "quit") => req[r].actor # Creator
    /\ req[r].stage \in {"ban", "update", "remove", "record"} =>
         req[r].target # Creator \/ room = "deleted"
    /\ Busy(r) => room # "absent"

\* Only the owner's own requests make an admin or delete the room: the check made
\* when the request began still holds when it writes, because ownership never moves.
OwnerPowers ==
  [][LET ByCreatorFor(u) == \E r \in Requests :
               /\ Busy(r) /\ ~Busy(r)'
               /\ req[r].actor = Creator /\ req[r].target = u
     IN /\ \A u \in Users :
             role[u] # "admin" /\ role'[u] = "admin" => ByCreatorFor(u)
        /\ Live /\ ~Live' => ByCreatorFor(Creator)]_vars

\* The requests that only an owner gets past the first check of are the creator's.
OwnersRequests ==
  \A r \in Requests :
    /\ /\ req[r].stage \in {"actor", "target", "update"}
       /\ req[r].op = "addAdmin"
       => req[r].actor = Creator
    /\ req[r].stage = "room" /\ req[r].op \notin {"join", "invite"} =>
         req[r].actor = Creator /\ req[r].target = Creator
    /\ Busy(r) /\ req[r].op = "delete" => req[r].target = req[r].actor
    /\ At(r, "destroy") => req[r].actor = Creator /\ req[r].target = Creator

\* The capacity check is made apart from the insert, so concurrent joins and
\* invites can pass it together; they exceed MAX_ROOM_PARTICIPANTS by at most the
\* number of requests in flight besides one.
OvershootBounded ==
  Cardinality(Members) <= MAX_ROOM_PARTICIPANTS + Cardinality(Requests) - 1

\* The users in the room and those with a request about to enrol them: the quantity
\* that a count raises by one and that no other step raises.
Arriving == {req[r].target : r \in {x \in Requests : At(x, "enrol")}}

PlacesTaken ==
  Cardinality(Members \union Arriving)
    <= MAX_ROOM_PARTICIPANTS + Cardinality(Requests) - 1

\* "the user cannot rejoin until unbanned" (kickMember's comment): nobody comes
\* to hold a RoomMember row and a RoomBan row of the room at once.
BannedStayOut == Members \intersect banned = {}

\* With one request in flight and no fault, the sequence of calls amounts to one
\* decision on current roles and bans: the one that the request asks for, on the
\* authority of the user who asks.  A kick takes effect when the target's row goes: a
\* ban still to be recorded counts as recorded.
Recording == {req[r].target : r \in {x \in Requests : At(x, "record")}}

Policy == INSTANCE RoomPolicy WITH banned <- banned \union Recording

Decides(r) ==
  Busy(r) /\ Policy!Perform(req[r].op, req[r].actor, req[r].target)

ImplementsPolicy ==
  /\ Policy!Spec
  /\ [][CreateRoom \/ \E r \in Requests : Decides(r)]_<<room, role, banned \union Recording>>

\* The condition of ImplementsPolicy, and why it is enough: nothing changes the tables
\* between the calls of a request, so that what it has read is still so when it writes.
\* OpsAt: the operations that come to a stage.
Serial == (\A r, s \in Requests : r = s) /\ ~Faults

OpsAt(stage) ==
  LET changes == {"addAdmin", "removeAdmin", "promote", "demote"}
  IN CASE stage = "room" -> {"join", "invite", "delete"}
       [] stage = "authorise" -> AllOps \ {"join"}
       [] stage \in {"bans", "already", "count", "enrol"} -> {"join", "invite"}
       [] stage = "quit" -> {"leave"}
       [] stage = "destroy" -> {"delete"}
       [] stage \in {"ban", "unban"} -> {stage}
       [] stage = "target" -> changes \union {"ban", "kick"}
       [] stage = "update" -> changes
       [] OTHER -> {"kick"}

Authorised(stage, op) ==
  /\ op # "join" /\ stage # "authorise"
  /\ op = "invite" => stage # "room"

StillTrue(r) ==
  LET op == req[r].op
      stage == req[r].stage
      actor == req[r].actor
      target == req[r].target
  IN /\ op \in OpsAt(stage) /\ ValidTarget(op, actor, target)
     /\ Authorised(stage, op) => role[actor] \in MayPerform(op)
     /\ op = "join" /\ stage # "room" => room = "public"
     /\ op = "invite" /\ stage # "room" => room = "private"
     /\ stage \in {"already", "count", "enrol"} => target \notin banned
     /\ stage = "count" => role[target] = "none"
     /\ stage = "enrol" /\ role[target] = "none" => HasPlace
     /\ op = "kick" /\ stage \in {"target", "remove", "record"} =>
          req[r].actorRole = role[actor]
     /\ stage \in {"ban", "update", "remove"} =>
          TargetAllowed(op, req[r].actorRole, role[target])
     /\ stage = "record" =>
          role[target] = "none" /\ req[r].actorRole \in isRoomAdminOrOwnerRole

SerialInv ==
  /\ \A r \in Requests : Busy(r) => StillTrue(r)
  /\ Members \intersect (banned \union Recording) = {}
=============================================================================
