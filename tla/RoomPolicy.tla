------------------------------ MODULE RoomPolicy ------------------------------
(***************************************************************************)
(* What the room service promises its callers: every operation is one      *)
(* decision on the current roles and bans, taken and carried out at once.  *)
(* Authority is a matter of rank.  Staff remove those they outrank; the    *)
(* owner and the admins ban; a removal by them is a ban.  Rooms implements *)
(* this specification as long as one request is in flight at a time.       *)
(***************************************************************************)
EXTENDS Naturals, FiniteSets

CONSTANTS Users, Creator, MAX_ROOM_PARTICIPANTS

VARIABLES room, role, banned

vars == <<room, role, banned>>

RankOf == [none |-> 0, member |-> 1, mod |-> 2, admin |-> 3, owner |-> 4]
Rank(u) == RankOf[role[u]]

IsMember(u) == Rank(u) > 0
IsStaff(u) == Rank(u) >= RankOf.mod
Governs(u) == Rank(u) >= RankOf.admin
Owns(u) == role[u] = "owner"

Full == Cardinality({u \in Users : IsMember(u)}) >= MAX_ROOM_PARTICIPANTS

----------------------------------------------------------------------------
\* When an operation is allowed.
MayEnter(u) == ~IsMember(u) /\ u \notin banned /\ ~Full
MayJoin(u) == room = "public" /\ MayEnter(u)
MayInvite(actor, u) == room = "private" /\ IsStaff(actor) /\ MayEnter(u)
MayLeave(u) == IsMember(u) /\ ~Owns(u)

\* Whether a member, and of whatever rank below the owner.
MayBan(actor, target) == Governs(actor) /\ ~Owns(target)
MayKick(actor, target) == IsStaff(actor) /\ IsMember(target) /\ Rank(actor) > Rank(target)
MayAddAdmin(actor, target) == Owns(actor) /\ IsMember(target) /\ ~Owns(target)
MayRegrade(actor, target, from) == Governs(actor) /\ role[target] = from

Allows(op, actor, target) ==
  \/ op = "join" /\ MayJoin(actor)
  \/ op = "invite" /\ MayInvite(actor, target)
  \/ op = "leave" /\ MayLeave(actor)
  \/ op = "delete" /\ Owns(actor)
  \/ op = "ban" /\ MayBan(actor, target)
  \/ op = "unban" /\ Governs(actor)
  \/ op = "kick" /\ MayKick(actor, target)
  \/ op = "addAdmin" /\ MayAddAdmin(actor, target)
  \/ op = "removeAdmin" /\ MayRegrade(actor, target, "admin")
  \/ op = "promote" /\ MayRegrade(actor, target, "member")
  \/ op = "demote" /\ MayRegrade(actor, target, "mod")

----------------------------------------------------------------------------
SetRole(u, r) == role' = [role EXCEPT ![u] = r]

Create ==
  /\ room = "absent"
  /\ room' \in {"public", "private"}
  /\ SetRole(Creator, "owner")
  /\ UNCHANGED banned

Admit(u) == SetRole(u, "member") /\ UNCHANGED <<room, banned>>

Join(u) == MayJoin(u) /\ Admit(u)

Invite(actor, u) == MayInvite(actor, u) /\ Admit(u)

Leave(u) ==
  /\ MayLeave(u)
  /\ SetRole(u, "none")
  /\ UNCHANGED <<room, banned>>

Delete(actor) ==
  /\ Owns(actor)
  /\ room' = "deleted"
  /\ role' = [u \in Users |-> "none"]
  /\ banned' = {}

Ban(actor, target) ==
  /\ MayBan(actor, target)
  /\ SetRole(target, "none")
  /\ banned' = banned \union {target}
  /\ UNCHANGED room

Unban(actor, target) ==
  /\ Governs(actor)
  /\ banned' = banned \ {target}
  /\ UNCHANGED <<room, role>>

Kick(actor, target) ==
  /\ MayKick(actor, target)
  /\ SetRole(target, "none")
  /\ banned' = IF Governs(actor) THEN banned \union {target} ELSE banned
  /\ UNCHANGED room

AddAdmin(actor, target) ==
  /\ MayAddAdmin(actor, target)
  /\ SetRole(target, "admin")
  /\ UNCHANGED <<room, banned>>

\* An admin or a moderator becomes a member again, a member a moderator.
Regrade(actor, target, from, to) ==
  /\ MayRegrade(actor, target, from)
  /\ SetRole(target, to)
  /\ UNCHANGED <<room, banned>>

\* The decision that one operation is, for the one who calls it.
Perform(op, actor, target) ==
  \/ op = "join" /\ Join(actor)
  \/ op = "invite" /\ Invite(actor, target)
  \/ op = "leave" /\ Leave(actor)
  \/ op = "delete" /\ Delete(actor)
  \/ op = "ban" /\ Ban(actor, target)
  \/ op = "unban" /\ Unban(actor, target)
  \/ op = "kick" /\ Kick(actor, target)
  \/ op = "addAdmin" /\ AddAdmin(actor, target)
  \/ op = "removeAdmin" /\ Regrade(actor, target, "admin", "member")
  \/ op = "promote" /\ Regrade(actor, target, "member", "mod")
  \/ op = "demote" /\ Regrade(actor, target, "mod", "member")

Operations == {"join", "invite", "leave", "delete", "ban", "unban", "kick", "addAdmin",
               "removeAdmin", "promote", "demote"}

Init == room = "absent" /\ role = [u \in Users |-> "none"] /\ banned = {}

Next ==
  \/ Create
  \/ \E op \in Operations, actor, target \in Users : Perform(op, actor, target)

Spec == Init /\ [][Next]_vars
=============================================================================
