----------------------------- MODULE RoomsProofs -----------------------------
(***************************************************************************)
(* Theorems about Rooms for every set of users, every number of concurrent *)
(* requests and every capacity.                                            *)
(***************************************************************************)
EXTENDS Rooms, FiniteSetTheorems, TLAPS

----------------------------------------------------------------------------
(* Type correctness *)

LEMMA StagesAreStages ==
  ASSUME NEW op \in AllOps
  PROVE  /\ FirstStage(op) \in Stages
         /\ AfterRoom(op) \in Stages
         /\ AfterAuthorise(op) \in Stages
         /\ NewRole(op) \in Roles
BY DEF FirstStage, AfterRoom, AfterAuthorise, NewRole, Stages, AllOps, Roles

LEMMA TypeInit == Init => TypeOK
BY DEF Init, TypeOK, RoleOrNone, Request, Idle

LEMMA FinishType ==
  ASSUME TypeOK, NEW r \in Requests, Finish(r)
  PROVE  req' \in [Requests -> Request \union {Idle}]
BY DEF TypeOK, Finish

LEMMA ProceedType ==
  ASSUME TypeOK, NEW r \in Requests, Busy(r), NEW s \in Stages, Proceed(r, s)
  PROVE  req' \in [Requests -> Request \union {Idle}]
<1>1. req[r] \in Request
  BY DEF TypeOK, Busy
<1>2. [req[r] EXCEPT !.stage = s] \in Request
  BY <1>1 DEF Request
<1> QED BY <1>2 DEF TypeOK, Proceed

LEMMA RequestAtStage ==
  ASSUME TypeOK, NEW r \in Requests, NEW s \in Stages, At(r, s)
  PROVE  /\ Busy(r)
         /\ req[r] \in Request
         /\ req[r].op \in AllOps
         /\ req[r].actor \in Users
         /\ req[r].target \in Users
<1>1. req[r] # Idle
  BY DEF At, Idle, Stages
<1>2. req[r] \in Request
  BY <1>1 DEF TypeOK
<1> QED BY <1>1, <1>2 DEF Busy, Request

LEMMA TypeStep == TypeOK /\ [Next]_vars => TypeOK'
<1> SUFFICES ASSUME TypeOK, [Next]_vars PROVE TypeOK'
  OBVIOUS
<1> USE DEF tables
<1>1. CASE CreateRoom
  BY <1>1, CreatorAssumption DEF CreateRoom, TypeOK, RoleOrNone, Roles
<1>2. ASSUME NEW r \in Requests, ReadRoom(r) PROVE TypeOK'
  <2>1. Busy(r) /\ AfterRoom(req[r].op) \in Stages
    BY <1>2, RequestAtStage, StagesAreStages DEF ReadRoom, Stages
  <2> QED BY <1>2, <2>1, FinishType, ProceedType DEF ReadRoom, TypeOK
<1>3. ASSUME NEW r \in Requests, Authorise(r) PROVE TypeOK'
  <2>1. Busy(r) /\ AfterAuthorise(req[r].op) \in Stages
    BY <1>3, RequestAtStage, StagesAreStages DEF Authorise, Stages
  <2> QED BY <1>3, <2>1, FinishType, ProceedType DEF Authorise, TypeOK
<1>4. ASSUME NEW r \in Requests, ReadBan(r) PROVE TypeOK'
  <2>1. Busy(r) /\ "already" \in Stages
    BY <1>4, RequestAtStage DEF ReadBan, Stages
  <2> QED BY <1>4, <2>1, FinishType, ProceedType DEF ReadBan, TypeOK
<1>5. ASSUME NEW r \in Requests, ReadAlready(r) PROVE TypeOK'
  <2>1. Busy(r) /\ "count" \in Stages /\ "enrol" \in Stages
    BY <1>5, RequestAtStage DEF ReadAlready, Stages
  <2> QED BY <1>5, <2>1, FinishType, ProceedType DEF ReadAlready, TypeOK
<1>6. ASSUME NEW r \in Requests, Count(r) PROVE TypeOK'
  <2>1. Busy(r) /\ "enrol" \in Stages
    BY <1>6, RequestAtStage DEF Count, Stages
  <2> QED BY <1>6, <2>1, FinishType, ProceedType DEF Count, TypeOK
<1>7. ASSUME NEW r \in Requests, Enrol(r) PROVE TypeOK'
  BY <1>7, FinishType DEF Enrol, TypeOK, RoleOrNone, Roles
<1>8. ASSUME NEW r \in Requests, Quit(r) PROVE TypeOK'
  BY <1>8, FinishType DEF Quit, TypeOK, RoleOrNone
<1>9. ASSUME NEW r \in Requests, Destroy(r) PROVE TypeOK'
  BY <1>9, FinishType DEF Destroy, TypeOK, RoleOrNone
<1>10. ASSUME NEW r \in Requests, ReadActor(r) PROVE TypeOK'
  <2>1. req[r] \in Request
    BY <1>10, RequestAtStage DEF ReadActor, Stages
  <2>2. role[req[r].actor] \in RoleOrNone
    BY <2>1 DEF TypeOK, Request
  <2>3. [req[r] EXCEPT !.actorRole = role[req[r].actor], !.stage = "target"] \in Request
    BY <2>1, <2>2 DEF Request, Stages
  <2> QED BY <1>10, <2>3 DEF ReadActor, TypeOK
<1>11. ASSUME NEW r \in Requests, ReadTarget(r) PROVE TypeOK'
  <2> DEFINE seen == role[req[r].target]
  <2>1. Busy(r) /\ req[r] \in Request
    BY <1>11, RequestAtStage DEF ReadTarget, Stages
  <2>2. seen \in RoleOrNone
    BY <2>1 DEF TypeOK, Request
  <2>3. [req[r] EXCEPT !.targetRole = seen, !.stage = "remove"] \in Request
    BY <2>1, <2>2 DEF Request, Stages
  <2>4. "ban" \in Stages /\ "update" \in Stages
    BY DEF Stages
  <2>5. \/ Finish(r)
        \/ req' = [req EXCEPT ![r].targetRole = seen, ![r].stage = "remove"]
        \/ Proceed(r, "ban")
        \/ Proceed(r, "update")
    BY <1>11 DEF ReadTarget
  <2>6. req' \in [Requests -> Request \union {Idle}]
    <3>1. CASE req' = [req EXCEPT ![r].targetRole = seen, ![r].stage = "remove"]
      BY <3>1, <2>3 DEF TypeOK
    <3> QED BY <3>1, <2>1, <2>4, <2>5, FinishType, ProceedType
  <2> QED BY <1>11, <2>6 DEF ReadTarget, TypeOK
<1>12. ASSUME NEW r \in Requests, Ban(r) PROVE TypeOK'
  <2>1. req[r].target \in Users
    BY <1>12, RequestAtStage DEF Ban, Stages
  <2> QED BY <1>12, <2>1, FinishType DEF Ban, TypeOK, RoleOrNone
<1>13. ASSUME NEW r \in Requests, Unban(r) PROVE TypeOK'
  BY <1>13, FinishType DEF Unban, TypeOK
<1>14. ASSUME NEW r \in Requests, UpdateRole(r) PROVE TypeOK'
  <2>1. NewRole(req[r].op) \in RoleOrNone
    BY <1>14, RequestAtStage, StagesAreStages DEF UpdateRole, Stages, RoleOrNone
  <2> QED BY <1>14, <2>1, FinishType DEF UpdateRole, TypeOK
<1>15. ASSUME NEW r \in Requests, Remove(r) PROVE TypeOK'
  <2>1. Busy(r) /\ "record" \in Stages
    BY <1>15, RequestAtStage DEF Remove, Stages
  <2>2. req' \in [Requests -> Request \union {Idle}]
    BY <1>15, <2>1, FinishType, ProceedType DEF Remove
  <2> QED BY <1>15, <2>2 DEF Remove, TypeOK, RoleOrNone
<1>16. ASSUME NEW r \in Requests, RecordBan(r) PROVE TypeOK'
  <2>1. req[r].target \in Users
    BY <1>16, RequestAtStage DEF RecordBan, Stages
  <2> QED BY <1>16, <2>1, FinishType DEF RecordBan, TypeOK
<1>17. ASSUME NEW r \in Requests, Abort(r) PROVE TypeOK'
  BY <1>17, FinishType DEF Abort, TypeOK
<1>18. ASSUME NEW r \in Requests, NEW op \in Ops, NEW actor \in Users,
              NEW target \in Users, Start(r, op, actor, target)
       PROVE TypeOK'
  <2>1. [stage |-> FirstStage(op), op |-> op, actor |-> actor, target |-> target,
         actorRole |-> "none", targetRole |-> "none"] \in Request
    BY OpsAssumption, StagesAreStages DEF Request, RoleOrNone
  <2> QED BY <1>18, <2>1 DEF Start, TypeOK
<1>19. CASE UNCHANGED vars
  BY <1>19 DEF vars, TypeOK
<1> QED
  BY <1>1, <1>2, <1>3, <1>4, <1>5, <1>6, <1>7, <1>8, <1>9, <1>10, <1>11, <1>12,
     <1>13, <1>14, <1>15, <1>16, <1>17, <1>18, <1>19 DEF Next, Step

\* TypeOK holds in every reachable state.
THEOREM TypeCorrect == Spec => []TypeOK
BY TypeInit, TypeStep, PTL DEF Spec

----------------------------------------------------------------------------
(* The owner's place *)

OwnerInv == TypeOK /\ OwnerAnchored /\ AimedAwayFromOwner

LEMMA OwnerInit == Init => OwnerInv
BY TypeInit DEF Init, OwnerInv, OwnerAnchored, AimedAwayFromOwner, Members, Live,
   RoomType, At, Busy, Idle

\* A request that has just finished is aimed at nobody.
LEMMA FinishAims ==
  ASSUME OwnerInv, NEW r \in Requests, Finish(r), room' = room
  PROVE  AimedAwayFromOwner'
BY DEF OwnerInv, TypeOK, AimedAwayFromOwner, Finish, At, Busy, Idle

\* A request that proceeds to a stage that does not write is not aimed either.
LEMMA ProceedAims ==
  ASSUME OwnerInv, NEW r \in Requests, Busy(r), room' = room,
         NEW s \in Stages \ {"quit", "ban", "update", "remove", "record"},
         Proceed(r, s)
  PROVE  AimedAwayFromOwner'
<1>1. req[r] \in Request /\ req'[r].stage = s /\ \A x \in Requests \ {r} : req'[x] = req[x]
  BY DEF OwnerInv, TypeOK, Busy, Request, Proceed
<1> QED BY <1>1 DEF OwnerInv, AimedAwayFromOwner, At, Busy

\* A step that leaves the tables alone leaves the owner in place.
LEMMA TablesUnchanged ==
  ASSUME OwnerInv, UNCHANGED tables
  PROVE  OwnerAnchored'
BY DEF OwnerInv, OwnerAnchored, tables, Members, Live

LEMMA OwnerStep == OwnerInv /\ [Next]_vars => OwnerInv'
<1> SUFFICES ASSUME OwnerInv, [Next]_vars PROVE OwnerAnchored' /\ AimedAwayFromOwner'
  BY TypeStep DEF OwnerInv
<1>a. TypeOK
  BY DEF OwnerInv
<1>1. CASE CreateRoom
  <2>1. Members = {} /\ banned = {} /\ \A r \in Requests : ~Busy(r)
    BY <1>1 DEF CreateRoom, OwnerInv, OwnerAnchored, AimedAwayFromOwner, Live, RoomType
  <2>2. OwnerAnchored'
    BY <1>1, <1>a, <2>1, CreatorAssumption
       DEF CreateRoom, OwnerAnchored, Members, Live, TypeOK
  <2>3. AimedAwayFromOwner'
    BY <1>1, <2>1 DEF CreateRoom, AimedAwayFromOwner, Busy, At, Idle
  <2> QED BY <2>2, <2>3
<1>2. ASSUME NEW r \in Requests, ReadRoom(r)
      PROVE  OwnerAnchored' /\ AimedAwayFromOwner'
  <2>1. Busy(r) /\ AfterRoom(req[r].op) \in {"bans", "authorise", "destroy"}
    BY <1>2, <1>a, RequestAtStage DEF ReadRoom, Stages, AfterRoom
  <2>2. AfterRoom(req[r].op) \in Stages \ {"quit", "ban", "update", "remove", "record"}
    BY <2>1 DEF Stages
  <2> QED BY <1>2, <2>1, <2>2, FinishAims, ProceedAims, TablesUnchanged
             DEF ReadRoom, tables
<1>3. ASSUME NEW r \in Requests, Authorise(r)
      PROVE  OwnerAnchored' /\ AimedAwayFromOwner'
  <2>1. Busy(r) /\ req[r] \in Request /\ OwnerAnchored'
    BY <1>3, <1>a, RequestAtStage, TablesUnchanged DEF Authorise, Stages
  <2>2. CASE Finish(r)
    BY <1>3, <2>1, <2>2, FinishAims DEF Authorise, tables
  <2>3. CASE req[r].op # "leave" /\ Proceed(r, AfterAuthorise(req[r].op))
    <3>1. AfterAuthorise(req[r].op)
            \in Stages \ {"quit", "ban", "update", "remove", "record"}
      BY <2>3 DEF AfterAuthorise, Stages
    <3> QED BY <1>3, <2>1, <2>3, <3>1, ProceedAims DEF Authorise, tables
  <2>4. CASE /\ req[r].op = "leave"
             /\ role[req[r].actor] \in MayPerform(req[r].op)
             /\ Proceed(r, AfterAuthorise(req[r].op))
    <3>1. role[req[r].actor] \in Roles \ {"owner"} /\ Proceed(r, "quit")
      BY <2>4 DEF MayPerform, AfterAuthorise
    <3>2. req[r].actor # Creator
      BY <2>1, <3>1, CreatorAssumption
         DEF OwnerInv, OwnerAnchored, Members, Roles, Request
    <3>3. req'[r] = [req[r] EXCEPT !.stage = "quit"]
          /\ \A x \in Requests \ {r} : req'[x] = req[x]
      BY <1>a, <3>1 DEF Proceed, TypeOK
    <3>4. AimedAwayFromOwner'
      BY <1>3, <2>1, <3>2, <3>3
         DEF Authorise, tables, OwnerInv, AimedAwayFromOwner, At, Busy, Request
    <3> QED BY <2>1, <3>4
  <2> QED BY <1>3, <2>2, <2>3, <2>4 DEF Authorise
<1>4. ASSUME NEW r \in Requests, ReadBan(r)
      PROVE  OwnerAnchored' /\ AimedAwayFromOwner'
  <2>1. Busy(r) /\ "already" \in Stages \ {"quit", "ban", "update", "remove", "record"}
    BY <1>4, <1>a, RequestAtStage DEF ReadBan, Stages
  <2> QED BY <1>4, <2>1, FinishAims, ProceedAims, TablesUnchanged DEF ReadBan, tables
<1>5. ASSUME NEW r \in Requests, ReadAlready(r)
      PROVE  OwnerAnchored' /\ AimedAwayFromOwner'
  <2>1. /\ Busy(r)
        /\ {"count", "enrol"} \subseteq
             Stages \ {"quit", "ban", "update", "remove", "record"}
    BY <1>5, <1>a, RequestAtStage DEF ReadAlready, Stages
  <2> QED BY <1>5, <2>1, FinishAims, ProceedAims, TablesUnchanged
             DEF ReadAlready, tables
<1>6. ASSUME NEW r \in Requests, Count(r)
      PROVE  OwnerAnchored' /\ AimedAwayFromOwner'
  <2>1. Busy(r) /\ "enrol" \in Stages \ {"quit", "ban", "update", "remove", "record"}
    BY <1>6, <1>a, RequestAtStage DEF Count, Stages
  <2> QED BY <1>6, <2>1, FinishAims, ProceedAims, TablesUnchanged DEF Count, tables
<1>7. ASSUME NEW r \in Requests, Enrol(r)
      PROVE  OwnerAnchored' /\ AimedAwayFromOwner'
  <2>1. OwnerAnchored'
    BY <1>7, <1>a, CreatorAssumption DEF Enrol, OwnerInv, OwnerAnchored, Members, Live, TypeOK
  <2> QED BY <1>7, <2>1, FinishAims DEF Enrol
<1>8. ASSUME NEW r \in Requests, Quit(r)
      PROVE  OwnerAnchored' /\ AimedAwayFromOwner'
  <2>1. req[r].actor # Creator
    BY <1>8 DEF Quit, OwnerInv, AimedAwayFromOwner
  <2>2. OwnerAnchored'
    BY <1>8, <1>a, <2>1 DEF Quit, OwnerInv, OwnerAnchored, Members, Live, TypeOK
  <2> QED BY <1>8, <2>2, FinishAims DEF Quit
<1>9. ASSUME NEW r \in Requests, Destroy(r)
      PROVE  OwnerAnchored' /\ AimedAwayFromOwner'
  <2>1. OwnerAnchored'
    BY <1>9 DEF Destroy, OwnerAnchored, Members, Live, RoomType
  <2>2. AimedAwayFromOwner'
    BY <1>9, <1>a DEF Destroy, Finish, TypeOK, OwnerInv, AimedAwayFromOwner, At, Busy, Idle
  <2> QED BY <2>1, <2>2
<1>10. ASSUME NEW r \in Requests, ReadActor(r)
       PROVE  OwnerAnchored' /\ AimedAwayFromOwner'
  <2>1. Busy(r) /\ req[r] \in Request
    BY <1>10, <1>a, RequestAtStage DEF ReadActor, Stages
  <2>2. /\ req'[r].stage = "target"
        /\ \A x \in Requests \ {r} : req'[x] = req[x]
    BY <1>10, <1>a, <2>1 DEF ReadActor, TypeOK, Request
  <2>3. AimedAwayFromOwner'
    BY <1>10, <2>1, <2>2 DEF ReadActor, tables, OwnerInv, AimedAwayFromOwner, At, Busy
  <2> QED BY <1>10, <2>3, TablesUnchanged DEF ReadActor
<1>11. ASSUME NEW r \in Requests, ReadTarget(r)
       PROVE  OwnerAnchored' /\ AimedAwayFromOwner'
  <2>1. Busy(r) /\ req[r] \in Request /\ OwnerAnchored'
    BY <1>11, <1>a, RequestAtStage, TablesUnchanged DEF ReadTarget, Stages
  <2>2. CASE Finish(r)
    BY <1>11, <2>1, <2>2, FinishAims DEF ReadTarget, tables
  <2>3. CASE ~Finish(r)
    <3>1. TargetAllowed(req[r].op, req[r].actorRole, role[req[r].target])
      BY <1>11, <2>3 DEF ReadTarget
    <3>2. role[req[r].target] # "owner"
      BY <3>1 DEF TargetAllowed, KickAllowed
    <3>3. Live => req[r].target # Creator
      BY <2>1, <3>2, CreatorAssumption DEF OwnerInv, OwnerAnchored
    <3>4. req[r].target # Creator \/ room = "deleted"
      BY <1>a, <2>1, <3>3 DEF OwnerInv, AimedAwayFromOwner, TypeOK, Live
    <3>5. /\ req'[r].stage \in {"remove", "ban", "update"}
          /\ req'[r].target = req[r].target
          /\ \A x \in Requests \ {r} : req'[x] = req[x]
      BY <1>11, <1>a, <2>1, <2>3 DEF ReadTarget, Proceed, TypeOK, Request
    <3>6. AimedAwayFromOwner'
      BY <1>11, <2>1, <3>4, <3>5
         DEF ReadTarget, tables, OwnerInv, AimedAwayFromOwner, At, Busy
    <3> QED BY <2>1, <3>6
  <2> QED BY <2>2, <2>3
<1>12. ASSUME NEW r \in Requests, Ban(r)
       PROVE  OwnerAnchored' /\ AimedAwayFromOwner'
  <2>1. Live => req[r].target # Creator
    BY <1>12 DEF Ban, OwnerInv, AimedAwayFromOwner, At, Live, RoomType
  <2>2. OwnerAnchored'
    BY <1>12, <1>a, <2>1 DEF Ban, OwnerInv, OwnerAnchored, Members, Live, TypeOK
  <2> QED BY <1>12, <2>2, FinishAims DEF Ban
<1>13. ASSUME NEW r \in Requests, Unban(r)
       PROVE  OwnerAnchored' /\ AimedAwayFromOwner'
  <2>1. OwnerAnchored'
    BY <1>13 DEF Unban, OwnerInv, OwnerAnchored, Members, Live
  <2> QED BY <1>13, <2>1, FinishAims DEF Unban
<1>14. ASSUME NEW r \in Requests, UpdateRole(r)
       PROVE  OwnerAnchored' /\ AimedAwayFromOwner'
  <2>1. /\ req[r].target # Creator \/ room = "deleted"
        /\ NewRole(req[r].op) # "owner"
    BY <1>14 DEF UpdateRole, OwnerInv, AimedAwayFromOwner, At, NewRole
  <2>2. ASSUME Live PROVE OwnerAnchored'
    <3>1. req[r].target # Creator
      BY <2>1, <2>2 DEF Live, RoomType
    <3> QED BY <1>14, <1>a, <2>1, <2>2, <3>1
               DEF UpdateRole, OwnerInv, OwnerAnchored, Live, TypeOK
  <2>3. ASSUME ~Live PROVE OwnerAnchored'
    <3>1. role' = role
      BY <1>14, <1>a, <2>3, RequestAtStage
         DEF UpdateRole, OwnerInv, OwnerAnchored, Members, Stages
    <3> QED BY <1>14, <2>3, <3>1, TablesUnchanged DEF UpdateRole, tables
  <2> QED BY <1>14, <2>2, <2>3, FinishAims DEF UpdateRole
<1>15. ASSUME NEW r \in Requests, Remove(r)
       PROVE  OwnerAnchored' /\ AimedAwayFromOwner'
  <2>1. Busy(r) /\ req[r] \in Request
    BY <1>15, <1>a, RequestAtStage DEF Remove, Stages
  <2>2. req[r].target # Creator \/ room = "deleted"
    BY <1>15 DEF Remove, OwnerInv, AimedAwayFromOwner, At
  <2>3. OwnerAnchored'
    BY <1>15, <1>a, <2>2 DEF Remove, OwnerInv, OwnerAnchored, Members, Live, RoomType, TypeOK
  <2>4. CASE Finish(r)
    BY <1>15, <2>3, <2>4, FinishAims DEF Remove
  <2>5. CASE Proceed(r, "record")
    <3>1. /\ req'[r].target = req[r].target
          /\ req'[r].stage = "record"
          /\ \A x \in Requests \ {r} : req'[x] = req[x]
      BY <1>a, <2>1, <2>5 DEF Proceed, TypeOK, Request
    <3>2. AimedAwayFromOwner'
      BY <1>15, <2>1, <2>2, <3>1 DEF Remove, OwnerInv, AimedAwayFromOwner, At, Busy
    <3> QED BY <2>3, <3>2
  <2> QED BY <1>15, <2>4, <2>5 DEF Remove
<1>16. ASSUME NEW r \in Requests, RecordBan(r)
       PROVE  OwnerAnchored' /\ AimedAwayFromOwner'
  <2>1. Live => req[r].target # Creator
    BY <1>16 DEF RecordBan, OwnerInv, AimedAwayFromOwner, At, Live, RoomType
  <2>2. OwnerAnchored'
    BY <1>16, <2>1 DEF RecordBan, OwnerInv, OwnerAnchored, Members, Live
  <2> QED BY <1>16, <2>2, FinishAims DEF RecordBan
<1>17. ASSUME NEW r \in Requests, Abort(r)
       PROVE  OwnerAnchored' /\ AimedAwayFromOwner'
  BY <1>17, FinishAims, TablesUnchanged DEF Abort, tables
<1>18. ASSUME NEW r \in Requests, NEW op \in Ops, NEW actor \in Users,
              NEW target \in Users, Start(r, op, actor, target)
       PROVE  OwnerAnchored' /\ AimedAwayFromOwner'
  <2>1. /\ req'[r].stage \in {"room", "authorise"}
        /\ \A x \in Requests \ {r} : req'[x] = req[x]
    BY <1>18, <1>a DEF Start, TypeOK, FirstStage
  <2>2. AimedAwayFromOwner'
    BY <1>18, <2>1 DEF Start, tables, OwnerInv, AimedAwayFromOwner, At, Busy
  <2> QED BY <1>18, <2>2, TablesUnchanged DEF Start
<1>19. CASE UNCHANGED vars
  BY <1>19, TablesUnchanged DEF vars, tables, OwnerInv, AimedAwayFromOwner, At, Busy
<1> QED
  BY <1>1, <1>2, <1>3, <1>4, <1>5, <1>6, <1>7, <1>8, <1>9, <1>10, <1>11, <1>12,
     <1>13, <1>14, <1>15, <1>16, <1>17, <1>18, <1>19 DEF Next, Step

LEMMA OwnerInvariant == Spec => []OwnerInv
BY OwnerInit, OwnerStep, PTL DEF Spec

\* However requests interleave, a live room keeps its creator as its one owner,
\* unbanned, and an absent or deleted room keeps no membership and no ban.
THEOREM OwnerStaysAnchored == Spec => []OwnerAnchored
<1>1. OwnerInv => OwnerAnchored
  BY DEF OwnerInv
<1> QED BY <1>1, OwnerInvariant, PTL

----------------------------------------------------------------------------
(* What only the owner does *)

LEMMA OwnersRequestsInit == Init => OwnersRequests
BY DEF Init, OwnersRequests, At, Busy, Idle

\* A request keeps its operation, caller and target from stage to stage.
LEMMA SameRequest ==
  ASSUME TypeOK, NEW r \in Requests, Busy(r), NEW s \in Stages, Proceed(r, s)
  PROVE  /\ req'[r] \in Request
         /\ req'[r].stage = s
         /\ req'[r].op = req[r].op
         /\ req'[r].actor = req[r].actor
         /\ req'[r].target = req[r].target
         /\ \A x \in Requests \ {r} : req'[x] = req[x]
BY DEF TypeOK, Busy, Proceed, Request

LEMMA FinishOwners ==
  ASSUME TypeOK, OwnersRequests, NEW r \in Requests, Finish(r)
  PROVE  OwnersRequests'
BY DEF TypeOK, OwnersRequests, Finish, At, Busy, Idle

\* A stage that carries no authority of the owner may be entered freely.
LEMMA ProceedOwners ==
  ASSUME TypeOK, OwnersRequests, NEW r \in Requests, Busy(r),
         NEW s \in Stages \ {"actor", "target", "update", "room", "destroy"}, Proceed(r, s)
  PROVE  OwnersRequests'
BY SameRequest DEF OwnersRequests, At, Busy

LEMMA OwnersRequestsStep == OwnerInv /\ OwnersRequests /\ [Next]_vars => OwnersRequests'
<1> SUFFICES ASSUME OwnerInv, OwnersRequests, [Next]_vars PROVE OwnersRequests'
  OBVIOUS
<1>a. TypeOK
  BY DEF OwnerInv
<1>1. CASE CreateRoom
  BY <1>1 DEF CreateRoom, OwnersRequests, At, Busy
<1>2. ASSUME NEW r \in Requests, ReadRoom(r) PROVE OwnersRequests'
  <2>1. Busy(r) /\ AfterRoom(req[r].op) \in Stages
    BY <1>2, <1>a, RequestAtStage, StagesAreStages DEF ReadRoom, Stages
  <2>2. CASE Proceed(r, AfterRoom(req[r].op))
    <3>1. /\ AfterRoom(req[r].op) \notin {"actor", "target", "update", "room"}
          /\ AfterRoom(req[r].op) = "destroy" =>
               req[r].actor = Creator /\ req[r].target = Creator
      BY <1>2 DEF ReadRoom, AfterRoom, OwnersRequests, At
    <3> QED BY <1>a, <2>1, <2>2, <3>1, SameRequest DEF OwnersRequests, At, Busy
  <2> QED BY <1>2, <1>a, <2>2, FinishOwners DEF ReadRoom
<1>3. ASSUME NEW r \in Requests, Authorise(r) PROVE OwnersRequests'
  <2>1. Busy(r) /\ req[r] \in Request /\ AfterAuthorise(req[r].op) \in Stages
    BY <1>3, <1>a, RequestAtStage, StagesAreStages DEF Authorise, Stages
  <2>2. CASE /\ role[req[r].actor] \in MayPerform(req[r].op)
             /\ Proceed(r, AfterAuthorise(req[r].op))
    <3>1. req[r].op \in {"addAdmin", "delete"} => req[r].actor = Creator
      BY <2>1, <2>2, CreatorAssumption
         DEF MayPerform, OwnerInv, OwnerAnchored, Members, Request
    <3>2. /\ AfterAuthorise(req[r].op) \notin {"update", "destroy"}
          /\ AfterAuthorise(req[r].op) = "room" => req[r].op = "delete"
      BY DEF AfterAuthorise
    <3>3. req[r].op = "delete" => req[r].target = req[r].actor
      BY <2>1 DEF OwnersRequests
    <3> QED BY <1>a, <2>1, <2>2, <3>1, <3>2, <3>3, SameRequest
               DEF OwnersRequests, At, Busy
  <2> QED BY <1>3, <1>a, <2>2, FinishOwners DEF Authorise
<1>4. ASSUME NEW r \in Requests, ReadBan(r) PROVE OwnersRequests'
  <2>1. Busy(r) /\ "already" \in Stages \ {"actor", "target", "update", "room", "destroy"}
    BY <1>4, <1>a, RequestAtStage DEF ReadBan, Stages
  <2> QED BY <1>4, <1>a, <2>1, FinishOwners, ProceedOwners DEF ReadBan
<1>5. ASSUME NEW r \in Requests, ReadAlready(r) PROVE OwnersRequests'
  <2>1. /\ Busy(r)
        /\ {"count", "enrol"} \subseteq Stages \ {"actor", "target", "update", "room", "destroy"}
    BY <1>5, <1>a, RequestAtStage DEF ReadAlready, Stages
  <2> QED BY <1>5, <1>a, <2>1, FinishOwners, ProceedOwners DEF ReadAlready
<1>6. ASSUME NEW r \in Requests, Count(r) PROVE OwnersRequests'
  <2>1. Busy(r) /\ "enrol" \in Stages \ {"actor", "target", "update", "room", "destroy"}
    BY <1>6, <1>a, RequestAtStage DEF Count, Stages
  <2> QED BY <1>6, <1>a, <2>1, FinishOwners, ProceedOwners DEF Count
<1>7. ASSUME NEW r \in Requests, ReadActor(r) PROVE OwnersRequests'
  <2>1. Busy(r) /\ req[r] \in Request
    BY <1>7, <1>a, RequestAtStage DEF ReadActor, Stages
  <2>2. /\ req'[r].stage = "target"
        /\ req'[r].op = req[r].op
        /\ req'[r].actor = req[r].actor
        /\ req'[r].target = req[r].target
        /\ \A x \in Requests \ {r} : req'[x] = req[x]
    BY <1>7, <1>a, <2>1 DEF ReadActor, TypeOK, Request
  <2>3. /\ req[r].op = "addAdmin" => req[r].actor = Creator
        /\ req[r].op = "delete" => req[r].target = req[r].actor
    BY <1>7, <2>1 DEF ReadActor, OwnersRequests, At
  <2>4. ASSUME NEW x \in Requests
        PROVE  /\ req'[x].op = req[x].op /\ req'[x].actor = req[x].actor
               /\ req'[x].target = req[x].target
               /\ req'[x] = req[x] \/ x = r
    BY <2>2
  <2> QED BY <2>1, <2>2, <2>3, <2>4 DEF OwnersRequests, At, Busy
<1>8. ASSUME NEW r \in Requests, ReadTarget(r) PROVE OwnersRequests'
  <2>1. Busy(r) /\ req[r] \in Request
    BY <1>8, <1>a, RequestAtStage DEF ReadTarget, Stages
  <2>2. CASE Finish(r)
    BY <1>a, <2>2, FinishOwners
  <2>3. CASE ~Finish(r)
    <3>1. /\ req'[r].stage \in {"remove", "ban", "update"}
          /\ req'[r].op = req[r].op
          /\ req'[r].actor = req[r].actor
          /\ req'[r].target = req[r].target
          /\ \A x \in Requests \ {r} : req'[x] = req[x]
      BY <1>8, <1>a, <2>1, <2>3 DEF ReadTarget, Proceed, TypeOK, Request
    <3>2. req[r].op = "addAdmin" => req[r].actor = Creator
      BY <1>8 DEF ReadTarget, OwnersRequests, At
    <3> QED BY <2>1, <3>1, <3>2 DEF OwnersRequests, At, Busy
  <2> QED BY <2>2, <2>3
<1>9. ASSUME NEW r \in Requests,
             \/ Enrol(r) \/ Quit(r) \/ Destroy(r) \/ Ban(r) \/ Unban(r)
             \/ UpdateRole(r) \/ RecordBan(r) \/ Abort(r)
      PROVE  OwnersRequests'
  <2>1. Finish(r)
    BY <1>9 DEF Enrol, Quit, Destroy, Ban, Unban, UpdateRole, RecordBan, Abort
  <2> QED BY <1>a, <2>1, FinishOwners
<1>10. ASSUME NEW r \in Requests, Remove(r) PROVE OwnersRequests'
  <2>1. /\ Busy(r)
        /\ "record" \in Stages \ {"actor", "target", "update", "room", "destroy"}
    BY <1>10, <1>a, RequestAtStage DEF Remove, Stages
  <2> QED BY <1>10, <1>a, <2>1, FinishOwners, ProceedOwners DEF Remove
<1>11. ASSUME NEW r \in Requests, NEW op \in Ops, NEW actor \in Users,
              NEW target \in Users, Start(r, op, actor, target)
       PROVE  OwnersRequests'
  <2>1. /\ req'[r].op = op /\ req'[r].actor = actor /\ req'[r].target = target
        /\ req'[r].stage \in {"room", "authorise"}
        /\ req'[r].stage = "room" => op \in {"join", "invite"}
        /\ \A x \in Requests \ {r} : req'[x] = req[x]
    BY <1>11, <1>a DEF Start, TypeOK, FirstStage
  <2>2. op = "delete" => target = actor
    BY <1>11 DEF Start, ValidTarget
  <2> QED BY <2>1, <2>2 DEF OwnersRequests, At, Busy
<1>12. CASE UNCHANGED vars
  BY <1>12 DEF vars, OwnersRequests, At, Busy
<1> QED
  BY <1>1, <1>2, <1>3, <1>4, <1>5, <1>6, <1>7, <1>8, <1>9, <1>10, <1>11, <1>12
     DEF Next, Step

LEMMA OwnersRequestsInvariant == Spec => []OwnersRequests
BY OwnerInvariant, OwnersRequestsInit, OwnersRequestsStep, PTL DEF Spec

\* Admins are made, and the room is deleted, by requests of the creator alone,
\* although the check on the caller is made two calls before the write.
THEOREM OwnerPowersHold == Spec => OwnerPowers
<1> DEFINE ByCreatorFor(u) == \E r \in Requests :
              /\ Busy(r) /\ ~Busy(r)'
              /\ req[r].actor = Creator /\ req[r].target = u
           Powers == /\ \A u \in Users :
                          role[u] # "admin" /\ role'[u] = "admin" => ByCreatorFor(u)
                     /\ Live /\ ~Live' => ByCreatorFor(Creator)
<1>1. OwnerInv /\ OwnersRequests /\ [Next]_vars => [Powers]_vars
  <2> SUFFICES ASSUME OwnerInv, OwnersRequests, Next PROVE Powers
    OBVIOUS
  <2>a. TypeOK
    BY DEF OwnerInv
  <2>1. CASE CreateRoom
    BY <2>1, <2>a DEF CreateRoom, TypeOK, Live
  <2>2. ASSUME NEW r \in Requests, UpdateRole(r) PROVE Powers
    <3>1. Busy(r) /\ ~Busy(r)'
      BY <2>2, <2>a, RequestAtStage DEF UpdateRole, Finish, TypeOK, Busy, Stages
    <3>2. ASSUME NEW u \in Users, role[u] # "admin", role'[u] = "admin"
          PROVE  req[r].actor = Creator /\ req[r].target = u
      <4>1. req[r].target = u /\ NewRole(req[r].op) = "admin"
        BY <2>2, <2>a, <3>2 DEF UpdateRole, TypeOK
      <4>2. req[r].op = "addAdmin"
        BY <4>1 DEF NewRole
      <4> QED BY <2>2, <4>1, <4>2 DEF UpdateRole, OwnersRequests, At
    <3> QED BY <2>2, <3>1, <3>2 DEF UpdateRole, Live
  <2>3. ASSUME NEW r \in Requests, Destroy(r) PROVE Powers
    <3>1. Busy(r) /\ ~Busy(r)'
      BY <2>3, <2>a, RequestAtStage DEF Destroy, Finish, TypeOK, Busy, Stages
    <3>2. req[r].actor = Creator /\ req[r].target = Creator
      BY <2>3 DEF Destroy, OwnersRequests
    <3> QED BY <2>3, <3>1, <3>2 DEF Destroy
  <2>4. ASSUME NEW r \in Requests,
               \/ ReadRoom(r) \/ Authorise(r) \/ ReadBan(r) \/ ReadAlready(r)
               \/ Count(r) \/ ReadActor(r) \/ ReadTarget(r) \/ Unban(r)
               \/ RecordBan(r) \/ Abort(r)
               \/ \E op \in Ops, actor, target \in Users : Start(r, op, actor, target)
        PROVE  Powers
    BY <2>4 DEF ReadRoom, Authorise, ReadBan, ReadAlready, Count, ReadActor,
       ReadTarget, Unban, RecordBan, Abort, Start, tables, Live
  <2>5. ASSUME NEW r \in Requests, Enrol(r) \/ Quit(r) \/ Ban(r) \/ Remove(r)
        PROVE  Powers
    BY <2>5, <2>a DEF Enrol, Quit, Ban, Remove, TypeOK, Live
  <2> QED BY <2>1, <2>2, <2>3, <2>4, <2>5 DEF Next, Step
<1> QED BY <1>1, OwnerInvariant, OwnersRequestsInvariant, PTL
        DEF Spec, OwnerPowers

----------------------------------------------------------------------------
(* Capacity *)

\* Distinct requests may name the same user, so the users some requests name are
\* at most as many as the request slots.
LEMMA TargetsBound ==
  ASSUME NEW q, NEW E \in SUBSET Requests
  PROVE  LET T == {q[x].target : x \in E}
         IN  /\ IsFiniteSet(T)
             /\ Cardinality(T) <= Cardinality(Requests)
             /\ Cardinality(T) \in Nat
<1> DEFINE T == {q[x].target : x \in E}
           f == [x \in E |-> q[x].target]
<1>1. f \in Surjection(E, T)
  BY DEF Surjection
<1>2. IsFiniteSet(E) /\ Cardinality(E) <= Cardinality(Requests)
  BY RequestsAssumption, FS_Subset
<1>3. Cardinality(E) \in Nat /\ Cardinality(Requests) \in Nat
  BY <1>2, RequestsAssumption, FS_CardinalityType
<1> HIDE DEF T, f
<1>4. IsFiniteSet(T) /\ Cardinality(T) <= Cardinality(E)
  BY <1>1, <1>2, FS_Surjection
<1>5. Cardinality(T) \in Nat
  BY <1>4, FS_CardinalityType
<1>6. /\ IsFiniteSet(T)
      /\ Cardinality(T) <= Cardinality(Requests)
      /\ Cardinality(T) \in Nat
  BY <1>2, <1>3, <1>4, <1>5
<1> QED BY <1>6 DEF T

LEMMA ArrivingBound ==
  /\ IsFiniteSet(Arriving)
  /\ Cardinality(Arriving) <= Cardinality(Requests)
  /\ Cardinality(Arriving) \in Nat
<1>1. {x \in Requests : At(x, "enrol")} \in SUBSET Requests
  OBVIOUS
<1> QED BY <1>1, TargetsBound DEF Arriving

LEMMA MembersFinite == IsFiniteSet(Members) /\ Cardinality(Members) \in Nat
BY UsersAssumption, FS_Subset, FS_CardinalityType DEF Members

LEMMA SlotCount == Cardinality(Requests) \in Nat /\ Cardinality(Requests) >= 1
<1>1. Cardinality(Requests) \in Nat
  BY RequestsAssumption, FS_CardinalityType
<1>2. Cardinality(Requests) # 0
  BY RequestsAssumption, FS_EmptySet
<1> QED BY <1>1, <1>2

\* A user enrolled was about to be, and one about to be enrolled without a count is
\* in the room already: no such step raises the number of places taken.
LEMMA NoNewPlace ==
  ASSUME PlacesTaken, Members' \union Arriving' \subseteq Members \union Arriving
  PROVE  PlacesTaken'
<1> DEFINE S == Members \union Arriving
           T == Members' \union Arriving'
<1>1. IsFiniteSet(S)
  BY ArrivingBound, MembersFinite, FS_Union
<1>2. IsFiniteSet(T) /\ Cardinality(T) <= Cardinality(S)
  BY <1>1, FS_Subset
<1>3. Cardinality(S) \in Nat /\ Cardinality(T) \in Nat
  BY <1>1, <1>2, FS_CardinalityType
<1> QED BY <1>2, <1>3, SlotCount, CapacityAssumption DEF PlacesTaken

\* The number of places taken when a count has found one free.
LEMMA PlacesAfterCount ==
  ASSUME HasPlace, Members' = Members
  PROVE  PlacesTaken'
<1> DEFINE T == Members \union Arriving'
<1>1. IsFiniteSet(Arriving') /\ Cardinality(Arriving') <= Cardinality(Requests)
      /\ Cardinality(Arriving') \in Nat
  <2>1. {x \in Requests : At(x, "enrol")'} \in SUBSET Requests
    OBVIOUS
  <2> QED BY <2>1, TargetsBound DEF Arriving
<1>2. /\ Cardinality(T) = Cardinality(Members) + Cardinality(Arriving')
                             - Cardinality(Members \cap Arriving')
      /\ IsFiniteSet(Members \cap Arriving')
  BY <1>1, MembersFinite, FS_Union, FS_Subset
<1>3. Cardinality(Members \cap Arriving') \in Nat
  BY <1>2, FS_CardinalityType
<1> HIDE DEF T
<1>4. Cardinality(T) <= MAX_ROOM_PARTICIPANTS + Cardinality(Requests) - 1
  BY <1>1, <1>2, <1>3, MembersFinite, SlotCount, CapacityAssumption DEF HasPlace
<1> QED BY <1>4 DEF PlacesTaken, T

\* With no request newly at its enrolment, nobody is newly about to be enrolled.
LEMMA NobodyArrives ==
  ASSUME \A x \in Requests : At(x, "enrol")' => At(x, "enrol") /\ req'[x] = req[x]
  PROVE  Arriving' \subseteq Arriving
BY DEF Arriving, At

LEMMA FinishArrivals ==
  ASSUME TypeOK, NEW r \in Requests, Finish(r)
  PROVE  Arriving' \subseteq Arriving
BY NobodyArrives DEF TypeOK, Finish, At, Idle

LEMMA ProceedArrivals ==
  ASSUME TypeOK, NEW r \in Requests, Busy(r), NEW s \in Stages \ {"enrol"},
         Proceed(r, s)
  PROVE  Arriving' \subseteq Arriving
BY SameRequest, NobodyArrives DEF At

LEMMA PlacesInit == Init => PlacesTaken
<1> SUFFICES ASSUME Init PROVE PlacesTaken
  OBVIOUS
<1>1. Members \union Arriving = {}
  BY DEF Init, Members, Arriving, At, Idle
<1> QED BY <1>1, FS_EmptySet, SlotCount, CapacityAssumption DEF PlacesTaken

LEMMA PlacesStep == OwnerInv /\ PlacesTaken /\ [Next]_vars => PlacesTaken'
<1> SUFFICES ASSUME OwnerInv, PlacesTaken, [Next]_vars PROVE PlacesTaken'
  OBVIOUS
<1>a. TypeOK
  BY DEF OwnerInv
<1>b. UNCHANGED tables => Members' = Members
  BY DEF tables, Members
<1>1. CASE CreateRoom
  <2>1. \A x \in Requests : req[x] = Idle
    BY <1>1 DEF CreateRoom, OwnerInv, AimedAwayFromOwner, Busy
  <2>2. Members = {}
    BY <1>1 DEF CreateRoom, OwnerInv, OwnerAnchored, Live, RoomType
  <2>3. Members' \union Arriving' = {Creator}
    BY <1>1, <1>a, <2>1, <2>2, CreatorAssumption
       DEF CreateRoom, Members, Arriving, At, Idle, TypeOK
  <2>4. Cardinality(Members' \union Arriving') = 1
    BY <2>3, FS_Singleton
  <2> QED BY <2>4, SlotCount, CapacityAssumption DEF PlacesTaken
<1>2. ASSUME NEW r \in Requests, Count(r) PROVE PlacesTaken'
  <2>1. CASE HasPlace
    BY <1>2, <1>b, <2>1, PlacesAfterCount DEF Count
  <2>2. CASE Finish(r)
    BY <1>2, <1>a, <1>b, <2>2, FinishArrivals, NoNewPlace DEF Count
  <2> QED BY <1>2, <2>1, <2>2 DEF Count
<1>3. ASSUME NEW r \in Requests, ReadAlready(r) PROVE PlacesTaken'
  <2>1. /\ Busy(r) /\ req[r].target \in Users
        /\ "count" \in Stages \ {"enrol"} /\ "enrol" \in Stages
    BY <1>3, <1>a, RequestAtStage DEF ReadAlready, Stages
  <2>2. CASE Finish(r) \/ Proceed(r, "count")
    BY <1>3, <1>a, <1>b, <2>1, <2>2, FinishArrivals, ProceedArrivals, NoNewPlace
       DEF ReadAlready
  <2>3. CASE role[req[r].target] # "none" /\ Proceed(r, "enrol")
    <3>1. Arriving' \subseteq Arriving \union {req[r].target}
      BY <1>a, <2>1, <2>3, SameRequest DEF Arriving, At
    <3>2. req[r].target \in Members
      BY <2>1, <2>3 DEF Members
    <3> QED BY <1>3, <1>b, <3>1, <3>2, NoNewPlace DEF ReadAlready
  <2> QED BY <1>3, <2>2, <2>3 DEF ReadAlready
<1>4. ASSUME NEW r \in Requests, Enrol(r) PROVE PlacesTaken'
  <2>1. req[r].target \in Arriving
    BY <1>4 DEF Enrol, Arriving
  <2>2. Members' \subseteq Members \union {req[r].target}
    BY <1>4, <1>a DEF Enrol, Members, TypeOK
  <2>3. Arriving' \subseteq Arriving
    BY <1>4, <1>a, FinishArrivals DEF Enrol
  <2> QED BY <2>1, <2>2, <2>3, NoNewPlace
<1>5. ASSUME NEW r \in Requests,
             Quit(r) \/ Destroy(r) \/ Ban(r) \/ Unban(r) \/ UpdateRole(r)
               \/ RecordBan(r) \/ Abort(r)
      PROVE  PlacesTaken'
  <2>1. Arriving' \subseteq Arriving
    BY <1>5, <1>a, FinishArrivals
       DEF Quit, Destroy, Ban, Unban, UpdateRole, RecordBan, Abort
  <2>2. Members' \subseteq Members
    BY <1>5, <1>a DEF Quit, Destroy, Ban, Unban, UpdateRole, RecordBan, Abort, tables,
       Members, TypeOK
  <2> QED BY <2>1, <2>2, NoNewPlace
<1>6. ASSUME NEW r \in Requests, Remove(r) PROVE PlacesTaken'
  <2>1. Busy(r) /\ "record" \in Stages \ {"enrol"}
    BY <1>6, <1>a, RequestAtStage DEF Remove, Stages
  <2>2. Arriving' \subseteq Arriving
    BY <1>6, <1>a, <2>1, FinishArrivals, ProceedArrivals DEF Remove
  <2>3. Members' \subseteq Members
    BY <1>6, <1>a DEF Remove, Members, TypeOK
  <2> QED BY <2>2, <2>3, NoNewPlace
<1>7. ASSUME NEW r \in Requests, ReadRoom(r) PROVE PlacesTaken'
  <2>1. Busy(r) /\ AfterRoom(req[r].op) \in Stages \ {"enrol"}
    BY <1>7, <1>a, RequestAtStage DEF ReadRoom, AfterRoom, Stages
  <2> QED BY <1>7, <1>a, <1>b, <2>1, FinishArrivals, ProceedArrivals, NoNewPlace
             DEF ReadRoom
<1>8. ASSUME NEW r \in Requests, Authorise(r) PROVE PlacesTaken'
  <2>1. Busy(r) /\ AfterAuthorise(req[r].op) \in Stages \ {"enrol"}
    BY <1>8, <1>a, RequestAtStage DEF Authorise, AfterAuthorise, Stages
  <2> QED BY <1>8, <1>a, <1>b, <2>1, FinishArrivals, ProceedArrivals, NoNewPlace
             DEF Authorise
<1>9. ASSUME NEW r \in Requests, ReadBan(r) PROVE PlacesTaken'
  <2>1. Busy(r) /\ "already" \in Stages \ {"enrol"}
    BY <1>9, <1>a, RequestAtStage DEF ReadBan, Stages
  <2> QED BY <1>9, <1>a, <1>b, <2>1, FinishArrivals, ProceedArrivals, NoNewPlace
             DEF ReadBan
<1>10. ASSUME NEW r \in Requests, ReadActor(r) \/ ReadTarget(r) PROVE PlacesTaken'
  <2>1. req[r] \in Request
    BY <1>10, <1>a, RequestAtStage DEF ReadActor, ReadTarget, Stages
  <2>2. /\ \A x \in Requests \ {r} : req'[x] = req[x]
        /\ ~At(r, "enrol")'
    BY <1>10, <1>a, <2>1
       DEF ReadActor, ReadTarget, Finish, Proceed, At, Idle, TypeOK, Request
  <2>3. Arriving' \subseteq Arriving
    BY <2>2, NobodyArrives DEF At
  <2> QED BY <1>10, <1>b, <2>3, NoNewPlace DEF ReadActor, ReadTarget
<1>11. ASSUME NEW r \in Requests, NEW op \in Ops, NEW actor \in Users,
              NEW target \in Users, Start(r, op, actor, target)
       PROVE  PlacesTaken'
  <2>1. /\ \A x \in Requests \ {r} : req'[x] = req[x]
        /\ ~At(r, "enrol")'
    BY <1>11, <1>a DEF Start, TypeOK, At, FirstStage
  <2>2. Arriving' \subseteq Arriving
    BY <2>1, NobodyArrives DEF At
  <2> QED BY <1>11, <1>b, <2>2, NoNewPlace DEF Start
<1>12. CASE UNCHANGED vars
  BY <1>12, NoNewPlace DEF vars, Members, Arriving, At
<1> QED
  BY <1>1, <1>2, <1>3, <1>4, <1>5, <1>6, <1>7, <1>8, <1>9, <1>10, <1>11, <1>12
     DEF Next, Step

\* Joins and invites that count the members at the same moment exceed the limit by
\* less than the number of requests in flight; with one request, not at all.
THEOREM CapacityOvershoot == Spec => []OvershootBounded
<1>1. PlacesTaken => OvershootBounded
  <2> SUFFICES ASSUME PlacesTaken PROVE OvershootBounded
    OBVIOUS
  <2>1. IsFiniteSet(Members \union Arriving)
    BY ArrivingBound, MembersFinite, FS_Union
  <2>2. Cardinality(Members) <= Cardinality(Members \union Arriving)
    BY <2>1, FS_Subset
  <2>3. Cardinality(Members \union Arriving) \in Nat
    BY <2>1, FS_CardinalityType
  <2> QED BY <2>2, <2>3, MembersFinite, SlotCount, CapacityAssumption
             DEF PlacesTaken, OvershootBounded
<1> QED BY <1>1, PlacesInit, PlacesStep, OwnerInvariant, PTL DEF Spec

----------------------------------------------------------------------------
(* One request at a time: the policy *)

LEMMA SerialSlot ==
  ASSUME Serial, NEW r \in Requests
  PROVE  /\ Requests = {r} /\ ~Faults
         /\ Recording = IF At(r, "record") THEN {req[r].target} ELSE {}
         /\ Recording' = IF At(r, "record")' THEN {req'[r].target} ELSE {}
BY DEF Serial, Recording, At

\* A request that ends has nothing left to be true of it.
LEMMA SerialFinish ==
  ASSUME Serial, TypeOK, NEW r \in Requests, Finish(r),
         Members' \intersect banned' = {}
  PROVE  SerialInv' /\ Recording' = {}
<1>1. req'[r] = Idle /\ ~At(r, "record")'
  BY DEF TypeOK, Finish, At, Idle
<1>2. Requests = {r} /\ Recording' = {}
  BY <1>1, SerialSlot
<1> QED BY <1>1, <1>2 DEF SerialInv, Busy

\* A request that goes on after a read: what was true is, and what it has read is added.
LEMMA SerialProceed ==
  ASSUME Serial, TypeOK, SerialInv, NEW r \in Requests, Busy(r), UNCHANGED tables,
         req[r].stage # "record", req'[r].stage # "record", StillTrue(r)'
  PROVE  SerialInv' /\ Recording' = Recording
<1>1. Requests = {r} /\ Recording = {} /\ Recording' = {}
  BY SerialSlot DEF At
<1>2. Members' = Members /\ banned' = banned
  BY DEF tables, Members
<1> QED BY <1>1, <1>2 DEF SerialInv

LEMMA SerialReads ==
  ASSUME Serial, TypeOK, SerialInv, NEW r \in Requests,
         ReadRoom(r) \/ Authorise(r) \/ ReadBan(r) \/ ReadAlready(r) \/ Count(r)
           \/ ReadActor(r) \/ ReadTarget(r)
  PROVE  SerialInv' /\ Recording' = Recording
<1> USE DEF ReadRoom, Authorise, ReadBan, ReadAlready, Count, ReadActor, ReadTarget
<1>1. /\ Busy(r) /\ req[r] \in Request /\ UNCHANGED tables
      /\ req[r].stage # "record"
  BY RequestAtStage DEF Stages, At
<1>2. Recording = {} /\ Members' = Members /\ banned' = banned /\ role' = role
      /\ room' = room /\ req \in [Requests -> Request \union {Idle}]
  BY <1>1, SerialSlot DEF tables, Members, At, TypeOK
<1>3. CASE Finish(r)
  BY <1>2, <1>3, SerialFinish DEF SerialInv
<1>4. StillTrue(r) /\ req[r].op \in AllOps
  BY <1>1 DEF SerialInv, Request
<1> DEFINE Same == /\ req'[r].op = req[r].op /\ req'[r].actor = req[r].actor
                   /\ req'[r].target = req[r].target
                   /\ req'[r].actorRole = req[r].actorRole
<1>5. ASSUME NEW s \in Stages, Proceed(r, s) PROVE Same /\ req'[r].stage = s
  BY <1>1, <1>2, <1>5 DEF Proceed, Request
<1>6. HasPlace => HasPlace'
  BY <1>2 DEF HasPlace
<1> USE DEF StillTrue, At, Authorised
<1>7. CASE ReadRoom(r) /\ ~Finish(r)
  <2>1. Same /\ req'[r].stage = AfterRoom(req[r].op)
    BY <1>4, <1>5, <1>7, StagesAreStages
  <2>2. req[r].op \in {"join", "invite", "delete"}
    BY <1>4, <1>7 DEF OpsAt
  <2>3. StillTrue(r)' /\ req'[r].stage # "record"
    BY <1>2, <1>4, <1>7, <2>1, <2>2 DEF AfterRoom, OpsAt, AllOps, ValidTarget
  <2> QED BY <1>1, <2>3, SerialProceed
<1>8. CASE Authorise(r) /\ ~Finish(r)
  <2>1. Same /\ req'[r].stage = AfterAuthorise(req[r].op)
    BY <1>4, <1>5, <1>8, StagesAreStages
  <2>2. req[r].op \in AllOps \ {"join"} /\ role[req[r].actor] \in MayPerform(req[r].op)
    BY <1>4, <1>8 DEF OpsAt
  <2>3. StillTrue(r)' /\ req'[r].stage # "record"
    BY <1>2, <1>4, <1>8, <2>1, <2>2 DEF AfterAuthorise, OpsAt, AllOps, ValidTarget
  <2> QED BY <1>1, <2>3, SerialProceed
<1>9. CASE (ReadBan(r) \/ ReadAlready(r) \/ Count(r)) /\ ~Finish(r)
  <2>1. /\ Same
        /\ \/ req[r].stage = "bans" /\ req'[r].stage = "already"
              /\ req[r].target \notin banned
           \/ req[r].stage = "already" /\ req'[r].stage = "count"
              /\ role[req[r].target] = "none"
           \/ req[r].stage = "already" /\ req'[r].stage = "enrol"
              /\ role[req[r].target] # "none"
           \/ req[r].stage = "count" /\ req'[r].stage = "enrol" /\ HasPlace
    BY <1>5, <1>9 DEF Stages
  <2>2. req[r].op \in {"join", "invite"}
    BY <1>4, <2>1 DEF OpsAt
  <2>3. StillTrue(r)' /\ req'[r].stage # "record"
    BY <1>2, <1>4, <1>6, <2>1, <2>2 DEF OpsAt, ValidTarget
  <2> QED BY <1>1, <2>3, SerialProceed
<1>10. CASE ReadActor(r)
  <2>1. /\ req'[r].stage = "target" /\ req'[r].actorRole = role[req[r].actor]
        /\ req'[r].op = req[r].op /\ req'[r].actor = req[r].actor
        /\ req'[r].target = req[r].target /\ req[r].op = "kick"
    BY <1>1, <1>2, <1>4, <1>10 DEF Request, OpsAt
  <2>2. StillTrue(r)' /\ req'[r].stage # "record"
    BY <1>2, <1>4, <1>10, <2>1 DEF OpsAt, ValidTarget
  <2> QED BY <1>1, <2>2, SerialProceed
<1>11. CASE ReadTarget(r) /\ ~Finish(r)
  <2>1. /\ Same /\ req[r].stage = "target"
        /\ TargetAllowed(req[r].op, req[r].actorRole, role[req[r].target])
        /\ req'[r].stage = IF req[r].op = "kick" THEN "remove"
                           ELSE IF req[r].op = "ban" THEN "ban" ELSE "update"
    BY <1>1, <1>2, <1>5, <1>11 DEF Request, Stages
  <2>2. req[r].op \in {"ban", "kick", "addAdmin", "removeAdmin", "promote", "demote"}
    BY <1>4, <2>1 DEF OpsAt
  <2>3. StillTrue(r)' /\ req'[r].stage # "record"
    BY <1>2, <1>4, <2>1, <2>2 DEF OpsAt, ValidTarget
  <2> QED BY <1>1, <2>3, SerialProceed
<1> QED BY <1>3, <1>7, <1>8, <1>9, <1>10, <1>11

\* The ranks of RoomPolicy, by the roles of the rows.
LEMMA Ranks ==
  ASSUME TypeOK, NEW u \in Users
  PROVE  /\ Policy!Rank(u) = CASE role[u] = "none" -> 0
                               [] role[u] = "member" -> 1
                               [] role[u] = "mod" -> 2
                               [] role[u] = "admin" -> 3
                               [] OTHER -> 4
         /\ Policy!IsMember(u) <=> role[u] # "none"
         /\ Policy!IsStaff(u) <=> role[u] \in isStaffRole
         /\ Policy!Governs(u) <=> role[u] \in isRoomAdminOrOwnerRole
<1>1. role[u] \in {"none", "member", "mod", "admin", "owner"}
  BY DEF TypeOK, RoleOrNone, Roles
<1>2. /\ Policy!RankOf["none"] = 0 /\ Policy!RankOf["member"] = 1
      /\ Policy!RankOf["mod"] = 2 /\ Policy!RankOf["admin"] = 3
      /\ Policy!RankOf["owner"] = 4 /\ Policy!RankOf.mod = 2 /\ Policy!RankOf.admin = 3
  BY DEF Policy!RankOf
<1> QED BY <1>1, <1>2
  DEF Policy!Rank, Policy!IsMember, Policy!IsStaff, Policy!Governs, isStaffRole,
  isRoomAdminOrOwnerRole

LEMMA Places == TypeOK /\ HasPlace => ~Policy!Full
<1> SUFFICES ASSUME TypeOK, HasPlace PROVE ~Policy!Full
  OBVIOUS
<1>1. {u \in Users : Policy!IsMember(u)} = Members
  BY Ranks DEF Members
<1>2. Cardinality(Members) \in Nat /\ Cardinality(Members) < MAX_ROOM_PARTICIPANTS
  BY MembersFinite DEF HasPlace
<1>3. ASSUME NEW S PROVE Policy!Cardinality(S) = Cardinality(S)
  BY DEF Policy!Cardinality, Cardinality
<1>4. ASSUME NEW n \in Nat, n < MAX_ROOM_PARTICIPANTS
      PROVE  ~(n >= MAX_ROOM_PARTICIPANTS)
  BY <1>4, CapacityAssumption
<1> QED BY <1>1, <1>2, <1>3, <1>4 DEF Policy!Full

\* What a step of request r is to RoomPolicy.
Decision(r) ==
  \/ Policy!Perform(req[r].op, req[r].actor, req[r].target)
  \/ UNCHANGED <<room, role, banned \union Recording>>

LEMMA SerialEnter ==
  ASSUME Serial, OwnerInv, SerialInv, NEW r \in Requests, Enrol(r)
  PROVE  SerialInv' /\ Decision(r)
<1>1. /\ Busy(r) /\ req[r] \in Request /\ TypeOK /\ req[r].stage = "enrol"
      /\ Finish(r) /\ room' = room /\ banned' = banned
  BY RequestAtStage DEF Stages, Enrol, At, OwnerInv
<1>2. Recording = {} /\ StillTrue(r) /\ role \in [Users -> RoleOrNone]
  BY <1>1, SerialSlot DEF SerialInv, At, TypeOK
<1> DEFINE op == req[r].op
           actor == req[r].actor
           target == req[r].target
<1>3. /\ op \in {"join", "invite"} /\ ValidTarget(op, actor, target)
      /\ op = "join" => room = "public"
      /\ op = "invite" => room = "private" /\ role[actor] \in MayPerform(op)
      /\ target \notin banned
      /\ role[target] = "none" => HasPlace
      /\ target \in Users /\ actor \in Users
  BY <1>1, <1>2 DEF StillTrue, OpsAt, Authorised, Request
<1>4. CASE role[target] # "none"
  <2>1. role' = role /\ Members' = Members
    BY <1>1, <1>4 DEF Enrol, Members
  <2>2. SerialInv' /\ Recording' = {}
    BY <1>1, <1>2, <2>1, SerialFinish DEF SerialInv
  <2> QED BY <1>1, <1>2, <2>1, <2>2 DEF Decision
<1>5. CASE role[target] = "none"
  <2>1. role' = [role EXCEPT ![target] = "member"]
    BY <1>3, <1>5 DEF Enrol, Live, RoomType
  <2>2. Members' \subseteq Members \union {target}
    BY <1>2, <2>1 DEF Members
  <2>3. SerialInv' /\ Recording' = {}
    BY <1>1, <1>2, <1>3, <2>2, SerialFinish DEF SerialInv
  <2>4. Policy!Admit(target)
    BY <1>1, <1>2, <2>1, <2>3 DEF Policy!Admit, Policy!SetRole
  <2>5. Policy!MayEnter(target)
    BY <1>1, <1>2, <1>3, <1>5, Ranks, Places DEF Policy!MayEnter
  <2>6. op = "invite" => Policy!IsStaff(actor)
    BY <1>1, <1>3, Ranks DEF MayPerform
  <2>7. Policy!Perform(op, actor, target)
    BY <1>3, <2>4, <2>5, <2>6
    DEF Policy!Perform, Policy!Join, Policy!Invite, Policy!MayJoin, Policy!MayInvite,
        ValidTarget
  <2> QED BY <2>3, <2>7 DEF Decision
<1> QED BY <1>4, <1>5

LEMMA SerialExit ==
  ASSUME Serial, OwnerInv, SerialInv, NEW r \in Requests, Quit(r) \/ Destroy(r)
  PROVE  SerialInv' /\ Decision(r)
<1>1. /\ Busy(r) /\ req[r] \in Request /\ TypeOK /\ req[r].stage \in {"quit", "destroy"}
      /\ Finish(r)
  BY RequestAtStage DEF Stages, Quit, Destroy, At, OwnerInv
<1>2. Recording = {} /\ StillTrue(r) /\ role \in [Users -> RoleOrNone]
  BY <1>1, SerialSlot DEF SerialInv, At, TypeOK
<1> DEFINE op == req[r].op
           actor == req[r].actor
           target == req[r].target
<1>3. /\ role[actor] \in MayPerform(op)
      /\ target \in Users /\ actor \in Users
  BY <1>1, <1>2 DEF StillTrue, OpsAt, Authorised, Request
<1>4. CASE Quit(r)
  <2>1. op = "leave" /\ role' = [role EXCEPT ![actor] = "none"]
        /\ room' = room /\ banned' = banned
    BY <1>2, <1>4 DEF Quit, At, StillTrue, OpsAt
  <2>2. Members' \subseteq Members
    BY <1>2, <2>1 DEF Members
  <2>3. SerialInv' /\ Recording' = {}
    BY <1>1, <2>1, <2>2, SerialFinish DEF SerialInv
  <2>4. role[actor] # "none" /\ role[actor] # "owner"
    BY <1>3, <2>1 DEF MayPerform, Roles
  <2>5. Policy!Leave(actor)
    BY <1>1, <1>2, <1>3, <2>1, <2>3, <2>4, Ranks
    DEF Policy!Leave, Policy!MayLeave, Policy!SetRole, Policy!Owns
  <2> QED BY <2>1, <2>3, <2>5 DEF Decision, Policy!Perform
<1>5. CASE Destroy(r)
  <2>1. op = "delete" /\ role' = [u \in Users |-> "none"] /\ room' = "deleted"
        /\ banned' = {}
    BY <1>2, <1>5 DEF Destroy, At, StillTrue, OpsAt
  <2>2. SerialInv' /\ Recording' = {}
    BY <1>1, <2>1, SerialFinish
  <2>3. Policy!Delete(actor)
    BY <1>3, <2>1, <2>2 DEF Policy!Delete, Policy!Owns, MayPerform
  <2> QED BY <2>1, <2>2, <2>3 DEF Decision, Policy!Perform
<1> QED BY <1>4, <1>5

LEMMA SerialBans ==
  ASSUME Serial, OwnerInv, SerialInv, NEW r \in Requests, Ban(r) \/ Unban(r)
  PROVE  SerialInv' /\ Decision(r)
<1>1. /\ Busy(r) /\ req[r] \in Request /\ TypeOK /\ req[r].stage \in {"ban", "unban"}
      /\ Finish(r) /\ room' = room
  BY RequestAtStage DEF Stages, Ban, Unban, At, OwnerInv
<1>2. Recording = {} /\ StillTrue(r) /\ role \in [Users -> RoleOrNone]
  BY <1>1, SerialSlot DEF SerialInv, At, TypeOK
<1> DEFINE op == req[r].op
           actor == req[r].actor
           target == req[r].target
<1>3. /\ role[actor] \in isRoomAdminOrOwnerRole /\ op = req[r].stage
      /\ target \in Users /\ actor \in Users
  BY <1>1, <1>2 DEF StillTrue, OpsAt, Authorised, Request, MayPerform
<1>4. Policy!Governs(actor)
  BY <1>1, <1>3, Ranks
<1>5. CASE Ban(r)
  <2>1. Live
    BY <1>3 DEF OwnerInv, OwnerAnchored, Members, isRoomAdminOrOwnerRole
  <2>2. /\ op = "ban" /\ role' = [role EXCEPT ![target] = "none"]
        /\ banned' = banned \union {target}
    BY <1>3, <1>5, <2>1 DEF Ban, At
  <2>3. Members' \subseteq Members \ {target}
    BY <1>2, <1>3, <2>2 DEF Members
  <2>4. SerialInv' /\ Recording' = {}
    BY <1>1, <2>2, <2>3, SerialFinish DEF SerialInv
  <2>5. role[target] # "owner"
    BY <1>1, <1>2, <1>3, <2>2 DEF StillTrue, TargetAllowed
  <2>6. Policy!Ban(actor, target)
    BY <1>1, <1>2, <1>4, <2>2, <2>4, <2>5
    DEF Policy!Ban, Policy!MayBan, Policy!SetRole, Policy!Owns
  <2> QED BY <2>2, <2>4, <2>6 DEF Decision, Policy!Perform
<1>6. CASE Unban(r)
  <2>1. op = "unban" /\ role' = role /\ banned' = banned \ {target}
    BY <1>3, <1>6 DEF Unban, At
  <2>2. Members' = Members
    BY <2>1 DEF Members
  <2>3. SerialInv' /\ Recording' = {}
    BY <1>1, <2>1, <2>2, SerialFinish DEF SerialInv
  <2>4. Policy!Unban(actor, target)
    BY <1>1, <1>2, <1>4, <2>1, <2>3 DEF Policy!Unban
  <2> QED BY <2>1, <2>3, <2>4 DEF Decision, Policy!Perform
<1> QED BY <1>5, <1>6

LEMMA SerialUpdate ==
  ASSUME Serial, OwnerInv, SerialInv, NEW r \in Requests, UpdateRole(r)
  PROVE  SerialInv' /\ Decision(r)
<1>1. /\ Busy(r) /\ req[r] \in Request /\ TypeOK /\ req[r].stage = "update"
      /\ Finish(r) /\ room' = room /\ banned' = banned
  BY RequestAtStage DEF Stages, UpdateRole, At, OwnerInv
<1>2. Recording = {} /\ StillTrue(r) /\ role \in [Users -> RoleOrNone]
  BY <1>1, SerialSlot DEF SerialInv, At, TypeOK
<1> DEFINE op == req[r].op
           actor == req[r].actor
           target == req[r].target
<1>3. /\ op \in {"addAdmin", "removeAdmin", "promote", "demote"}
      /\ role[actor] \in MayPerform(op)
      /\ TargetAllowed(op, req[r].actorRole, role[target])
      /\ target \in Users /\ actor \in Users
  BY <1>1, <1>2 DEF StillTrue, OpsAt, Authorised, Request
<1>4. role[target] \notin {"none", "owner"}
  BY <1>3 DEF TargetAllowed
<1>5. role' = [role EXCEPT ![target] = NewRole(op)]
  BY <1>4 DEF UpdateRole
<1>6. Members' = Members
  <2>1. NewRole(op) # "none"
    BY DEF NewRole
  <2> HIDE DEF op
  <2> QED BY <1>2, <1>3, <1>4, <1>5, <2>1 DEF Members
<1>7. SerialInv' /\ Recording' = {}
  BY <1>1, <1>6, SerialFinish DEF SerialInv
<1>8. UNCHANGED <<room, banned \union Recording>>
  BY <1>1, <1>2, <1>7
<1>9. CASE op = "addAdmin"
  <2>1. Policy!AddAdmin(actor, target)
    BY <1>1, <1>3, <1>4, <1>5, <1>8, <1>9, Ranks
    DEF Policy!AddAdmin, Policy!MayAddAdmin, Policy!SetRole, Policy!Owns, MayPerform, NewRole
  <2> QED BY <1>7, <1>9, <2>1 DEF Decision, Policy!Perform
<1>10. CASE op # "addAdmin"
  <2>1. Policy!Governs(actor)
    BY <1>1, <1>3, <1>10, Ranks DEF MayPerform
  <2>2. \/ op = "removeAdmin" /\ Policy!Regrade(actor, target, "admin", "member")
        \/ op = "promote" /\ Policy!Regrade(actor, target, "member", "mod")
        \/ op = "demote" /\ Policy!Regrade(actor, target, "mod", "member")
    BY <1>3, <1>5, <1>8, <1>10, <2>1
    DEF Policy!Regrade, Policy!MayRegrade, Policy!SetRole, NewRole, TargetAllowed
  <2> QED BY <1>7, <2>2 DEF Decision, Policy!Perform
<1> QED BY <1>9, <1>10

\* A kick is decided when the row goes; the ban that is then recorded counts already.
LEMMA SerialKick ==
  ASSUME Serial, OwnerInv, SerialInv, NEW r \in Requests, Remove(r) \/ RecordBan(r)
  PROVE  SerialInv' /\ Decision(r)
<1>1. /\ Busy(r) /\ req[r] \in Request /\ TypeOK
      /\ req[r].stage \in {"remove", "record"} /\ room' = room
  BY RequestAtStage DEF Stages, Remove, RecordBan, At, OwnerInv
<1>2. StillTrue(r) /\ role \in [Users -> RoleOrNone]
  BY <1>1 DEF SerialInv, TypeOK
<1> DEFINE op == req[r].op
           actor == req[r].actor
           target == req[r].target
<1>3. /\ op = "kick" /\ actor # target
      /\ role[actor] \in isStaffRole /\ req[r].actorRole = role[actor]
      /\ target \in Users /\ actor \in Users
  BY <1>1, <1>2 DEF StillTrue, OpsAt, Authorised, Request, MayPerform, ValidTarget
<1>4. CASE Remove(r)
  <2>1. /\ KickAllowed(role[actor], role[target]) /\ Recording = {}
        /\ role' = [role EXCEPT ![target] = "none"] /\ banned' = banned
    BY <1>2, <1>3, <1>4, SerialSlot DEF Remove, At, StillTrue, TargetAllowed
  <2>2. Members' \subseteq Members \ {target}
    BY <1>2, <1>3, <2>1 DEF Members
  <2>3. role[target] \notin {"none", "owner"} /\ role[target] \in RoleOrNone
    BY <1>2, <1>3, <2>1 DEF KickAllowed
  <2>4. /\ Policy!IsStaff(actor) /\ Policy!IsMember(target)
        /\ Policy!Rank(actor) > Policy!Rank(target)
        /\ Policy!Governs(actor) <=> role[actor] \in isRoomAdminOrOwnerRole
    <3>1. /\ Policy!IsStaff(actor) /\ Policy!IsMember(target)
          /\ Policy!Governs(actor) <=> role[actor] \in isRoomAdminOrOwnerRole
      BY <1>1, <1>3, <2>3, Ranks
    <3>2. \/ role[actor] = "owner" /\ role[target] \in {"member", "mod", "admin"}
          \/ role[actor] = "admin" /\ role[target] \in {"member", "mod"}
          \/ role[actor] = "mod" /\ role[target] = "member"
      BY <1>3, <2>1, <2>3 DEF KickAllowed, isStaffRole, RoleOrNone, Roles
    <3>3. /\ role[actor] = "owner" => Policy!Rank(actor) = 4
          /\ role[actor] = "admin" => Policy!Rank(actor) = 3
          /\ role[actor] = "mod" => Policy!Rank(actor) = 2
      BY <1>1, <1>3, Ranks
    <3>4. /\ role[target] = "admin" => Policy!Rank(target) = 3
          /\ role[target] = "mod" => Policy!Rank(target) = 2
          /\ role[target] = "member" => Policy!Rank(target) = 1
      BY <1>1, <1>3, Ranks
    <3> QED BY <3>1, <3>2, <3>3, <3>4
  <2>5. CASE role[actor] \in isRoomAdminOrOwnerRole
    <3>1. Proceed(r, "record")
      BY <1>3, <1>4, <2>3, <2>5 DEF Remove
    <3>2. /\ req'[r].stage = "record" /\ req'[r].op = op /\ req'[r].actor = actor
          /\ req'[r].target = target /\ req'[r].actorRole = req[r].actorRole
      BY <1>1, <3>1, SameRequest DEF Proceed, Stages, TypeOK, Request
    <3>3. Requests = {r} /\ Recording' = {target}
      BY <3>2, SerialSlot DEF At
    <3>4. role'[actor] = role[actor] /\ role'[target] = "none"
      BY <1>2, <1>3, <2>1
    <3>5. StillTrue(r)'
      BY <1>3, <2>5, <3>2, <3>4 DEF StillTrue, OpsAt, ValidTarget, Authorised, MayPerform
    <3>6. SerialInv'
      BY <2>1, <2>2, <3>3, <3>5 DEF SerialInv
    <3>7. Policy!Kick(actor, target)
      BY <1>1, <2>1, <2>4, <2>5, <3>3 DEF Policy!Kick, Policy!MayKick, Policy!SetRole
    <3> QED BY <1>3, <3>6, <3>7 DEF Decision, Policy!Perform
  <2>6. CASE role[actor] \notin isRoomAdminOrOwnerRole
    <3>1. Finish(r)
      BY <1>3, <1>4, <2>6 DEF Remove
    <3>2. SerialInv' /\ Recording' = {}
      BY <1>1, <2>1, <2>2, <3>1, SerialFinish DEF SerialInv
    <3>3. Policy!Kick(actor, target)
      BY <1>1, <2>1, <2>4, <2>6, <3>2 DEF Policy!Kick, Policy!MayKick, Policy!SetRole
    <3> QED BY <1>3, <3>2, <3>3 DEF Decision, Policy!Perform
  <2> QED BY <2>5, <2>6
<1>5. CASE RecordBan(r)
  <2>1. Live
    BY <1>3 DEF OwnerInv, OwnerAnchored, Members, isStaffRole
  <2>2. /\ Recording = {target} /\ banned' = banned \union {target} /\ role' = role
        /\ Finish(r) /\ Members' = Members
    BY <1>5, <2>1, SerialSlot DEF RecordBan, Members
  <2>3. SerialInv' /\ Recording' = {}
    BY <1>1, <2>2, SerialFinish DEF SerialInv
  <2> QED BY <1>1, <2>2, <2>3 DEF Decision
<1> QED BY <1>4, <1>5

LEMMA SerialRequestStep ==
  ASSUME Serial, OwnerInv, SerialInv, NEW r \in Requests, Step(r)
  PROVE  SerialInv' /\ Decision(r)
<1>1. TypeOK
  BY DEF OwnerInv
<1>2. CASE ReadRoom(r) \/ Authorise(r) \/ ReadBan(r) \/ ReadAlready(r) \/ Count(r)
             \/ ReadActor(r) \/ ReadTarget(r)
  <2>1. SerialInv' /\ Recording' = Recording
    BY <1>1, <1>2, SerialReads
  <2>2. UNCHANGED tables
    BY <1>2 DEF ReadRoom, Authorise, ReadBan, ReadAlready, Count, ReadActor, ReadTarget
  <2> QED BY <2>1, <2>2 DEF Decision, tables
<1> QED BY <1>2, SerialEnter, SerialExit, SerialBans, SerialUpdate, SerialKick DEF Step

\* A room is created before any request, and a request begins having read nothing.
LEMMA SerialBegin ==
  ASSUME Serial, OwnerInv, SerialInv, NEW r \in Requests,
         NEW op \in Ops, NEW actor \in Users, NEW target \in Users,
         Start(r, op, actor, target)
  PROVE  SerialInv' /\ UNCHANGED <<room, role, banned \union Recording>>
<1>1. /\ UNCHANGED tables /\ ~Busy(r) /\ ValidTarget(op, actor, target) /\ op \in AllOps
      /\ Members' = Members
  BY OpsAssumption DEF Start, tables, Members
<1>2. /\ req'[r].stage = FirstStage(op) /\ req'[r].op = op /\ req'[r].actor = actor
      /\ req'[r].target = target
  BY DEF Start, OwnerInv, TypeOK
<1>3. Requests = {r} /\ Recording = {} /\ Recording' = {}
  BY <1>1, <1>2, SerialSlot DEF At, Busy, Idle, FirstStage
<1>4. StillTrue(r)'
  BY <1>1, <1>2 DEF StillTrue, OpsAt, Authorised, FirstStage, AllOps, ValidTarget
<1> QED BY <1>1, <1>3, <1>4 DEF SerialInv, tables

LEMMA SerialCreate ==
  ASSUME Serial, OwnerInv, SerialInv, CreateRoom
  PROVE  SerialInv' /\ Policy!Create
<1>1. /\ Members = {} /\ banned = {} /\ \A r \in Requests : ~Busy(r)
      /\ banned' = banned /\ req' = req
  BY DEF CreateRoom, OwnerInv, OwnerAnchored, AimedAwayFromOwner, Live, RoomType
<1>2. Recording = {} /\ Recording' = {}
  BY <1>1 DEF Recording, At, Busy, Idle
<1>3. SerialInv'
  BY <1>1, <1>2 DEF SerialInv, Busy
<1>4. Policy!Create
  BY <1>1, <1>2 DEF CreateRoom, Policy!Create, Policy!SetRole, RoomType
<1> QED BY <1>3, <1>4

LEMMA SerialStep ==
  ASSUME Serial, OwnerInv, SerialInv, [Next]_vars
  PROVE  /\ SerialInv'
         /\ [Policy!Next]_(Policy!vars)
         /\ [CreateRoom \/ \E r \in Requests : Decides(r)]_<<room, role, banned \union Recording>>
<1>1. CASE CreateRoom
  BY <1>1, SerialCreate DEF Policy!Next
<1>2. ASSUME NEW r \in Requests, Step(r)
      PROVE  /\ SerialInv'
             /\ [Policy!Next]_(Policy!vars)
             /\ [\E q \in Requests : Decides(q)]_<<room, role, banned \union Recording>>
  <2>1. SerialInv' /\ Decision(r)
    BY <1>2, SerialRequestStep
  <2>2. Busy(r) /\ req[r] \in Request
    BY <1>2, RequestAtStage DEF Step, ReadRoom, Authorise, ReadBan, ReadAlready, Count,
    ReadActor, ReadTarget, Enrol, Quit, Destroy, Ban, Unban, UpdateRole, Remove,
    RecordBan, Stages, OwnerInv
  <2>3. CASE Policy!Perform(req[r].op, req[r].actor, req[r].target)
    <3>1. Policy!Next
      BY <2>2, <2>3 DEF Policy!Next, Policy!Operations, Request, AllOps
    <3> QED BY <2>1, <2>2, <2>3, <3>1 DEF Decides
  <2> QED BY <2>1, <2>3 DEF Decision, Policy!vars
<1>3. ASSUME NEW r \in Requests, NEW op \in Ops, NEW actor \in Users,
             NEW target \in Users, Start(r, op, actor, target)
      PROVE  SerialInv' /\ UNCHANGED <<room, role, banned \union Recording>>
  BY <1>3, SerialBegin
<1>4. CASE UNCHANGED vars
  <2>1. Members' = Members /\ Recording' = Recording
    BY <1>4 DEF vars, Members, Recording, At
  <2>2. ASSUME NEW r \in Requests, StillTrue(r) PROVE StillTrue(r)'
    BY <1>4, <2>1, <2>2 DEF vars, StillTrue, HasPlace
  <2>3. SerialInv'
    BY <1>4, <2>1, <2>2 DEF vars, SerialInv, Busy
  <2> QED BY <1>4, <2>1, <2>3 DEF vars, Policy!vars
<1>5. ~\E r \in Requests : Abort(r)
  BY DEF Abort, Serial
<1> QED BY <1>1, <1>2, <1>3, <1>4, <1>5 DEF Next, Policy!vars

LEMMA SerialInit == Init => SerialInv /\ Policy!Init
<1> SUFFICES ASSUME Init PROVE SerialInv /\ Policy!Init
  OBVIOUS
<1>1. Members = {} /\ Recording = {} /\ \A r \in Requests : ~Busy(r)
  BY DEF Init, Members, Recording, At, Busy, Idle
<1> QED BY <1>1 DEF Init, SerialInv, Policy!Init

LEMMA SerialInvariant ==
  ASSUME Serial PROVE Spec => [](OwnerInv /\ SerialInv)
<1>1. OwnerInv /\ SerialInv /\ [Next]_vars => SerialInv'
  BY SerialStep
<1> QED BY <1>1, SerialInit, OwnerInvariant, PTL DEF Spec

\* With one request at a time and no fault, a user with a RoomBan row has no RoomMember
\* row: what kickMember's comment promises is broken by interleaving alone.
THEOREM SerialBansHold == ASSUME Serial PROVE Spec => []BannedStayOut
<1>1. OwnerInv /\ SerialInv => BannedStayOut
  BY DEF SerialInv, BannedStayOut
<1> QED BY <1>1, SerialInvariant, PTL

\* With one request at a time and no fault, the call sequences of the eleven handlers are
\* decisions of RoomPolicy: each change of the tables is the one that the running request
\* asks for, by the rank its caller has then; every other step changes nothing.
THEOREM SerialRoomsImplementPolicy == ASSUME Serial PROVE Spec => ImplementsPolicy
<1>1. OwnerInv /\ SerialInv /\ [Next]_vars =>
        /\ [Policy!Next]_(Policy!vars)
        /\ [CreateRoom \/ \E r \in Requests : Decides(r)]_<<room, role, banned \union Recording>>
  BY SerialStep
<1> QED BY <1>1, SerialInit, SerialInvariant, PTL DEF Spec, Policy!Spec, ImplementsPolicy
=============================================================================
