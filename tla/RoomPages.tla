------------------------------ MODULE RoomPages ------------------------------
(***************************************************************************)
(* The pages of one tab that show rooms: the list of rooms with its        *)
(* catalog (RoomsPage.tsx), the page of a room (RoomChatPage.tsx) and the  *)
(* moderation panel on it (RoomModerationPanel.tsx).  A page shows what it *)
(* has read; nothing tells it of later changes, and it reads again after   *)
(* what its own user does.  Requests in flight are answered in any order,  *)
(* and an answer may find that the user has moved on.                      *)
(*                                                                         *)
(* The room service behind them is RoomPolicy, which Rooms implements one  *)
(* request at a time: a change is one step here.                           *)
(***************************************************************************)
EXTENDS Naturals, FiniteSets

CONSTANTS
  Users, Me,             \* account ids, and whose tab it is
  MAX_ROOM_PARTICIPANTS,
  Searches, NoSearch,    \* what may be searched for in the catalog
  Calls,                 \* slots for requests in flight (bounds concurrency)
  MaxChanges,            \* bounds the changes that the others make, counting the user's
  Faults                 \* may a request or its answer get lost?

ASSUME MeAssumption == Me \in Users /\ IsFiniteSet(Users)
ASSUME SearchAssumption == NoSearch \in Searches
ASSUME CapacityAssumption == MAX_ROOM_PARTICIPANTS \in Nat \ {0}
ASSUME BoundsAssumption == IsFiniteSet(Calls) /\ MaxChanges \in Nat /\ Faults \in BOOLEAN

VARIABLES
  room, role, banned,  \* the room "here", as in RoomPolicy
  address,             \* the page: "list", or the room in the URL
  detail,              \* RoomChatPage's room, of "nothing" when null
  loadError, joining,  \* its loadError and busy
  panel,               \* the moderation panel
  list,                \* the list of rooms
  call,                \* call[c]: the request in slot c, or Idle
  settled,             \* history: what is shown, or being loaded, has not been overtaken
  changes              \* history: how often the room has been changed

tables == <<room, role, banned>>
roomPage == <<detail, loadError, joining, panel>>
vars == <<tables, address, roomPage, list, call, settled, changes>>

Policy == INSTANCE RoomPolicy WITH Creator <- Me

----------------------------------------------------------------------------
RoleNames == {"none", "member", "mod", "admin", "owner"}
RoomIds == {"here", "there"}

\* The other room, in which the user is a member of no rank.
RoleThere == [u \in Users |-> IF u = Me THEN "member" ELSE "none"]

isRoomStaff(r) == r \in {"owner", "admin", "mod"}
isOwnerOrRoomAdmin(r) == r \in {"owner", "admin"}

Detail == [of : RoomIds \union {"nothing"}, role : RoleNames, banned : BOOLEAN]
NoDetail == [of |-> "nothing", role |-> "none", banned |-> FALSE]

\* The conversation and its panel are on the page: for members only.
Inside(d) == d.role # "none" /\ ~d.banned

NoMembers == [u \in Users |-> "none"]
NoAction == [op |-> "none", target |-> Me]
DialogOps == {"kick", "ban", "removeAdmin", "unban"}
DirectOps == {"promote", "addAdmin", "demote"}
ListOps == {"create", "join", "leave"}

Panel == [open : BOOLEAN, members : [Users -> RoleNames], bans : SUBSET Users,
          pending : [op : DialogOps, target : Users] \union {NoAction},
          busy : BOOLEAN, confirmBusy : BOOLEAN]
ClosedPanel == [open |-> FALSE, members |-> NoMembers, bans |-> {}, pending |-> NoAction,
                busy |-> FALSE, confirmBusy |-> FALSE]
Visible == panel.open /\ isRoomStaff(detail.role)

\* mine, private: the room's line under "Your rooms"; found: the catalog has it; of: the
\* search that the catalog is of.
Found == [mine : RoleNames, private : BOOLEAN, found : BOOLEAN]
NothingFound == [mine |-> "none", private |-> FALSE, found |-> FALSE]
List == [shows : Found, of : Searches, applied : Searches, busy : BOOLEAN,
         deleting : BOOLEAN, deleteBusy : BOOLEAN, submitting : BOOLEAN]
NewList == [shows |-> NothingFound, of |-> NoSearch, applied |-> NoSearch, busy |-> FALSE,
            deleting |-> FALSE, deleteBusy |-> FALSE, submitting |-> FALSE]
HasForm(shows) == shows.private /\ isRoomStaff(shows.mine)

----------------------------------------------------------------------------
\* by: the handler that awaits the answer.  gov, search: what its closure holds of
\* canBanAndAdmin and of appliedSearch.  then: the handler that goes on after a load.
\* gone: the panel that it was for has closed.  "left": so has the page.
Handlers == {"open", "refresh", "join", "reread", "load", "act", "confirm", "lists", "room",
             "delete", "invite", "left"}
Reads == {"get", "members", "bans", "lists"}
Changes == Policy!Operations \union {"create"}
Nothing == [nothing |-> TRUE]
Idle == [by |-> "nobody", op |-> "none", stage |-> "idle"]

NewCall(by, op, of) ==
  [by |-> by, op |-> op, of |-> of, target |-> Me, gov |-> FALSE, search |-> NoSearch,
   then |-> "none", gone |-> FALSE, stage |-> "sent", got |-> Nothing]
Result(op) ==
  CASE op = "get" -> Detail
    [] op = "members" -> [Users -> RoleNames]
    [] op = "bans" -> SUBSET Users
    [] op = "lists" -> Found
    [] OTHER -> {Nothing}
IsRequest(q) ==
  /\ DOMAIN q = DOMAIN NewCall("open", "get", "here")
  /\ q.by \in Handlers /\ q.op \in Reads \union Changes /\ q.of \in RoomIds
  /\ q.target \in Users /\ q.gov \in BOOLEAN /\ q.search \in Searches
  /\ q.then \in {"none", "act", "confirm", "delete"} /\ q.gone \in BOOLEAN
  /\ q.stage \in {"sent", "mine", "catalog", "ok", "failed"}
  /\ q.stage = "ok" => q.got \in Result(q.op)
Get(by, of) == NewCall(by, "get", of)
Load(of, gov, then) == [NewCall("load", "members", of) EXCEPT !.gov = gov, !.then = then]
Lists(search, then) ==
  [NewCall("lists", "lists", "here") EXCEPT !.search = search, !.then = then,
                                            !.got = NothingFound]

Free(c) == call[c] = Idle
Answered(c, by, stage) == call[c].by = by /\ call[c].stage = stage
Become(c, q) == call' = [call EXCEPT ![c] = q]
Reply(c, stage, value) ==
  Become(c, IF call[c].by = "left" THEN Idle
                                   ELSE [call[c] EXCEPT !.stage = stage, !.got = value])
Answer(c, value) == Reply(c, "ok", value)
Refuse(c) == Reply(c, "failed", Nothing)
Quiet == \A c \in Calls : Free(c)

\* A load begins while no other is in flight that could overwrite it.
Alone(calls, by) == ~\E c \in Calls : calls[c].by = by

\* A change that has been sent will be made even when its page has gone; a read is ignored.
Orphan(q) ==
  IF q # Idle /\ q.op \in Changes /\ q.stage = "sent" THEN [q EXCEPT !.by = "left"] ELSE Idle

\* The panel closes: after what it has sent, the room is still read again.
PanelGone(q) ==
  CASE q.by \in {"act", "confirm"} -> [q EXCEPT !.gone = TRUE]
    [] q.by = "load" -> IF q.then = "none" THEN Idle ELSE Get("refresh", q.of)
    [] OTHER -> q

\* (mutant: the request of the page that is left is not cancelled)
AfterMoveUncancelled(q) == PanelGone(q)

\* From room to room the page stays: only its first request is cancelled.
AfterMove(q) == IF q.by = "open" THEN Idle ELSE PanelGone(q)

----------------------------------------------------------------------------
\* The others change the room.
OthersAct ==
  /\ changes < MaxChanges
  /\ \E op \in Policy!Operations, u \in Users \ {Me}, target \in Users :
       Policy!Perform(op, u, target)
  /\ changes' = changes + 1
  /\ settled' = FALSE
  /\ UNCHANGED <<address, roomPage, list, call>>

\* getRoom: a private room is for its members only, and they are not asked about bans.
CanGet(of) ==
  of = "there" \/ room = "public" \/ (room = "private" /\ role[Me] # "none")
GotRoom(of) ==
  [of |-> of, role |-> IF of = "here" THEN role[Me] ELSE RoleThere[Me],
   banned |-> of = "here" /\ room = "public" /\ Me \in banned]

ServeGet(c) ==
  /\ call[c].stage = "sent" /\ call[c].op = "get"
  /\ IF CanGet(call[c].of) THEN Answer(c, GotRoom(call[c].of)) ELSE Refuse(c)
  /\ UNCHANGED <<tables, address, roomPage, list, settled, changes>>

\* listMemberProfiles
ServeMembers(c) ==
  /\ call[c].stage = "sent" /\ call[c].op = "members"
  /\ LET members == IF call[c].of = "here" THEN role ELSE RoleThere
     IN IF members[Me] # "none" THEN Answer(c, members) ELSE Refuse(c)
  /\ UNCHANGED <<tables, address, roomPage, list, settled, changes>>

\* listRoomBans
ServeBans(c) ==
  /\ call[c].stage = "sent" /\ call[c].op = "bans"
  /\ IF call[c].of = "here" /\ isOwnerOrRoomAdmin(role[Me]) THEN Answer(c, banned)
                                                            ELSE Refuse(c)
  /\ UNCHANGED <<tables, address, roomPage, list, settled, changes>>

\* The two lists are read by two requests, and the page waits for both.
Reached(c, part, other) ==
  IF call[c].stage = other THEN "ok" ELSE part

\* listMyRooms
ServeMine(c) ==
  /\ call[c].op = "lists" /\ call[c].stage \in {"sent", "catalog"}
  /\ Become(c, [call[c] EXCEPT !.stage = Reached(c, "mine", "catalog"),
                               !.got.mine = role[Me], !.got.private = room = "private"])
  /\ UNCHANGED <<tables, address, roomPage, list, settled, changes>>

\* publicCatalog; the room matches every search.
InCatalog == room = "public" /\ Me \notin banned
ServeCatalog(c) ==
  /\ call[c].op = "lists" /\ call[c].stage \in {"sent", "mine"}
  /\ Become(c, [call[c] EXCEPT !.stage = Reached(c, "catalog", "mine"),
                               !.got.found = InCatalog])
  /\ UNCHANGED <<tables, address, roomPage, list, settled, changes>>

\* What the service answers with success although it has nothing to change.
NothingToDo(op, target) ==
  \/ op = "join" /\ room = "public" /\ Me \notin banned /\ role[Me] # "none"
  \/ op = "leave" /\ role[Me] = "none"
  \/ /\ op = "invite" /\ room = "private" /\ isRoomStaff(role[Me])
     /\ target # Me /\ target \notin banned /\ role[target] # "none"

Allowed(op, target) ==
  IF op = "create" THEN room = "absent" ELSE Policy!Allows(op, Me, target)
Decision(op, target) ==
  IF op = "create" THEN Policy!Create ELSE Policy!Perform(op, Me, target)

\* A change that a panel or a page was left with overtakes what is shown by now.
Serve(c) ==
  /\ call[c].stage = "sent" /\ call[c].op \in Changes /\ call[c].of = "here"
  /\ Decision(call[c].op, call[c].target)
  /\ Answer(c, Nothing)
  /\ settled' = (settled /\ ~call[c].gone /\ call[c].by # "left")
  /\ changes' = changes + 1
  /\ UNCHANGED <<address, roomPage, list>>

ServeInVain(c) ==
  /\ call[c].stage = "sent" /\ call[c].op \in Changes
  /\ call[c].of = "there" \/ ~Allowed(call[c].op, call[c].target)
  /\ IF call[c].of = "here" /\ NothingToDo(call[c].op, call[c].target)
       THEN Answer(c, Nothing) ELSE Refuse(c)
  /\ UNCHANGED <<tables, address, roomPage, list, settled, changes>>

\* The request is lost, or its answer.
Lose(c) ==
  /\ Faults
  /\ call[c].stage \in {"sent", "mine", "catalog", "ok"}
  /\ Refuse(c)
  /\ settled' = FALSE
  /\ UNCHANGED <<tables, address, roomPage, list, changes>>

----------------------------------------------------------------------------
\* The room arrives.  If the user is no longer inside, or only now, the panel goes or is
\* new; if canBanAndAdmin changes under an open panel, it loads again.
ShowDetail(c, d) ==
  LET stays == Inside(detail) /\ Inside(d)
      gov == isOwnerOrRoomAdmin(d.role)
      reload == stays /\ panel.open /\ gov # isOwnerOrRoomAdmin(detail.role)
      others == [x \in Calls |-> CASE x = c -> Idle
                                   [] x # c /\ stays -> call[x]
                                   [] x # c /\ ~stays -> PanelGone(call[x])]
  IN /\ detail' = d
     /\ panel' = IF stays THEN panel ELSE ClosedPanel
     /\ call' = IF reload THEN [others EXCEPT ![c] = Load(address, gov, "none")] ELSE others
     /\ settled' = IF reload THEN Alone(others, "load") ELSE settled
     /\ UNCHANGED <<tables, address, list, changes>>

Opened(c) ==
  /\ Answered(c, "open", "ok")
  /\ ShowDetail(c, call[c].got)
  /\ UNCHANGED <<loadError, joining>>

OpenFailed(c) ==
  /\ Answered(c, "open", "failed")
  /\ loadError' = TRUE
  /\ Become(c, Idle)
  /\ UNCHANGED <<tables, address, detail, joining, panel, list, settled, changes>>

\* refreshRoom shows the room that it was called for, and ignores errors.
Refreshed(c) ==
  /\ Answered(c, "refresh", "ok")
  /\ ShowDetail(c, call[c].got)
  /\ UNCHANGED <<loadError, joining>>

RefreshFailed(c) ==
  /\ Answered(c, "refresh", "failed")
  /\ Become(c, Idle)
  /\ UNCHANGED <<tables, address, roomPage, list, settled, changes>>

\* handleJoin: the room has been joined and is read again.
Joined(c) ==
  /\ Answered(c, "join", "ok")
  /\ Become(c, Get("reread", call[c].of))
  /\ UNCHANGED <<tables, address, roomPage, list, settled, changes>>

Reread(c) ==
  /\ Answered(c, "reread", "ok")
  /\ ShowDetail(c, call[c].got)
  /\ joining' = FALSE
  /\ UNCHANGED loadError

\* (mutant: the button is given back on success only)
JoinFailedStillBusy(c) ==
  /\ Answered(c, "join", "failed") \/ Answered(c, "reread", "failed")
  /\ loadError' = TRUE
  /\ Become(c, Idle)
  /\ UNCHANGED <<tables, address, detail, joining, panel, list, settled, changes>>

JoinFailed(c) ==
  /\ Answered(c, "join", "failed") \/ Answered(c, "reread", "failed")
  /\ loadError' = TRUE
  /\ joining' = FALSE
  /\ Become(c, Idle)
  /\ UNCHANGED <<tables, address, detail, panel, list, settled, changes>>

----------------------------------------------------------------------------
\* The panel.  A load ends; what it was a part of goes on.
AfterLoad(c) == IF call[c].then = "none" THEN Idle ELSE Get("refresh", call[c].of)
NoLongerBusy(p, c) ==
  IF call[c].then = "confirm" THEN [p EXCEPT !.confirmBusy = FALSE] ELSE p

MembersLoaded(c) ==
  /\ Answered(c, "load", "ok") /\ call[c].op = "members"
  /\ LET shown == [panel EXCEPT !.members = call[c].got]
     IN IF call[c].gov
        THEN /\ panel' = shown
             /\ Become(c, [call[c] EXCEPT !.op = "bans", !.stage = "sent", !.got = Nothing])
        ELSE /\ panel' = NoLongerBusy([shown EXCEPT !.bans = {}], c)
             /\ Become(c, AfterLoad(c))
  /\ UNCHANGED <<tables, address, detail, loadError, joining, list, settled, changes>>

BansLoaded(c) ==
  /\ Answered(c, "load", "ok") /\ call[c].op = "bans"
  /\ panel' = NoLongerBusy([panel EXCEPT !.bans = call[c].got], c)
  /\ Become(c, AfterLoad(c))
  /\ UNCHANGED <<tables, address, detail, loadError, joining, list, settled, changes>>

\* An error is shown beside the old lists.
LoadFailed(c) ==
  /\ Answered(c, "load", "failed")
  /\ panel' = NoLongerBusy(panel, c)
  /\ Become(c, AfterLoad(c))
  /\ settled' = FALSE
  /\ UNCHANGED <<tables, address, detail, loadError, joining, list, changes>>

\* (mutant: nothing is loaded after a change that needs no confirmation)
ActDoneNoLoad(c) ==
  /\ Answered(c, "act", "ok")
  /\ panel' = IF call[c].gone THEN panel ELSE [panel EXCEPT !.busy = FALSE]
  /\ Become(c, Get("refresh", call[c].of))
  /\ UNCHANGED <<tables, address, detail, loadError, joining, list, settled, changes>>

\* The change is made.  A panel that is still there loads, with the closure of the click: if
\* canBanAndAdmin is another by now, the bans are not what is loaded last.
Reload(c, then) ==
  IF call[c].gone
  THEN Become(c, Get("refresh", call[c].of)) /\ UNCHANGED settled
  ELSE /\ Become(c, Load(call[c].of, call[c].gov, then))
       /\ settled' = (Alone(call, "load") /\ call[c].gov = isOwnerOrRoomAdmin(detail.role))

ActDone(c) ==
  /\ Answered(c, "act", "ok")
  /\ panel' = IF call[c].gone THEN panel ELSE [panel EXCEPT !.busy = FALSE]
  /\ Reload(c, "act")
  /\ UNCHANGED <<tables, address, detail, loadError, joining, list, changes>>

ActFailed(c) ==
  /\ Answered(c, "act", "failed")
  /\ panel' = IF call[c].gone THEN panel ELSE [panel EXCEPT !.busy = FALSE]
  /\ Become(c, Idle)
  /\ UNCHANGED <<tables, address, detail, loadError, joining, list, settled, changes>>

\* The dialog closes, and stays busy until the lists are there.
ConfirmDone(c) ==
  /\ Answered(c, "confirm", "ok")
  /\ panel' = IF call[c].gone THEN panel ELSE [panel EXCEPT !.pending = NoAction]
  /\ Reload(c, "confirm")
  /\ UNCHANGED <<tables, address, detail, loadError, joining, list, changes>>

\* The dialog stays open.
ConfirmFailed(c) ==
  /\ Answered(c, "confirm", "failed")
  /\ panel' = IF call[c].gone THEN panel ELSE [panel EXCEPT !.confirmBusy = FALSE]
  /\ Become(c, Idle)
  /\ UNCHANGED <<tables, address, detail, loadError, joining, list, settled, changes>>

----------------------------------------------------------------------------
\* The list of rooms.
NoLongerDeleting(l, c) ==
  IF call[c].then = "delete" THEN [l EXCEPT !.deleteBusy = FALSE] ELSE l

Listed(c) ==
  /\ Answered(c, "lists", "ok")
  /\ LET shows == call[c].got
     IN list' = NoLongerDeleting([list EXCEPT !.shows = shows, !.of = call[c].search,
                                              !.submitting = @ /\ HasForm(shows)], c)
  /\ Become(c, Idle)
  /\ UNCHANGED <<tables, address, roomPage, settled, changes>>

ListsFailed(c) ==
  /\ Answered(c, "lists", "failed")
  /\ list' = NoLongerDeleting(list, c)
  /\ Become(c, Idle)
  /\ settled' = FALSE
  /\ UNCHANGED <<tables, address, roomPage, changes>>

\* (mutant: a change is not followed by a load)
ListAgainNever(c, then) ==
  /\ Become(c, Idle)
  /\ UNCHANGED settled

\* The lists are read again, for the search that was applied at the click.
ListAgain(c, then) ==
  /\ Become(c, Lists(call[c].search, then))
  /\ settled' = (Alone(call, "lists") /\ call[c].search = list.applied)

\* A room has been created, joined or left.
RoomDone(c) ==
  /\ Answered(c, "room", "ok")
  /\ list' = [list EXCEPT !.busy = FALSE]
  /\ ListAgain(c, "none")
  /\ UNCHANGED <<tables, address, roomPage, changes>>

RoomFailed(c) ==
  /\ Answered(c, "room", "failed")
  /\ list' = [list EXCEPT !.busy = FALSE]
  /\ Become(c, Idle)
  /\ UNCHANGED <<tables, address, roomPage, settled, changes>>

RoomDeleted(c) ==
  /\ Answered(c, "delete", "ok")
  /\ list' = [list EXCEPT !.deleting = FALSE]
  /\ ListAgain(c, "delete")
  /\ UNCHANGED <<tables, address, roomPage, changes>>

DeleteFailed(c) ==
  /\ Answered(c, "delete", "failed")
  /\ list' = [list EXCEPT !.deleteBusy = FALSE]
  /\ Become(c, Idle)
  /\ UNCHANGED <<tables, address, roomPage, settled, changes>>

Invited(c) ==
  /\ Answered(c, "invite", "ok")
  /\ list' = [list EXCEPT !.submitting = FALSE]
  /\ ListAgain(c, "none")
  /\ UNCHANGED <<tables, address, roomPage, changes>>

InviteFailed(c) ==
  /\ Answered(c, "invite", "failed")
  /\ list' = [list EXCEPT !.submitting = FALSE]
  /\ Become(c, Idle)
  /\ UNCHANGED <<tables, address, roomPage, settled, changes>>

----------------------------------------------------------------------------
\* The user.  Another page: its component starts anew, except from one room to another.
GoTo(page) ==
  /\ page # address
  /\ LET stays == "list" \notin {page, address}
         kept == [c \in Calls |-> IF stays THEN AfterMove(call[c]) ELSE Orphan(call[c])]
     IN /\ \E c \in Calls :
             /\ kept[c] = Idle
             /\ call' = [kept EXCEPT ![c] = IF page = "list" THEN Lists(NoSearch, "none")
                                                             ELSE Get("open", page)]
        /\ joining' = (joining /\ stays)
  /\ address' = page
  /\ detail' = NoDetail
  /\ loadError' = FALSE
  /\ panel' = ClosedPanel
  /\ list' = NewList
  /\ settled' = TRUE
  /\ UNCHANGED <<tables, changes>>

\* "Join room to chat"
Join(c) ==
  /\ Free(c) /\ ~joining
  /\ address # "list" /\ detail.of # "nothing" /\ detail.role = "none" /\ ~detail.banned
  /\ Become(c, NewCall("join", "join", address))
  /\ joining' = TRUE /\ loadError' = FALSE
  /\ UNCHANGED <<tables, address, detail, panel, list, settled, changes>>

OpenPanel(c) ==
  /\ Free(c)
  /\ Inside(detail) /\ isRoomStaff(detail.role) /\ ~panel.open
  /\ panel' = [ClosedPanel EXCEPT !.open = TRUE]
  /\ Become(c, Load(address, isOwnerOrRoomAdmin(detail.role), "none"))
  /\ settled' = Alone(call, "load")
  /\ UNCHANGED <<tables, address, detail, loadError, joining, list, changes>>

ClosePanel ==
  /\ Visible /\ panel.pending = NoAction
  /\ panel' = ClosedPanel
  /\ call' = [c \in Calls |-> PanelGone(call[c])]
  /\ UNCHANGED <<tables, address, detail, loadError, joining, list, settled, changes>>

\* (mutant: an admin is offered what only the owner may do)
OffersAdminsAppoint(op, mine, theirs, self) ==
  CASE op \in {"promote", "addAdmin"} -> isOwnerOrRoomAdmin(mine) /\ theirs = "member"
    [] op = "demote" -> isOwnerOrRoomAdmin(mine) /\ theirs = "mod"
    [] op = "removeAdmin" -> isOwnerOrRoomAdmin(mine) /\ theirs = "admin"
    [] op = "ban" -> isOwnerOrRoomAdmin(mine) /\ theirs # "owner" /\ ~self
    [] op = "kick" -> /\ ~self
                      /\ \/ mine = "owner" /\ theirs # "owner"
                         \/ mine = "admin" /\ theirs \notin {"admin", "owner"}
                         \/ mine = "mod" /\ theirs = "member"

\* MemberRow: the entries of a member's menu.
Offers(op, mine, theirs, self) ==
  CASE op = "promote" -> isOwnerOrRoomAdmin(mine) /\ theirs = "member"
    [] op = "addAdmin" -> mine = "owner" /\ theirs = "member"
    [] op = "demote" -> isOwnerOrRoomAdmin(mine) /\ theirs = "mod"
    [] op = "removeAdmin" -> isOwnerOrRoomAdmin(mine) /\ theirs = "admin"
    [] op = "ban" -> isOwnerOrRoomAdmin(mine) /\ theirs # "owner" /\ ~self
    [] op = "kick" -> /\ ~self
                      /\ \/ mine = "owner" /\ theirs # "owner"
                         \/ mine = "admin" /\ theirs \notin {"admin", "owner"}
                         \/ mine = "mod" /\ theirs = "member"

Offered(op, u) ==
  panel.members[u] # "none" /\ Offers(op, detail.role, panel.members[u], u = Me)

\* A dialog covers the panel.
AtHand == Visible /\ panel.pending = NoAction /\ ~panel.busy

PanelCall(by, op, u) ==
  [NewCall(by, op, address) EXCEPT !.target = u, !.gov = isOwnerOrRoomAdmin(detail.role)]

\* runPromoteMod, runMakeAdmin, runDemoteMod
Act(c, op, u) ==
  /\ Free(c) /\ AtHand /\ Offered(op, u)
  /\ panel' = [panel EXCEPT !.busy = TRUE]
  /\ Become(c, PanelCall("act", op, u))
  /\ UNCHANGED <<tables, address, detail, loadError, joining, list, settled, changes>>

\* From a member's menu, from the list of bans, or by an id that is typed in.
Ask(op, u) ==
  /\ AtHand
  /\ \/ op # "unban" /\ Offered(op, u)
     \/ isOwnerOrRoomAdmin(detail.role) /\ op = "unban" /\ u \in panel.bans
     \/ isOwnerOrRoomAdmin(detail.role) /\ op = "ban"
  /\ panel' = [panel EXCEPT !.pending = [op |-> op, target |-> u]]
  /\ UNCHANGED <<tables, address, detail, loadError, joining, list, call, settled, changes>>

Cancel ==
  /\ Visible /\ panel.pending # NoAction /\ ~panel.confirmBusy
  /\ panel' = [panel EXCEPT !.pending = NoAction]
  /\ UNCHANGED <<tables, address, detail, loadError, joining, list, call, settled, changes>>

\* executePending
Confirm(c) ==
  /\ Free(c) /\ Visible /\ panel.pending # NoAction /\ ~panel.confirmBusy
  /\ panel' = [panel EXCEPT !.confirmBusy = TRUE]
  /\ Become(c, PanelCall("confirm", panel.pending.op, panel.pending.target))
  /\ UNCHANGED <<tables, address, detail, loadError, joining, list, settled, changes>>

----------------------------------------------------------------------------
Listing == address = "list" /\ ~list.deleting

\* setAppliedSearch, and the effect that loads.
Search(c, s) ==
  /\ Free(c) /\ Listing /\ ~list.busy /\ s # list.applied
  /\ list' = [list EXCEPT !.applied = s]
  /\ Become(c, Lists(s, "none"))
  /\ settled' = Alone(call, "lists")
  /\ UNCHANGED <<tables, address, roomPage, changes>>

ListCall(by, op) == [NewCall(by, op, "here") EXCEPT !.search = list.applied]

ListOffers(op) ==
  CASE op = "create" -> TRUE
    [] op = "join" -> list.shows.found
    [] op = "leave" -> list.shows.mine \notin {"none", "owner"}

RoomAct(c, op) ==
  /\ Free(c) /\ Listing /\ ~list.busy /\ ListOffers(op)
  /\ list' = [list EXCEPT !.busy = TRUE]
  /\ Become(c, ListCall("room", op))
  /\ UNCHANGED <<tables, address, roomPage, settled, changes>>

AskDelete ==
  /\ Listing /\ ~list.busy /\ list.shows.mine = "owner"
  /\ list' = [list EXCEPT !.deleting = TRUE]
  /\ UNCHANGED <<tables, address, roomPage, call, settled, changes>>

CancelDelete ==
  /\ list.deleting /\ ~list.deleteBusy
  /\ list' = [list EXCEPT !.deleting = FALSE]
  /\ UNCHANGED <<tables, address, roomPage, call, settled, changes>>

ConfirmDelete(c) ==
  /\ Free(c) /\ list.deleting /\ ~list.deleteBusy
  /\ list' = [list EXCEPT !.deleteBusy = TRUE]
  /\ Become(c, ListCall("delete", "delete"))
  /\ UNCHANGED <<tables, address, roomPage, settled, changes>>

Invite(c, u) ==
  /\ Free(c) /\ Listing /\ ~list.busy /\ ~list.submitting /\ HasForm(list.shows)
  /\ list' = [list EXCEPT !.submitting = TRUE]
  /\ Become(c, [ListCall("invite", "invite") EXCEPT !.target = u])
  /\ UNCHANGED <<tables, address, roomPage, settled, changes>>

----------------------------------------------------------------------------
\* The tab has the list of rooms open; there is a room, with its owner, or none yet.
Init ==
  /\ \/ room = "absent" /\ role = NoMembers
     \/ /\ room \in {"public", "private"}
        /\ role \in [Users -> RoleNames]
        /\ Cardinality({u \in Users : role[u] = "owner"}) = 1
        /\ Cardinality({u \in Users : role[u] # "none"}) <= MAX_ROOM_PARTICIPANTS
  /\ banned = {}
  /\ address = "list"
  /\ detail = NoDetail /\ loadError = FALSE /\ joining = FALSE /\ panel = ClosedPanel
  /\ list = NewList
  /\ \E c \in Calls : call = [x \in Calls |-> IF x = c THEN Lists(NoSearch, "none") ELSE Idle]
  /\ settled = TRUE /\ changes = 0

ServiceStep(c) ==
  \/ ServeGet(c) \/ ServeMembers(c) \/ ServeBans(c) \/ ServeMine(c) \/ ServeCatalog(c)
  \/ Serve(c) \/ ServeInVain(c) \/ Lose(c)

PageStep(c) ==
  \/ Opened(c) \/ OpenFailed(c) \/ Refreshed(c) \/ RefreshFailed(c) \/ Joined(c) \/ Reread(c)
  \/ JoinFailed(c) \/ MembersLoaded(c) \/ BansLoaded(c) \/ LoadFailed(c)
  \/ ActDone(c) \/ ActFailed(c) \/ ConfirmDone(c) \/ ConfirmFailed(c)
  \/ Listed(c) \/ ListsFailed(c) \/ RoomDone(c) \/ RoomFailed(c) \/ RoomDeleted(c)
  \/ DeleteFailed(c) \/ Invited(c) \/ InviteFailed(c)

UserStep(c) ==
  \/ Join(c) \/ OpenPanel(c) \/ Confirm(c) \/ ConfirmDelete(c)
  \/ \E op \in DirectOps, u \in Users : Act(c, op, u)
  \/ \E s \in Searches : Search(c, s)
  \/ \E op \in ListOps : RoomAct(c, op)
  \/ \E u \in Users : Invite(c, u)

Next ==
  \/ \E c \in Calls : ServiceStep(c) \/ PageStep(c) \/ UserStep(c)
  \/ OthersAct \/ ClosePanel \/ Cancel \/ AskDelete \/ CancelDelete
  \/ \E page \in RoomIds \union {"list"} : GoTo(page)
  \/ \E op \in DialogOps, u \in Users : Ask(op, u)

Spec == Init /\ [][Next]_vars

----------------------------------------------------------------------------
\* The shape of the state.
TypeOK ==
  /\ room \in {"absent", "public", "private", "deleted"}
  /\ role \in [Users -> RoleNames] /\ banned \subseteq Users
  /\ address \in RoomIds \union {"list"} /\ detail \in Detail
  /\ loadError \in BOOLEAN /\ joining \in BOOLEAN /\ settled \in BOOLEAN
  /\ panel \in Panel /\ list \in List
  /\ DOMAIN call = Calls /\ \A c \in Calls : Free(c) \/ IsRequest(call[c])

\* What the panel offers, when it shows how things are, the service allows: the rules of the
\* menus (MemberRow) and those of the handlers agree, though they are written twice.
OfferedIsAllowed ==
  Visible /\ address = "here" /\ detail = GotRoom("here") /\ panel.members = role =>
    \A op \in (DialogOps \union DirectOps) \ {"unban"}, u \in Users :
      Offered(op, u) => Allowed(op, u)

\* Once nothing is in flight, the panel shows the room's members and bans as they are after
\* all that its user has done: every change is followed by a load that reads after it.  Not
\* so when loads overlapped, for the earlier may arrive last, when one failed, when the others
\* have changed the room meanwhile, or when a change was answered to a handler whose closure
\* has the rank that the user had before: it loads, or drops, the bans by that.
PanelCurrent ==
  Quiet /\ settled /\ Visible /\ address = "here" =>
    /\ panel.members = role
    /\ isOwnerOrRoomAdmin(detail.role) => panel.bans = banned

\* The same of the list of rooms and of the search: the catalog is that of the search above
\* it.
ListCurrent ==
  Quiet /\ settled /\ address = "list" =>
    /\ list.shows.mine = role[Me]
    /\ list.shows.found = InCatalog
    /\ list.of = list.applied

\* A button that is disabled while a request runs is so only while one runs: none is left
\* disabled, whatever the answer was and wherever the user has gone meanwhile.
BusyOnlyWhileWaiting ==
  LET awaits(by) == \E c \in Calls : call[c].by = by
      ends(then) == \E c \in Calls : ~Free(c) /\ call[c].then = then
      here(by) == \E c \in Calls : call[c].by = by /\ ~call[c].gone
  IN /\ joining => awaits("join") \/ awaits("reread")
     /\ panel.busy => here("act")
     /\ panel.confirmBusy => here("confirm") \/ ends("confirm")
     /\ list.busy => awaits("room")
     /\ list.deleteBusy => awaits("delete") \/ ends("delete")
     /\ list.submitting => awaits("invite")

\* The answer to a page's own first request never puts another room on it than the one in
\* the URL.  Only refreshRoom and handleJoin, which have no cancelled flag, can.
OpensItsOwnRoom ==
  [][\A c \in Calls : Answered(c, "open", "ok") /\ call'[c].by # "open" =>
       detail'.of \in {address', "nothing"}]_vars
=============================================================================
