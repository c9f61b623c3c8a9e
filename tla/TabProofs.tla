------------------------------ MODULE TabProofs ------------------------------
(***************************************************************************)
(* Theorems about what runs in a browser tab: the pages that show rooms    *)
(* (RoomPages), and the presence that every tab of the browser reports and *)
(* shows (Presence).                                                       *)
(***************************************************************************)
EXTENDS RoomPages, Presence, TLAPS

----------------------------------------------------------------------------
(***************************************************************************)
(* The pages that show rooms.                                              *)
(***************************************************************************)

(* Requests *)

ListHandlers == {"lists", "room", "delete", "invite"}
ListChanges == {"room", "delete", "invite"}
PanelChanges == {"act", "confirm"}

\* What the handlers ask, and what is put into the answer.
Made(q) ==
  /\ q.by \in {"open", "refresh", "reread"} => q.op = "get"
  /\ q.by = "join" => q.op = "join"
  /\ q.by = "load" => q.op \in {"members", "bans"}
  /\ q.by \in PanelChanges => q.op \in DialogOps \union DirectOps
  /\ q.by = "room" => q.op \in ListOps
  /\ q.by = "delete" => q.op = "delete"
  /\ q.by = "invite" => q.op = "invite"
  /\ q.by = "lists" <=> q.op = "lists"
  /\ q.by = "left" => q.op \in Changes /\ q.stage = "sent"
  /\ q.by \in ListHandlers => q.of = "here"
  /\ q.then # "none" => \/ q.by = "load" /\ q.then \in {"act", "confirm"}
                        \/ q.by = "lists" /\ q.then = "delete"
  /\ q.gone => q.by \in PanelChanges \union {"left"}
  /\ q.stage \in {"mine", "catalog"} => q.op = "lists"
  /\ q.op = "lists" /\ q.stage # "failed" => q.got \in Found
  /\ q.op = "get" /\ q.stage = "ok" => q.got.of = q.of

\* Every handler that is still to go on is one of the page that is shown; those of the panel
\* are of the panel that is open, and of the room in the URL.
OfPanel(q) == q.by = "load" \/ (q.by \in PanelChanges /\ ~q.gone)
InPlace(q) ==
  /\ q.by \in ListHandlers => address = "list"
  /\ q.by \notin ListHandlers \union {"left"} => address # "list"
  /\ q.by = "open" => q.of = address
  /\ OfPanel(q) => panel.open /\ q.of = address

Sound ==
  /\ \A c \in Calls : Free(c) \/ (Made(call[c]) /\ InPlace(call[c]))
  /\ address = "list" => detail = NoDetail
  /\ address # "list" => ~list.deleting
  /\ panel.open => Inside(detail)

Overtakes(q, handlers) == q.by \in handlers /\ q.stage = "ok" /\ ~q.gone
Overtaken(handlers) == \E c \in Calls : Overtakes(call[c], handlers)

\* What a load of the lists has read is still so.
StillSo(q) ==
  /\ q.stage \in {"mine", "ok"} => q.got.mine = role[Me]
  /\ q.stage \in {"catalog", "ok"} => q.got.found = InCatalog

\* While nothing has overtaken the list of rooms, it shows how things are, or a load is under
\* way, and only one, that will: unless the user's own change has been made, for whose answer
\* the lists are loaded again.
ListSettled ==
  settled /\ address = "list" =>
    /\ \A c, d \in Calls : call[c].by = "lists" /\ call[d].by = "lists" => c = d
    /\ \A c \in Calls : call[c].by = "lists" =>
         /\ call[c].stage # "failed" /\ call[c].search = list.applied
         /\ Overtaken(ListChanges) \/ StillSo(call[c])
    /\ Alone(call, "lists") =>
         /\ list.of = list.applied
         /\ \/ Overtaken(ListChanges)
            \/ list.shows.mine = role[Me] /\ list.shows.found = InCatalog

\* The same of the panel.  Members are shown to a member: the user's own request to join, if
\* one is left in flight, is in vain.
MembersAre(shown) == role[Me] # "none" /\ shown = role
LoadsWell(q) ==
  \/ q.stage = "failed"
  \/ q.op = "members" /\ (q.stage = "ok" => MembersAre(q.got))
  \/ q.op = "bans" /\ MembersAre(panel.members) /\ (q.stage = "ok" => q.got = banned)
PanelSettled ==
  settled /\ address = "here" /\ panel.open =>
    /\ \A c, d \in Calls : call[c].by = "load" /\ call[d].by = "load" => c = d
    /\ \A c \in Calls : call[c].by = "load" =>
         /\ call[c].gov = isOwnerOrRoomAdmin(detail.role)
         /\ Overtaken(PanelChanges) \/ LoadsWell(call[c])
    /\ Alone(call, "load") =>
         \/ Overtaken(PanelChanges)
         \/ /\ MembersAre(panel.members)
            /\ isOwnerOrRoomAdmin(detail.role) => panel.bans = banned

PagesInv == TypeOK /\ Sound /\ BusyOnlyWhileWaiting /\ ListSettled /\ PanelSettled

IsCall(q) == q = Idle \/ (IsRequest(q) /\ Made(q))
Calling(c) == IsCall(call[c]) /\ (Free(c) \/ InPlace(call[c]))

LEMMA IdleFields == Idle.by = "nobody" /\ Idle.stage = "idle" /\ Idle.op = "none"
BY DEF Idle

LEMMA Fields ==
  ASSUME NEW q, IsRequest(q)
  PROVE  /\ DOMAIN q = {"by", "op", "of", "target", "gov", "search", "then", "gone",
                        "stage", "got"}
         /\ q # Idle /\ q.by # "nobody"
<1>1. DOMAIN q = {"by", "op", "of", "target", "gov", "search", "then", "gone", "stage", "got"}
  BY DEF IsRequest, NewCall
<1>2. q.by # "nobody"
  BY DEF IsRequest, Handlers
<1> QED BY <1>1, <1>2, IdleFields

\* A request as it is when it is sent.
Fresh(q, by, op, of) ==
  /\ IsRequest(q) /\ q.by = by /\ q.op = op /\ q.of = of
  /\ q.then = "none" /\ ~q.gone /\ q.stage = "sent" /\ q.got = Nothing

LEMMA NewCallFresh ==
  ASSUME NEW by \in Handlers, NEW op \in Reads \union Changes, NEW of \in RoomIds
  PROVE  Fresh(NewCall(by, op, of), by, op, of)
<1>1. DOMAIN NewCall(by, op, of) = DOMAIN NewCall("open", "get", "here")
  BY DEF NewCall
<1> QED BY <1>1, MeAssumption, SearchAssumption DEF NewCall, IsRequest, Fresh

\* The requests that handlers make.
LEMMA GetMade ==
  ASSUME NEW by \in {"open", "refresh", "reread"}, NEW of \in RoomIds
  PROVE  IsCall(Get(by, of)) /\ Fresh(Get(by, of), by, "get", of)
<1>1. by \in Handlers /\ "get" \in Reads \union Changes
  BY DEF Handlers, Reads
<1>2. PICK q : q = NewCall(by, "get", of)
  OBVIOUS
<1>3. Fresh(q, by, "get", of)
  BY <1>1, <1>2, NewCallFresh
<1>4. Made(q)
  BY <1>3 DEF Fresh, Made, PanelChanges, ListHandlers
<1> QED BY <1>2, <1>3, <1>4 DEF Get, IsCall, Fresh

LEMMA LoadMade ==
  ASSUME NEW of \in RoomIds, NEW gov \in BOOLEAN,
         NEW then \in {"none", "act", "confirm"},
         NEW r, r = Load(of, gov, then)
  PROVE  /\ IsCall(r) /\ IsRequest(r) /\ r.by = "load" /\ r.of = of /\ r.then = then
         /\ r.gov = gov /\ ~r.gone /\ r.stage = "sent" /\ r.op = "members"
<1>1. "load" \in Handlers /\ "members" \in Reads \union Changes
  BY DEF Handlers, Reads
<1>2. PICK q : q = NewCall("load", "members", of)
  OBVIOUS
<1>3. Fresh(q, "load", "members", of)
  BY <1>1, <1>2, NewCallFresh
<1>4. r = [q EXCEPT !.gov = gov, !.then = then]
  BY <1>2 DEF Load
<1>5. /\ DOMAIN r = DOMAIN q /\ r.by = q.by /\ r.op = q.op /\ r.of = q.of /\ r.then = then
      /\ r.gone = q.gone /\ r.stage = q.stage /\ r.got = q.got /\ r.gov = gov
      /\ r.target = q.target /\ r.search = q.search
  BY <1>3, <1>4, Fields DEF Fresh
<1>6. IsRequest(r)
  BY <1>3, <1>5 DEF Fresh, IsRequest
<1>7. Made(r)
  BY <1>3, <1>5 DEF Fresh, Made, PanelChanges, ListHandlers
<1> QED BY <1>3, <1>5, <1>6, <1>7 DEF IsCall, Fresh

LEMMA ListsMade ==
  ASSUME NEW search \in Searches, NEW then \in {"none", "delete"}, NEW r, r = Lists(search, then)
  PROVE  /\ IsCall(r) /\ IsRequest(r) /\ r.by = "lists" /\ r.of = "here" /\ r.then = then
         /\ r.search = search /\ ~r.gone /\ r.stage = "sent"
<1>1. /\ "lists" \in Handlers /\ "lists" \in Reads \union Changes /\ "here" \in RoomIds
      /\ NothingFound \in Found
  BY DEF Handlers, Reads, RoomIds, NothingFound, Found, RoleNames
<1>2. PICK q : q = NewCall("lists", "lists", "here")
  OBVIOUS
<1>3. Fresh(q, "lists", "lists", "here")
  BY <1>1, <1>2, NewCallFresh
<1>4. r = [q EXCEPT !.search = search, !.then = then, !.got = NothingFound]
  BY <1>2 DEF Lists
<1>5. /\ DOMAIN r = DOMAIN q /\ r.by = q.by /\ r.op = q.op /\ r.of = q.of /\ r.then = then
      /\ r.gone = q.gone /\ r.stage = q.stage /\ r.got = NothingFound /\ r.gov = q.gov
      /\ r.target = q.target /\ r.search = search
  BY <1>3, <1>4, Fields DEF Fresh
<1>6. IsRequest(r)
  BY <1>3, <1>5 DEF Fresh, IsRequest
<1>7. Made(r)
  BY <1>1, <1>3, <1>5 DEF Fresh, Made, PanelChanges, ListHandlers
<1> QED BY <1>3, <1>5, <1>6, <1>7 DEF IsCall, Fresh

\* The user's changes, from the panel and from the list of rooms.
LEMMA PanelCallMade ==
  ASSUME TypeOK, address # "list", NEW by \in PanelChanges,
         NEW op \in DialogOps \union DirectOps, NEW u \in Users,
         NEW r, r = PanelCall(by, op, u)
  PROVE  /\ IsCall(r) /\ IsRequest(r) /\ r.by = by /\ r.of = address
         /\ r.then = "none" /\ ~r.gone /\ r.stage = "sent"
<1>1. /\ by \in Handlers /\ op \in Reads \union Changes /\ address \in RoomIds
      /\ isOwnerOrRoomAdmin(detail.role) \in BOOLEAN
  BY DEF Handlers, Changes, Policy!Operations, PanelChanges, DialogOps, DirectOps, TypeOK,
     isOwnerOrRoomAdmin
<1>2. PICK q : q = NewCall(by, op, address)
  OBVIOUS
<1>3. Fresh(q, by, op, address)
  BY <1>1, <1>2, NewCallFresh
<1>4. r = [q EXCEPT !.target = u, !.gov = isOwnerOrRoomAdmin(detail.role)]
  BY <1>2 DEF PanelCall
<1>5. /\ DOMAIN r = DOMAIN q /\ r.by = q.by /\ r.op = q.op /\ r.of = q.of /\ r.then = q.then
      /\ r.gone = q.gone /\ r.stage = q.stage /\ r.got = q.got /\ r.target = u
      /\ r.gov = isOwnerOrRoomAdmin(detail.role) /\ r.search = q.search
  BY <1>3, <1>4, Fields DEF Fresh
<1>6. IsRequest(r)
  BY <1>1, <1>3, <1>5 DEF Fresh, IsRequest
<1>7. op \notin {"lists", "get"}
  BY DEF DialogOps, DirectOps
<1>8. Made(r)
  BY <1>3, <1>5, <1>7 DEF Fresh, Made, PanelChanges, ListHandlers
<1> QED BY <1>3, <1>5, <1>6, <1>8 DEF IsCall, Fresh

LEMMA ListCallMade ==
  ASSUME TypeOK, NEW by, NEW op, NEW u \in Users, NEW r,
         \/ by = "room" /\ op \in ListOps
         \/ by = "delete" /\ op = "delete"
         \/ by = "invite" /\ op = "invite",
         r = ListCall(by, op) \/ r = [ListCall(by, op) EXCEPT !.target = u]
  PROVE  /\ IsCall(r) /\ IsRequest(r) /\ r.by = by /\ r.of = "here"
         /\ r.then = "none" /\ ~r.gone /\ r.stage = "sent"
<1>1. /\ by \in Handlers /\ op \in Reads \union Changes /\ "here" \in RoomIds
      /\ list.applied \in Searches
  BY DEF Handlers, Changes, Policy!Operations, RoomIds, ListOps, TypeOK, List
<1>2. PICK q : q = NewCall(by, op, "here")
  OBVIOUS
<1>3. Fresh(q, by, op, "here")
  BY <1>1, <1>2, NewCallFresh
<1>4. PICK s : s = [q EXCEPT !.search = list.applied]
  OBVIOUS
<1>5. /\ DOMAIN s = DOMAIN q /\ s.by = q.by /\ s.op = q.op /\ s.of = q.of /\ s.then = q.then
      /\ s.gone = q.gone /\ s.stage = q.stage /\ s.got = q.got /\ s.target = q.target
      /\ s.gov = q.gov /\ s.search = list.applied
  BY <1>3, <1>4, Fields DEF Fresh
<1>6. r = s \/ r = [s EXCEPT !.target = u]
  BY <1>2, <1>4 DEF ListCall
<1>7. /\ DOMAIN r = DOMAIN s /\ r.by = s.by /\ r.op = s.op /\ r.of = s.of /\ r.then = s.then
      /\ r.gone = s.gone /\ r.stage = s.stage /\ r.got = s.got /\ r.target \in {s.target, u}
      /\ r.gov = s.gov /\ r.search = s.search
  BY <1>3, <1>5, <1>6, Fields DEF Fresh
<1>8. IsRequest(r)
  BY <1>1, <1>3, <1>5, <1>7 DEF Fresh, IsRequest
<1>9. Made(r)
  BY <1>3, <1>5, <1>7 DEF Fresh, Made, PanelChanges, ListHandlers, ListOps
<1> QED BY <1>3, <1>5, <1>7, <1>8, <1>9 DEF IsCall, Fresh

----------------------------------------------------------------------------
(* One slot changes *)

LEMMA Becomes ==
  ASSUME TypeOK, NEW c \in Calls, NEW q, Become(c, q)
  PROVE  /\ call'[c] = q /\ DOMAIN call' = Calls
         /\ \A x \in Calls : x # c => call'[x] = call[x]
BY DEF TypeOK, Become

LEMMA SlotSound ==
  ASSUME TypeOK, Sound, NEW c \in Calls, NEW q, Become(c, q), IsCall(q),
         q = Idle \/ InPlace(q)', address' = address, address = "list" => detail' = NoDetail,
         panel.open => panel'.open, panel'.open => Inside(detail'),
         address # "list" => ~list'.deleting
  PROVE  /\ Sound' /\ DOMAIN call' = Calls
         /\ \A x \in Calls : call'[x] = Idle \/ IsRequest(call'[x])
<1>1. /\ call'[c] = q /\ DOMAIN call' = Calls
      /\ \A x \in Calls : x # c => call'[x] = call[x]
  BY Becomes
<1>2. ASSUME NEW x \in Calls, x # c
      PROVE  /\ call'[x] = Idle \/ IsRequest(call'[x])
             /\ call'[x] = Idle \/ (Made(call'[x]) /\ InPlace(call[x])')
  <2>1. call'[x] = call[x]
    BY <1>1, <1>2
  <2>2. call[x] = Idle \/ (IsRequest(call[x]) /\ Made(call[x]) /\ InPlace(call[x]))
    BY DEF TypeOK, Sound, Free
  <2>3. InPlace(call[x]) => InPlace(call[x])'
    BY <2>1 DEF InPlace, OfPanel
  <2> QED BY <2>1, <2>2, <2>3
<1>3. call'[c] = Idle \/ (Made(call'[c]) /\ InPlace(call[c])')
  BY <1>1 DEF IsCall, InPlace, OfPanel
<1>4. \A x \in Calls : call'[x] = Idle \/ IsRequest(call'[x])
  BY <1>1, <1>2 DEF IsCall
<1>5. \A x \in Calls : Free(x)' \/ (Made(call[x])' /\ InPlace(call[x])')
  BY <1>2, <1>3 DEF Free, Made
<1> QED BY <1>1, <1>4, <1>5 DEF Sound, Inside

(* Buttons *)

Buttons == {"joining", "busy", "confirmBusy", "listBusy", "deleteBusy", "submitting"}
Disabled(b) ==
  \/ b = "joining" /\ joining
  \/ b = "busy" /\ panel.busy
  \/ b = "confirmBusy" /\ panel.confirmBusy
  \/ b = "listBusy" /\ list.busy
  \/ b = "deleteBusy" /\ list.deleteBusy
  \/ b = "submitting" /\ list.submitting
Holds(b, q) ==
  \/ b = "joining" /\ q.by \in {"join", "reread"}
  \/ b = "busy" /\ q.by = "act" /\ ~q.gone
  \/ b = "confirmBusy" /\ ((q.by = "confirm" /\ ~q.gone) \/ (q # Idle /\ q.then = "confirm"))
  \/ b = "listBusy" /\ q.by = "room"
  \/ b = "deleteBusy" /\ (q.by = "delete" \/ (q # Idle /\ q.then = "delete"))
  \/ b = "submitting" /\ q.by = "invite"

LEMMA BusyIsHeld ==
  BusyOnlyWhileWaiting <=> \A b \in Buttons : Disabled(b) => \E c \in Calls : Holds(b, call[c])
<1>1. BusyOnlyWhileWaiting =>
        \A b \in Buttons : Disabled(b) => \E c \in Calls : Holds(b, call[c])
  BY DEF BusyOnlyWhileWaiting, Buttons, Disabled, Holds, Free
<1>2. ASSUME \A b \in Buttons : Disabled(b) => \E c \in Calls : Holds(b, call[c])
      PROVE  BusyOnlyWhileWaiting
  <2>1. joining => \E c \in Calls : call[c].by \in {"join", "reread"}
    BY <1>2 DEF Buttons, Disabled, Holds
  <2>2. panel.busy => \E c \in Calls : call[c].by = "act" /\ ~call[c].gone
    BY <1>2 DEF Buttons, Disabled, Holds
  <2>3. panel.confirmBusy =>
          \E c \in Calls : \/ call[c].by = "confirm" /\ ~call[c].gone
                           \/ call[c] # Idle /\ call[c].then = "confirm"
    BY <1>2 DEF Buttons, Disabled, Holds
  <2>4. list.busy => \E c \in Calls : call[c].by = "room"
    BY <1>2 DEF Buttons, Disabled, Holds
  <2>5. list.deleteBusy =>
          \E c \in Calls : call[c].by = "delete" \/ (call[c] # Idle /\ call[c].then = "delete")
    BY <1>2 DEF Buttons, Disabled, Holds
  <2>6. list.submitting => \E c \in Calls : call[c].by = "invite"
    BY <1>2 DEF Buttons, Disabled, Holds
  <2> QED BY <2>1, <2>2, <2>3, <2>4, <2>5, <2>6 DEF BusyOnlyWhileWaiting, Free
<1> QED BY <1>1, <1>2

LEMMA BusyIsHeldNext ==
  (\A b \in Buttons : Disabled(b)' => \E c \in Calls : Holds(b, call'[c]))
    => BusyOnlyWhileWaiting'
<1>1. (BusyOnlyWhileWaiting <=>
        \A b \in Buttons : Disabled(b) => \E c \in Calls : Holds(b, call[c]))'
  BY BusyIsHeld, PTL
<1> QED BY <1>1

\* A button is given back, or what it waits for goes on.
LEMMA SlotBusy ==
  ASSUME TypeOK, BusyOnlyWhileWaiting, NEW c \in Calls, NEW q, Become(c, q),
         \A b \in Buttons : Disabled(b)' =>
           \/ Holds(b, q)
           \/ Disabled(b) /\ ~Holds(b, call[c])
  PROVE  BusyOnlyWhileWaiting'
<1>1. /\ call'[c] = q /\ \A x \in Calls : x # c => call'[x] = call[x]
  BY Becomes
<1>2. \A b \in Buttons : Disabled(b) => \E x \in Calls : Holds(b, call[x])
  BY BusyIsHeld
<1>3. ASSUME NEW b \in Buttons, Disabled(b)'
      PROVE  \E x \in Calls : Holds(b, call'[x])
  <2>1. CASE Holds(b, q)
    BY <1>1, <2>1
  <2>2. CASE Disabled(b) /\ ~Holds(b, call[c])
    <3>1. PICK x \in Calls : Holds(b, call[x])
      BY <1>2, <2>2
    <3>2. x # c
      BY <2>2, <3>1
    <3> QED BY <1>1, <3>1, <3>2
  <2> QED BY <1>3, <2>1, <2>2
<1> QED BY <1>3, BusyIsHeldNext

(* The lists and the panel, while nothing of theirs changes *)

LEMMA SlotList ==
  ASSUME TypeOK, ListSettled, NEW c \in Calls, NEW q, Become(c, q), address' = address,
         settled' => settled, list'.of = list.of, list'.applied = list.applied,
         list'.shows = list.shows, call[c].by # "lists", q.by # "lists",
         \/ Overtakes(q, ListChanges)
         \/ UNCHANGED tables /\ ~Overtakes(call[c], ListChanges)
  PROVE  ListSettled'
<1> SUFFICES ASSUME settled', address = "list"
             PROVE  ListSettled'
  BY DEF ListSettled
<1>1. /\ call'[c] = q /\ \A x \in Calls : x # c => call'[x] = call[x]
  BY Becomes
<1>2. /\ \A x, y \in Calls : call[x].by = "lists" /\ call[y].by = "lists" => x = y
      /\ \A x \in Calls : call[x].by = "lists" =>
           /\ call[x].stage # "failed" /\ call[x].search = list.applied
           /\ Overtaken(ListChanges) \/ StillSo(call[x])
      /\ Alone(call, "lists") =>
           /\ list.of = list.applied
           /\ \/ Overtaken(ListChanges)
              \/ list.shows.mine = role[Me] /\ list.shows.found = InCatalog
  BY DEF ListSettled
<1>3. \A x \in Calls : call'[x].by = "lists" => call'[x] = call[x]
  BY <1>1
<1>4. Alone(call', "lists") => Alone(call, "lists")
  BY <1>1 DEF Alone
<1>5. Overtaken(ListChanges) => Overtaken(ListChanges)'
  BY <1>1 DEF Overtaken, Overtakes
<1>6. \/ Overtaken(ListChanges)'
      \/ role' = role /\ InCatalog' = InCatalog
  BY <1>1 DEF Overtaken, Overtakes, tables, InCatalog
<1>7. \A x, y \in Calls : call'[x].by = "lists" /\ call'[y].by = "lists" => x = y
  BY <1>2, <1>3
<1>8. ASSUME NEW x \in Calls, call'[x].by = "lists"
      PROVE  /\ call'[x].stage # "failed" /\ call'[x].search = list'.applied
             /\ Overtaken(ListChanges)' \/ StillSo(call[x])'
  BY <1>2, <1>3, <1>5, <1>6, <1>8 DEF StillSo
<1>9. Alone(call', "lists") =>
           /\ list'.of = list'.applied
           /\ \/ Overtaken(ListChanges)'
              \/ list'.shows.mine = role'[Me] /\ list'.shows.found = InCatalog'
  BY <1>2, <1>4, <1>5, <1>6
<1> QED BY <1>7, <1>8, <1>9 DEF ListSettled

LEMMA SlotPanel ==
  ASSUME TypeOK, PanelSettled, NEW c \in Calls, NEW q, Become(c, q), address' = address,
         settled' => settled, panel'.open => panel.open, panel'.members = panel.members,
         panel'.bans = panel.bans,
         isOwnerOrRoomAdmin(detail'.role) = isOwnerOrRoomAdmin(detail.role),
         call[c].by # "load", q.by # "load",
         \/ Overtakes(q, PanelChanges)
         \/ UNCHANGED tables /\ ~Overtakes(call[c], PanelChanges)
  PROVE  PanelSettled'
<1> SUFFICES ASSUME settled', address = "here", panel'.open
             PROVE  PanelSettled'
  BY DEF PanelSettled
<1>1. /\ call'[c] = q /\ \A x \in Calls : x # c => call'[x] = call[x]
  BY Becomes
<1>2. /\ \A x, y \in Calls : call[x].by = "load" /\ call[y].by = "load" => x = y
      /\ \A x \in Calls : call[x].by = "load" =>
           /\ call[x].gov = isOwnerOrRoomAdmin(detail.role)
           /\ Overtaken(PanelChanges) \/ LoadsWell(call[x])
      /\ Alone(call, "load") =>
           \/ Overtaken(PanelChanges)
           \/ /\ MembersAre(panel.members)
              /\ isOwnerOrRoomAdmin(detail.role) => panel.bans = banned
  BY DEF PanelSettled
<1>3. \A x \in Calls : call'[x].by = "load" => call'[x] = call[x]
  BY <1>1
<1>4. Alone(call', "load") => Alone(call, "load")
  BY <1>1 DEF Alone
<1>5. Overtaken(PanelChanges) => Overtaken(PanelChanges)'
  BY <1>1 DEF Overtaken, Overtakes
<1>6. \/ Overtaken(PanelChanges)'
      \/ role' = role /\ banned' = banned
  BY <1>1 DEF Overtaken, Overtakes, tables
<1>7. \A x, y \in Calls : call'[x].by = "load" /\ call'[y].by = "load" => x = y
  BY <1>2, <1>3
<1>8. ASSUME NEW x \in Calls, call'[x].by = "load"
      PROVE  /\ call'[x].gov = isOwnerOrRoomAdmin(detail'.role)
             /\ Overtaken(PanelChanges)' \/ LoadsWell(call[x])'
  BY <1>2, <1>3, <1>5, <1>6, <1>8 DEF LoadsWell, MembersAre
<1>9. Alone(call', "load") =>
           \/ Overtaken(PanelChanges)'
           \/ /\ MembersAre(panel.members)'
              /\ isOwnerOrRoomAdmin(detail'.role) => panel'.bans = banned'
  BY <1>2, <1>4, <1>5, <1>6 DEF MembersAre
<1> QED BY <1>7, <1>8, <1>9 DEF PanelSettled

----------------------------------------------------------------------------
(* The service answers *)

\* What is asked tells who asks.
LEMMA Asks ==
  ASSUME NEW q, IsRequest(q), Made(q)
  PROVE  /\ q.op \in {"members", "bans"} <=> q.by = "load"
         /\ q.op = "get" <=> q.by \in {"open", "refresh", "reread"}
         /\ q.op \in Changes <=>
              q.by \in {"join", "left"} \union ListChanges \union PanelChanges
BY DEF IsRequest, Made, Handlers, Reads, Changes, Policy!Operations, ListHandlers,
       ListChanges, PanelChanges, DialogOps, DirectOps, ListOps

Continues(q, r) ==
  /\ IsRequest(q)
  /\ q.by = r.by /\ q.op = r.op /\ q.of = r.of /\ q.target = r.target /\ q.gov = r.gov
  /\ q.search = r.search /\ q.then = r.then /\ q.gone = r.gone

LEMMA InSlot ==
  ASSUME TypeOK, Sound, NEW c \in Calls, ~Free(c)
  PROVE  IsRequest(call[c]) /\ Made(call[c]) /\ InPlace(call[c])
BY DEF TypeOK, Sound

LEMMA StageIsSlot ==
  ASSUME TypeOK, Sound, NEW c \in Calls, call[c].stage # "idle" \/ call[c].by # "nobody"
  PROVE  /\ ~Free(c)
         /\ IsRequest(call[c]) /\ Made(call[c]) /\ InPlace(call[c])
BY InSlot, IdleFields DEF Free

LEMMA Replied ==
  ASSUME TypeOK, Sound, NEW c \in Calls, ~Free(c), NEW stage \in {"ok", "failed"}, NEW value,
         Reply(c, stage, value), stage = "failed" \/ call[c].op # "lists",
         stage = "ok" => value \in Result(call[c].op),
         stage = "ok" /\ call[c].op = "get" => value.of = call[c].of
  PROVE  \E q : /\ Become(c, q) /\ IsCall(q)
                /\ \/ call[c].by = "left" /\ q = Idle
                   \/ /\ call[c].by # "left" /\ Continues(q, call[c])
                      /\ q.stage = stage /\ q.got = value
<1>1. IsRequest(call[c]) /\ Made(call[c])
  BY InSlot
<1>2. CASE call[c].by = "left"
  BY <1>2 DEF Reply, IsCall
<1>3. CASE call[c].by # "left"
  <2>1. PICK q : q = [call[c] EXCEPT !.stage = stage, !.got = value]
    OBVIOUS
  <2>2. /\ DOMAIN q = DOMAIN call[c] /\ q.by = call[c].by /\ q.op = call[c].op
        /\ q.of = call[c].of /\ q.target = call[c].target /\ q.gov = call[c].gov
        /\ q.search = call[c].search /\ q.then = call[c].then /\ q.gone = call[c].gone
        /\ q.stage = stage /\ q.got = value
    BY <1>1, <2>1, Fields
  <2>3. IsRequest(q)
    BY <1>1, <2>2 DEF IsRequest
  <2>4. Made(q)
    BY <1>1, <1>3, <2>2 DEF Made
  <2> QED BY <1>3, <2>1, <2>2, <2>3, <2>4 DEF Reply, IsCall, Continues
<1> QED BY <1>2, <1>3

LEMMA Refused ==
  ASSUME TypeOK, Sound, NEW c \in Calls, ~Free(c), Refuse(c)
  PROVE  \E q : /\ Become(c, q) /\ IsCall(q)
                /\ \/ call[c].by = "left" /\ q = Idle
                   \/ /\ call[c].by # "left" /\ Continues(q, call[c])
                      /\ q.stage = "failed"
BY Replied DEF Refuse

\* What is on the page stays, and so do the handlers that wait.
LEMMA ServiceKeeps ==
  ASSUME TypeOK, Sound, BusyOnlyWhileWaiting, NEW c \in Calls, ~Free(c), NEW q,
         Become(c, q), IsCall(q), (call[c].by = "left" /\ q = Idle) \/ Continues(q, call[c]),
         UNCHANGED <<address, roomPage, list>>,
         room' \in {"absent", "public", "private", "deleted"},
         role' \in [Users -> RoleNames], banned' \subseteq Users, settled' \in BOOLEAN
  PROVE  TypeOK' /\ Sound' /\ BusyOnlyWhileWaiting'
<1>1. /\ address' = address /\ detail' = detail /\ loadError' = loadError
      /\ joining' = joining /\ panel' = panel /\ list' = list
  BY DEF roomPage
<1>2. IsRequest(call[c]) /\ Made(call[c]) /\ InPlace(call[c])
  BY InSlot
<1>3. q = Idle \/ InPlace(q)'
  BY <1>1, <1>2 DEF InPlace, OfPanel, Continues
<1>4. /\ Sound' /\ DOMAIN call' = Calls
      /\ \A x \in Calls : call'[x] = Idle \/ IsRequest(call'[x])
  BY <1>1, <1>3, SlotSound DEF Sound
<1>5. TypeOK'
  BY <1>1, <1>4 DEF TypeOK, Free
<1>6. \A b \in Buttons : Disabled(b)' => Disabled(b)
  BY <1>1 DEF Disabled
<1>7. \A b \in Buttons : Holds(b, call[c]) => Holds(b, q)
  <2>1. CASE call[c].by = "left"
    BY <1>2, <2>1 DEF Holds, Made
  <2>2. CASE Continues(q, call[c])
    BY <2>2, Fields DEF Holds, Continues
  <2> QED BY <2>1, <2>2
<1>8. BusyOnlyWhileWaiting'
  BY <1>6, <1>7, SlotBusy
<1> QED BY <1>4, <1>5, <1>8

LEMMA NotSettled == ~settled' => ListSettled' /\ PanelSettled'
BY DEF ListSettled, PanelSettled

LEMMA ServiceSettled ==
  ASSUME TypeOK, Sound, ListSettled, PanelSettled, NEW c \in Calls, ~Free(c), NEW q,
         Become(c, q), (call[c].by = "left" /\ q = Idle) \/ Continues(q, call[c]),
         UNCHANGED <<tables, address, roomPage, list, settled>>, call[c].stage # "ok"
  PROVE  /\ call[c].by # "lists" => ListSettled'
         /\ call[c].by # "load" => PanelSettled'
<1>1. /\ address' = address /\ detail' = detail /\ panel' = panel /\ list' = list
      /\ settled' = settled
  BY DEF roomPage
<1>2. q.by # "lists" \/ call[c].by = "lists"
  BY IdleFields DEF Continues
<1>3. q.by # "load" \/ call[c].by = "load"
  BY IdleFields DEF Continues
<1>4. ~Overtakes(call[c], ListChanges) /\ ~Overtakes(call[c], PanelChanges)
  BY DEF Overtakes
<1>5. call[c].by # "lists" => ListSettled'
  BY <1>1, <1>2, <1>4, SlotList
<1>6. call[c].by # "load" => PanelSettled'
  BY <1>1, <1>3, <1>4, SlotPanel
<1> QED BY <1>5, <1>6

LEMMA LoseKeeps ==
  ASSUME PagesInv, NEW c \in Calls, Lose(c)
  PROVE  PagesInv'
<1>1. ~Free(c)
  BY IdleFields DEF Lose, Free
<1>2. TypeOK' /\ Sound' /\ BusyOnlyWhileWaiting'
  <2>1. PICK q : /\ Become(c, q) /\ IsCall(q)
                 /\ (call[c].by = "left" /\ q = Idle) \/ Continues(q, call[c])
    BY <1>1, Refused DEF Lose, PagesInv
  <2> QED BY <1>1, <2>1, ServiceKeeps DEF Lose, PagesInv, TypeOK, tables
<1> QED BY <1>2, NotSettled DEF Lose, PagesInv

LEMMA ServeGetKeeps ==
  ASSUME PagesInv, NEW c \in Calls, ServeGet(c)
  PROVE  PagesInv'
<1>1. ~Free(c) /\ IsRequest(call[c]) /\ Made(call[c])
  BY StageIsSlot, IdleFields DEF ServeGet, PagesInv
<1>2. GotRoom(call[c].of) \in Detail /\ GotRoom(call[c].of).of = call[c].of
  BY <1>1, MeAssumption
  DEF GotRoom, Detail, RoleThere, IsRequest, RoomIds, RoleNames, PagesInv, TypeOK
<1>3. PICK q : /\ Become(c, q) /\ IsCall(q)
               /\ (call[c].by = "left" /\ q = Idle) \/ Continues(q, call[c])
  BY <1>1, <1>2, Refused, Replied DEF ServeGet, PagesInv, Answer, Result
<1>4. TypeOK' /\ Sound' /\ BusyOnlyWhileWaiting'
  BY <1>1, <1>3, ServiceKeeps DEF ServeGet, PagesInv, TypeOK, tables
<1>5. ListSettled' /\ PanelSettled'
  BY <1>1, <1>3, Asks, ServiceSettled DEF ServeGet, PagesInv
<1> QED BY <1>4, <1>5 DEF PagesInv

----------------------------------------------------------------------------
(* A load reads *)

\* A load of the panel goes on, or ends.
LEMMA LoadGoesOn ==
  ASSUME TypeOK, PanelSettled, NEW c \in Calls, NEW q, Become(c, q),
         call[c].by = "load", q.by = "load", q.gov = call[c].gov,
         UNCHANGED <<tables, address, detail, settled>>, panel'.open => panel.open,
         LoadsWell(call[c]) => LoadsWell(q)'
  PROVE  PanelSettled'
<1> SUFFICES ASSUME settled', address = "here", panel'.open
             PROVE  PanelSettled'
  BY DEF PanelSettled
<1>1. /\ call'[c] = q /\ \A x \in Calls : x # c => call'[x] = call[x]
  BY Becomes
<1>2. /\ \A x, y \in Calls : call[x].by = "load" /\ call[y].by = "load" => x = y
      /\ call[c].gov = isOwnerOrRoomAdmin(detail.role)
      /\ Overtaken(PanelChanges) \/ LoadsWell(call[c])
  BY DEF PanelSettled
<1>3. \A x \in Calls : call'[x].by = "load" => x = c
  BY <1>1, <1>2
<1>4. Overtaken(PanelChanges) => Overtaken(PanelChanges)'
  BY <1>1 DEF Overtaken, Overtakes, PanelChanges
<1>5. Overtaken(PanelChanges)' \/ LoadsWell(call[c])'
  BY <1>1, <1>2, <1>4 DEF LoadsWell, MembersAre
<1> QED BY <1>1, <1>2, <1>3, <1>5 DEF PanelSettled, Alone

LEMMA LoadEnds ==
  ASSUME TypeOK, PanelSettled, NEW c \in Calls, NEW q, Become(c, q),
         call[c].by = "load", q.by # "load", call[c].stage # "failed",
         UNCHANGED <<tables, address, detail, settled>>, panel'.open => panel.open,
         LoadsWell(call[c]) /\ call[c].gov = isOwnerOrRoomAdmin(detail.role) =>
           /\ MembersAre(panel.members)'
           /\ isOwnerOrRoomAdmin(detail.role) => panel'.bans = banned
  PROVE  PanelSettled'
<1> SUFFICES ASSUME settled', address = "here", panel'.open
             PROVE  PanelSettled'
  BY DEF PanelSettled
<1>1. /\ call'[c] = q /\ \A x \in Calls : x # c => call'[x] = call[x]
  BY Becomes
<1>2. /\ \A x, y \in Calls : call[x].by = "load" /\ call[y].by = "load" => x = y
      /\ call[c].gov = isOwnerOrRoomAdmin(detail.role)
      /\ Overtaken(PanelChanges) \/ LoadsWell(call[c])
  BY DEF PanelSettled
<1>3. \A x \in Calls : call'[x].by # "load"
  BY <1>1, <1>2
<1>4. Overtaken(PanelChanges) => Overtaken(PanelChanges)'
  BY <1>1 DEF Overtaken, Overtakes, PanelChanges
<1>5. \/ Overtaken(PanelChanges)'
      \/ /\ MembersAre(panel.members)'
         /\ isOwnerOrRoomAdmin(detail'.role) => panel'.bans = banned'
  BY <1>2, <1>4 DEF tables
<1> QED BY <1>3, <1>5 DEF PanelSettled

\* So does a load of the lists.
LEMMA ListsGoOn ==
  ASSUME TypeOK, ListSettled, NEW c \in Calls, NEW q, Become(c, q),
         call[c].by = "lists", q.by = "lists", q.search = call[c].search,
         q.stage # "failed", UNCHANGED <<tables, address, list, settled>>,
         StillSo(call[c]) => StillSo(q)
  PROVE  ListSettled'
<1> SUFFICES ASSUME settled', address = "list"
             PROVE  ListSettled'
  BY DEF ListSettled
<1>1. /\ call'[c] = q /\ \A x \in Calls : x # c => call'[x] = call[x]
  BY Becomes
<1>2. /\ \A x, y \in Calls : call[x].by = "lists" /\ call[y].by = "lists" => x = y
      /\ call[c].search = list.applied
      /\ Overtaken(ListChanges) \/ StillSo(call[c])
  BY DEF ListSettled
<1>3. \A x \in Calls : call'[x].by = "lists" => x = c
  BY <1>1, <1>2
<1>4. Overtaken(ListChanges) => Overtaken(ListChanges)'
  BY <1>1 DEF Overtaken, Overtakes, ListChanges
<1>5. Overtaken(ListChanges)' \/ StillSo(call[c])'
  BY <1>1, <1>2, <1>4 DEF StillSo, InCatalog, tables
<1> QED BY <1>1, <1>2, <1>3, <1>5 DEF ListSettled, Alone

LEMMA ServeMembersKeeps ==
  ASSUME PagesInv, NEW c \in Calls, ServeMembers(c)
  PROVE  PagesInv'
<1>1. /\ ~Free(c) /\ IsRequest(call[c]) /\ Made(call[c]) /\ InPlace(call[c])
      /\ call[c].by = "load"
  BY StageIsSlot, Asks DEF ServeMembers, PagesInv
<1> DEFINE members == IF call[c].of = "here" THEN role ELSE RoleThere
<1>2. members \in Result("members")
  BY DEF PagesInv, TypeOK, RoleThere, RoleNames, Result
<1>3. PICK q : /\ Become(c, q) /\ IsCall(q) /\ Continues(q, call[c])
               /\ \/ q.stage = "failed"
                  \/ q.stage = "ok" /\ q.got = members /\ members[Me] # "none"
  <2>1. CASE members[Me] # "none"
    <3>1. Answer(c, members)
      BY <2>1 DEF ServeMembers
    <3> HIDE DEF members
    <3> QED BY <1>1, <1>2, <2>1, <3>1, Replied DEF Answer, PagesInv, ServeMembers
  <2>2. CASE members[Me] = "none"
    <3>1. Refuse(c)
      BY <2>2 DEF ServeMembers
    <3> HIDE DEF members
    <3> QED BY <1>1, <3>1, Refused DEF PagesInv
  <2> QED BY <2>1, <2>2
<1>4. TypeOK' /\ Sound' /\ BusyOnlyWhileWaiting'
  BY <1>1, <1>3, ServiceKeeps DEF ServeMembers, PagesInv, TypeOK, tables
<1>5. ListSettled'
  BY <1>1, <1>3, ServiceSettled DEF ServeMembers, PagesInv
<1>6. PanelSettled'
  <2>1. CASE address # "here"
    BY <2>1 DEF PanelSettled, ServeMembers
  <2>2. CASE address = "here"
    <3>1. /\ q.by = "load" /\ q.gov = call[c].gov /\ q.op = "members"
          /\ call[c].of = "here" /\ panel' = panel /\ role' = role
      BY <1>1, <1>3, <2>2 DEF Continues, InPlace, OfPanel, ServeMembers, roomPage, tables
    <3>2. LoadsWell(q)'
      BY <1>3, <3>1 DEF LoadsWell, MembersAre
    <3> QED BY <1>1, <1>3, <3>1, <3>2, LoadGoesOn DEF ServeMembers, PagesInv, roomPage
  <2> QED BY <2>1, <2>2
<1> QED BY <1>4, <1>5, <1>6 DEF PagesInv

LEMMA ServeBansKeeps ==
  ASSUME PagesInv, NEW c \in Calls, ServeBans(c)
  PROVE  PagesInv'
<1>1. /\ ~Free(c) /\ IsRequest(call[c]) /\ Made(call[c]) /\ InPlace(call[c])
      /\ call[c].by = "load"
  BY StageIsSlot, Asks DEF ServeBans, PagesInv
<1>2. banned \in Result("bans")
  BY DEF PagesInv, TypeOK, Result
<1>3. PICK q : /\ Become(c, q) /\ IsCall(q) /\ Continues(q, call[c])
               /\ q.stage = "failed" \/ (q.stage = "ok" /\ q.got = banned)
  BY <1>1, <1>2, Refused, Replied DEF ServeBans, PagesInv, Answer
<1>4. TypeOK' /\ Sound' /\ BusyOnlyWhileWaiting'
  BY <1>1, <1>3, ServiceKeeps DEF ServeBans, PagesInv, TypeOK, tables
<1>5. ListSettled'
  BY <1>1, <1>3, ServiceSettled DEF ServeBans, PagesInv
<1>6. PanelSettled'
  <2>1. /\ q.by = "load" /\ q.gov = call[c].gov /\ q.op = "bans"
        /\ panel' = panel /\ role' = role /\ banned' = banned
    BY <1>1, <1>3 DEF Continues, ServeBans, roomPage, tables
  <2>2. LoadsWell(call[c]) => LoadsWell(q)'
    BY <1>3, <2>1 DEF LoadsWell, MembersAre, ServeBans
  <2> QED BY <1>1, <1>3, <2>1, <2>2, LoadGoesOn DEF ServeBans, PagesInv, roomPage
<1> QED BY <1>4, <1>5, <1>6 DEF PagesInv

\* Half of the lists, or the other.
LEMMA PartRead ==
  ASSUME PagesInv, NEW c \in Calls, call[c].op = "lists",
         call[c].stage \in {"sent", "mine", "catalog"}, NEW q,
         \/ /\ call[c].stage \in {"sent", "catalog"}
            /\ q = [call[c] EXCEPT !.stage = Reached(c, "mine", "catalog"),
                                   !.got.mine = role[Me], !.got.private = room = "private"]
         \/ /\ call[c].stage \in {"sent", "mine"}
            /\ q = [call[c] EXCEPT !.stage = Reached(c, "catalog", "mine"),
                                   !.got.found = InCatalog]
  PROVE  /\ IsCall(q) /\ Continues(q, call[c]) /\ q.stage \in {"mine", "catalog", "ok"}
         /\ StillSo(call[c]) => StillSo(q)
<1>1. /\ IsRequest(call[c]) /\ Made(call[c]) /\ InPlace(call[c]) /\ call[c].got \in Found
  BY StageIsSlot DEF PagesInv, Made
<1>2. role[Me] \in RoleNames /\ InCatalog \in BOOLEAN
  BY MeAssumption DEF PagesInv, TypeOK, InCatalog
<1>3. CASE /\ call[c].stage \in {"sent", "catalog"}
           /\ q = [call[c] EXCEPT !.stage = Reached(c, "mine", "catalog"),
                                  !.got.mine = role[Me], !.got.private = room = "private"]
  <2>1. PICK g : g = [call[c].got EXCEPT !.mine = role[Me], !.private = room = "private"]
    OBVIOUS
  <2>2. g \in Found /\ g.mine = role[Me] /\ g.found = call[c].got.found
    BY <1>1, <1>2, <2>1 DEF Found
  <2>3. q = [call[c] EXCEPT !.stage = Reached(c, "mine", "catalog"), !.got = g]
    BY <1>1, <1>3, <2>1, Fields DEF Found
  <2>4. /\ DOMAIN q = DOMAIN call[c] /\ q.by = call[c].by /\ q.op = call[c].op
        /\ q.of = call[c].of /\ q.target = call[c].target /\ q.gov = call[c].gov
        /\ q.search = call[c].search /\ q.then = call[c].then /\ q.gone = call[c].gone
        /\ q.got = g /\ q.stage = IF call[c].stage = "catalog" THEN "ok" ELSE "mine"
    BY <1>1, <2>3, Fields DEF Reached
  <2>5. IsRequest(q)
    BY <1>1, <2>2, <2>4 DEF IsRequest, Result
  <2>6. Made(q)
    BY <1>1, <1>3, <2>2, <2>4 DEF Made
  <2>7. StillSo(call[c]) => StillSo(q)
    BY <1>3, <2>2, <2>4 DEF StillSo
  <2> QED BY <2>4, <2>5, <2>6, <2>7 DEF IsCall, Continues
<1>4. CASE /\ call[c].stage \in {"sent", "mine"}
           /\ q = [call[c] EXCEPT !.stage = Reached(c, "catalog", "mine"),
                                  !.got.found = InCatalog]
  <2>1. PICK g : g = [call[c].got EXCEPT !.found = InCatalog]
    OBVIOUS
  <2>2. g \in Found /\ g.mine = call[c].got.mine /\ g.found = InCatalog
    BY <1>1, <1>2, <2>1 DEF Found
  <2>3. q = [call[c] EXCEPT !.stage = Reached(c, "catalog", "mine"), !.got = g]
    BY <1>1, <1>4, <2>1, Fields DEF Found
  <2>4. /\ DOMAIN q = DOMAIN call[c] /\ q.by = call[c].by /\ q.op = call[c].op
        /\ q.of = call[c].of /\ q.target = call[c].target /\ q.gov = call[c].gov
        /\ q.search = call[c].search /\ q.then = call[c].then /\ q.gone = call[c].gone
        /\ q.got = g /\ q.stage = IF call[c].stage = "mine" THEN "ok" ELSE "catalog"
    BY <1>1, <2>3, Fields DEF Reached
  <2>5. IsRequest(q)
    BY <1>1, <2>2, <2>4 DEF IsRequest, Result
  <2>6. Made(q)
    BY <1>1, <1>4, <2>2, <2>4 DEF Made
  <2>7. StillSo(call[c]) => StillSo(q)
    BY <1>4, <2>2, <2>4 DEF StillSo
  <2> QED BY <2>4, <2>5, <2>6, <2>7 DEF IsCall, Continues
<1> QED BY <1>3, <1>4

LEMMA ServeListsKeeps ==
  ASSUME PagesInv, NEW c \in Calls, ServeMine(c) \/ ServeCatalog(c)
  PROVE  PagesInv'
<1>1. /\ call[c].op = "lists" /\ call[c].stage \in {"sent", "mine", "catalog"}
      /\ UNCHANGED <<tables, address, roomPage, list, settled, changes>>
  BY DEF ServeMine, ServeCatalog
<1>2. ~Free(c) /\ call[c].by = "lists"
  BY <1>1, StageIsSlot DEF PagesInv, Made
<1>3. PICK q : /\ Become(c, q) /\ IsCall(q) /\ Continues(q, call[c])
               /\ q.stage \in {"mine", "catalog", "ok"}
               /\ StillSo(call[c]) => StillSo(q)
  BY <1>1, PartRead DEF ServeMine, ServeCatalog
<1>4. TypeOK' /\ Sound' /\ BusyOnlyWhileWaiting'
  BY <1>1, <1>2, <1>3, ServiceKeeps DEF PagesInv, TypeOK, tables
<1>5. PanelSettled'
  BY <1>1, <1>2, <1>3, ServiceSettled DEF PagesInv
<1>6. ListSettled'
  BY <1>1, <1>2, <1>3, ListsGoOn DEF PagesInv, Continues
<1> QED BY <1>4, <1>5, <1>6 DEF PagesInv

----------------------------------------------------------------------------
(* Changes are made *)

LEMMA PerformTyped ==
  ASSUME TypeOK, NEW op, NEW actor \in Users, NEW target \in Users,
         Policy!Perform(op, actor, target)
  PROVE  /\ room' \in {"absent", "public", "private", "deleted"}
         /\ role' \in [Users -> RoleNames] /\ banned' \subseteq Users
<1>1. /\ room \in {"absent", "public", "private", "deleted"}
      /\ role \in [Users -> RoleNames] /\ banned \subseteq Users
  BY DEF TypeOK
<1>2. \A u \in Users, r \in RoleNames : [role EXCEPT ![u] = r] \in [Users -> RoleNames]
  BY <1>1
<1>3. {"none", "member", "mod", "admin", "owner"} = RoleNames
  BY DEF RoleNames
<1>4. CASE op = "join" /\ Policy!Join(actor)
  BY <1>1, <1>2, <1>3, <1>4 DEF Policy!Join, Policy!Admit, Policy!SetRole
<1>5. CASE op = "invite" /\ Policy!Invite(actor, target)
  BY <1>1, <1>2, <1>3, <1>5 DEF Policy!Invite, Policy!Admit, Policy!SetRole
<1>6. CASE op = "leave" /\ Policy!Leave(actor)
  BY <1>1, <1>2, <1>3, <1>6 DEF Policy!Leave, Policy!SetRole
<1>7. CASE op = "delete" /\ Policy!Delete(actor)
  BY <1>3, <1>7 DEF Policy!Delete
<1>8. CASE op = "ban" /\ Policy!Ban(actor, target)
  BY <1>1, <1>2, <1>3, <1>8 DEF Policy!Ban, Policy!SetRole
<1>9. CASE op = "unban" /\ Policy!Unban(actor, target)
  BY <1>1, <1>9 DEF Policy!Unban
<1>10. CASE op = "kick" /\ Policy!Kick(actor, target)
  BY <1>1, <1>2, <1>3, <1>10 DEF Policy!Kick, Policy!SetRole
<1>11. CASE op = "addAdmin" /\ Policy!AddAdmin(actor, target)
  BY <1>1, <1>2, <1>3, <1>11 DEF Policy!AddAdmin, Policy!SetRole
<1>12. CASE \E from, to \in RoleNames : Policy!Regrade(actor, target, from, to)
  BY <1>1, <1>2, <1>12 DEF Policy!Regrade, Policy!SetRole
<1> QED BY <1>3, <1>4, <1>5, <1>6, <1>7, <1>8, <1>9, <1>10, <1>11, <1>12 DEF Policy!Perform

LEMMA DecisionTyped ==
  ASSUME TypeOK, NEW op, NEW target \in Users, Decision(op, target)
  PROVE  /\ room' \in {"absent", "public", "private", "deleted"}
         /\ role' \in [Users -> RoleNames] /\ banned' \subseteq Users
<1>1. CASE op = "create"
  BY <1>1, MeAssumption DEF Decision, Policy!Create, Policy!SetRole, TypeOK, RoleNames
<1>2. CASE op # "create"
  BY <1>2, PerformTyped, MeAssumption DEF Decision
<1> QED BY <1>1, <1>2

\* A member's request to join changes nothing.
LEMMA OnlyOutsidersJoin ==
  ASSUME TypeOK, NEW target \in Users, Decision("join", target)
  PROVE  role[Me] = "none"
<1>1. Policy!MayEnter(Me)
  BY DEF Decision, Policy!Perform, Policy!Join, Policy!MayJoin
<1>2. role[Me] \in RoleNames
  BY MeAssumption DEF TypeOK
<1> QED BY <1>1, <1>2 DEF Policy!MayEnter, Policy!IsMember, Policy!Rank, Policy!RankOf, RoleNames

LEMMA ServeKeeps ==
  ASSUME PagesInv, NEW c \in Calls, Serve(c)
  PROVE  PagesInv'
<1>1. /\ call[c].stage = "sent" /\ call[c].op \in Changes /\ call[c].of = "here"
      /\ Decision(call[c].op, call[c].target)
      /\ Answer(c, Nothing)
      /\ settled' = (settled /\ ~call[c].gone /\ call[c].by # "left")
      /\ UNCHANGED <<address, roomPage, list>>
  BY DEF Serve
<1>2. /\ ~Free(c) /\ IsRequest(call[c]) /\ Made(call[c]) /\ InPlace(call[c])
      /\ call[c].by \in {"join", "left"} \union ListChanges \union PanelChanges
      /\ call[c].target \in Users /\ call[c].op # "lists" /\ call[c].op # "get"
      /\ Nothing \in Result(call[c].op)
  BY <1>1, StageIsSlot, Asks DEF PagesInv, IsRequest, Changes, Policy!Operations, Result
<1>3. PICK q : /\ Become(c, q) /\ IsCall(q)
               /\ \/ call[c].by = "left" /\ q = Idle
                  \/ Continues(q, call[c]) /\ q.stage = "ok"
  BY <1>1, <1>2, Replied DEF Answer, PagesInv
<1>4. TypeOK' /\ Sound' /\ BusyOnlyWhileWaiting'
  <2>1. settled' \in BOOLEAN
    BY <1>1 DEF PagesInv, TypeOK
  <2> QED BY <1>1, <1>2, <1>3, <2>1, DecisionTyped, ServiceKeeps DEF PagesInv
<1>5. ListSettled' /\ PanelSettled'
  <2>1. CASE ~settled'
    BY <2>1, NotSettled
  <2> SUFFICES ASSUME settled'
               PROVE  ListSettled' /\ PanelSettled'
    BY <2>1
  <2>2. /\ settled /\ ~call[c].gone /\ Continues(q, call[c]) /\ q.stage = "ok"
        /\ q.by = call[c].by /\ q.gone = call[c].gone /\ panel' = panel /\ detail' = detail
        /\ list' = list /\ address' = address
    BY <1>1, <1>3 DEF Continues, roomPage
  <2>3. q.by # "lists" /\ q.by # "load"
    BY <1>2, <2>2 DEF ListChanges, PanelChanges
  <2>4. CASE call[c].by \in ListChanges
    <3>1. address # "here"
      BY <1>2, <2>4 DEF InPlace, ListHandlers, ListChanges
    <3>2. PanelSettled'
      BY <2>2, <3>1 DEF PanelSettled
    <3>3. Overtakes(q, ListChanges)
      BY <2>2, <2>4 DEF Overtakes
    <3>4. ListSettled'
      BY <1>3, <2>2, <2>3, <3>3, SlotList DEF PagesInv
    <3> QED BY <3>2, <3>4
  <2>5. CASE call[c].by \in PanelChanges
    <3>1. address # "list"
      BY <1>2, <2>5 DEF InPlace, ListHandlers, PanelChanges
    <3>2. ListSettled'
      BY <2>2, <3>1 DEF ListSettled
    <3>3. Overtakes(q, PanelChanges)
      BY <2>2, <2>5 DEF Overtakes
    <3>4. PanelSettled'
      BY <1>3, <2>2, <2>3, <3>3, SlotPanel DEF PagesInv
    <3> QED BY <3>2, <3>4
  <2>6. CASE call[c].by = "join"
    <3>1. address # "list"
      BY <1>2, <2>6 DEF InPlace, ListHandlers
    <3>2. ListSettled'
      BY <2>2, <3>1 DEF ListSettled
    <3>3. role[Me] = "none"
      BY <1>1, <1>2, <2>6, OnlyOutsidersJoin DEF Made, PagesInv
    <3> SUFFICES ASSUME address = "here", panel.open
                 PROVE  PanelSettled'
      BY <2>2, <3>2 DEF PanelSettled
    <3>4. /\ call'[c] = q /\ \A x \in Calls : x # c => call'[x] = call[x]
      BY <1>3, Becomes DEF PagesInv
    <3>5. /\ \A x, y \in Calls : call[x].by = "load" /\ call[y].by = "load" => x = y
          /\ \A x \in Calls : call[x].by = "load" =>
               /\ call[x].gov = isOwnerOrRoomAdmin(detail.role)
               /\ \/ Overtaken(PanelChanges) \/ call[x].stage = "failed"
                  \/ call[x].op = "members" /\ call[x].stage # "ok"
          /\ Alone(call, "load") => Overtaken(PanelChanges)
      BY <2>2, <3>3 DEF PanelSettled, PagesInv, LoadsWell, MembersAre
    <3>6. Overtaken(PanelChanges) => Overtaken(PanelChanges)'
      BY <2>6, <3>4 DEF Overtaken, Overtakes, PanelChanges
    <3>7. \A x \in Calls : call'[x].by = "load" => call'[x] = call[x]
      BY <2>3, <3>4
    <3>8. Alone(call', "load") => Alone(call, "load")
      BY <2>6, <3>4 DEF Alone
    <3>9. ASSUME NEW x \in Calls, call'[x].by = "load"
          PROVE  /\ call'[x].gov = isOwnerOrRoomAdmin(detail'.role)
                 /\ Overtaken(PanelChanges)' \/ LoadsWell(call[x])'
      BY <2>2, <3>5, <3>6, <3>7, <3>9 DEF LoadsWell
    <3>10. \A x, y \in Calls : call'[x].by = "load" /\ call'[y].by = "load" => x = y
      BY <3>5, <3>7
    <3> QED BY <3>5, <3>6, <3>8, <3>9, <3>10 DEF PanelSettled
  <2> QED BY <1>1, <1>2, <2>4, <2>5, <2>6
<1> QED BY <1>4, <1>5 DEF PagesInv

LEMMA ServeInVainKeeps ==
  ASSUME PagesInv, NEW c \in Calls, ServeInVain(c)
  PROVE  PagesInv'
<1>1. /\ call[c].stage = "sent" /\ call[c].op \in Changes
      /\ Answer(c, Nothing) \/ Refuse(c)
      /\ UNCHANGED <<tables, address, roomPage, list, settled, changes>>
  BY DEF ServeInVain
<1>2. /\ ~Free(c) /\ IsRequest(call[c]) /\ Made(call[c]) /\ InPlace(call[c])
      /\ call[c].by \in {"join", "left"} \union ListChanges \union PanelChanges
      /\ call[c].op # "lists" /\ call[c].op # "get" /\ Nothing \in Result(call[c].op)
  BY <1>1, StageIsSlot, Asks DEF PagesInv, IsRequest, Changes, Policy!Operations, Result
<1>3. PICK q : /\ Become(c, q) /\ IsCall(q)
               /\ (call[c].by = "left" /\ q = Idle) \/ Continues(q, call[c])
  BY <1>1, <1>2, Replied, Refused DEF Answer, PagesInv
<1>4. TypeOK' /\ Sound' /\ BusyOnlyWhileWaiting'
  BY <1>1, <1>2, <1>3, ServiceKeeps DEF PagesInv, TypeOK, tables
<1>5. ListSettled' /\ PanelSettled'
  BY <1>1, <1>2, <1>3, ServiceSettled DEF PagesInv, ListChanges, PanelChanges
<1> QED BY <1>4, <1>5 DEF PagesInv

LEMMA OthersActKeeps ==
  ASSUME PagesInv, OthersAct
  PROVE  PagesInv'
<1>1. /\ ~settled' /\ settled' \in BOOLEAN /\ call' = call /\ address' = address
      /\ detail' = detail /\ loadError' = loadError /\ joining' = joining
      /\ panel' = panel /\ list' = list
  BY DEF OthersAct, roomPage
<1>2. TypeOK'
  BY <1>1, PerformTyped DEF OthersAct, PagesInv, TypeOK, Free
<1>3. Sound'
  BY <1>1 DEF PagesInv, Sound, Free, Made, InPlace, OfPanel, Inside
<1>4. BusyOnlyWhileWaiting'
  BY <1>1 DEF PagesInv, BusyOnlyWhileWaiting, Free
<1> QED BY <1>1, <1>2, <1>3, <1>4, NotSettled DEF PagesInv

----------------------------------------------------------------------------
(* The page goes on *)

LEMMA SlotKeeps ==
  ASSUME PagesInv, NEW c \in Calls, NEW q, Become(c, q), IsCall(q), q = Idle \/ InPlace(q)',
         UNCHANGED <<tables, address, detail>>,
         loadError' \in BOOLEAN, joining' \in BOOLEAN, settled' \in BOOLEAN,
         panel' \in Panel, panel'.open = panel.open \/ (panel'.open /\ Inside(detail)),
         list' \in List, address # "list" => ~list'.deleting,
         \A b \in Buttons : Disabled(b)' =>
           \/ Holds(b, q)
           \/ Disabled(b) /\ ~Holds(b, call[c])
  PROVE  TypeOK' /\ Sound' /\ BusyOnlyWhileWaiting'
<1>1. /\ Sound' /\ DOMAIN call' = Calls
      /\ \A x \in Calls : call'[x] = Idle \/ IsRequest(call'[x])
  BY SlotSound DEF PagesInv, Sound
<1>2. TypeOK'
  BY <1>1 DEF PagesInv, TypeOK, Free, tables
<1>3. BusyOnlyWhileWaiting'
  BY SlotBusy DEF PagesInv
<1> QED BY <1>1, <1>2, <1>3

\* The list and the panel are not shown at once.
LEMMA Elsewhere ==
  ASSUME PagesInv, NEW c \in Calls, ~Free(c), address' = address
  PROVE  /\ call[c].by \in ListHandlers => PanelSettled' /\ address = "list"
         /\ call[c].by \notin ListHandlers \union {"left"} =>
              ListSettled' /\ address # "list" /\ address \in RoomIds
<1>1. InPlace(call[c]) /\ (address = "list" \/ address \in RoomIds)
  BY InSlot DEF PagesInv, TypeOK
<1> QED BY <1>1 DEF InPlace, PanelSettled, ListSettled

\* A handler of the room's page that has nothing to do with the panel's lists.
LEMMA BesidePanel ==
  ASSUME PagesInv, NEW c \in Calls, ~Free(c), NEW q, Become(c, q),
         UNCHANGED <<tables, address, detail, settled>>, panel'.open = panel.open,
         panel'.members = panel.members, panel'.bans = panel.bans,
         call[c].by \notin ListHandlers \union {"load", "left"}, q.by # "load",
         ~Overtakes(call[c], PanelChanges)
  PROVE  ListSettled' /\ PanelSettled'
<1>1. ListSettled'
  BY Elsewhere
<1>2. PanelSettled'
  BY SlotPanel DEF PagesInv
<1> QED BY <1>1, <1>2

LEMMA OpenFailedKeeps ==
  ASSUME PagesInv, NEW c \in Calls, OpenFailed(c) \/ RefreshFailed(c)
  PROVE  PagesInv'
<1>1. /\ call[c].by \in {"open", "refresh"} /\ Become(c, Idle)
      /\ UNCHANGED <<tables, address, detail, joining, panel, list, settled>>
      /\ loadError' \in BOOLEAN /\ ~Free(c)
  BY IdleFields
  DEF OpenFailed, RefreshFailed, Answered, Free, roomPage, PagesInv, TypeOK
<1>2. \A b \in Buttons : Disabled(b)' => Disabled(b) /\ ~Holds(b, call[c])
  <2>1. ~(call[c].then = "confirm") /\ ~(call[c].then = "delete")
    BY <1>1, InSlot DEF PagesInv, Made
  <2> QED BY <1>1, <2>1 DEF Disabled, Holds
<1>3. TypeOK' /\ Sound' /\ BusyOnlyWhileWaiting'
  BY <1>1, <1>2, SlotKeeps DEF PagesInv, TypeOK, Sound, IsCall
<1>4. ListSettled' /\ PanelSettled'
  BY <1>1, BesidePanel, IdleFields DEF ListHandlers, Overtakes, PanelChanges
<1> QED BY <1>3, <1>4 DEF PagesInv

LEMMA JoinedKeeps ==
  ASSUME PagesInv, NEW c \in Calls, Joined(c)
  PROVE  PagesInv'
<1>1. /\ call[c].by = "join" /\ Become(c, Get("reread", call[c].of))
      /\ UNCHANGED <<tables, address, detail, loadError, joining, panel, list, settled>>
      /\ ~Free(c)
  BY IdleFields DEF Joined, Answered, Free, roomPage
<1>2. IsRequest(call[c]) /\ Made(call[c]) /\ InPlace(call[c]) /\ call[c].of \in RoomIds
  BY <1>1, InSlot DEF PagesInv, IsRequest
<1>3. PICK q : q = Get("reread", call[c].of)
  OBVIOUS
<1>4. IsCall(q) /\ q.by = "reread"
  BY <1>2, <1>3, GetMade DEF Fresh
<1>5. Become(c, q)
  BY <1>1, <1>3
<1>6. InPlace(q)'
  BY <1>1, <1>2, <1>4 DEF InPlace, OfPanel, ListHandlers, PanelChanges
<1>7. \A b \in Buttons : Disabled(b)' => Holds(b, q) \/ (Disabled(b) /\ ~Holds(b, call[c]))
  <2>1. ~(call[c].then = "confirm") /\ ~(call[c].then = "delete")
    BY <1>1, <1>2 DEF Made
  <2> QED BY <1>1, <1>4, <2>1 DEF Disabled, Holds
<1>8. TypeOK' /\ Sound' /\ BusyOnlyWhileWaiting'
  BY <1>1, <1>4, <1>5, <1>6, <1>7, SlotKeeps DEF PagesInv, TypeOK, Sound
<1>9. ListSettled' /\ PanelSettled'
  BY <1>1, <1>4, <1>5, BesidePanel DEF ListHandlers, Overtakes, PanelChanges
<1> QED BY <1>8, <1>9 DEF PagesInv

LEMMA JoinFailedKeeps ==
  ASSUME PagesInv, NEW c \in Calls, JoinFailed(c)
  PROVE  PagesInv'
<1>1. /\ call[c].by \in {"join", "reread"} /\ Become(c, Idle)
      /\ UNCHANGED <<tables, address, detail, panel, list, settled>>
      /\ loadError' \in BOOLEAN /\ joining' = FALSE /\ ~Free(c)
  BY IdleFields DEF JoinFailed, Answered, Free
<1>2. \A b \in Buttons : Disabled(b)' => Disabled(b) /\ ~Holds(b, call[c])
  <2>1. ~(call[c].then = "confirm") /\ ~(call[c].then = "delete")
    BY <1>1, InSlot DEF PagesInv, Made
  <2> QED BY <1>1, <2>1 DEF Disabled, Holds
<1>3. TypeOK' /\ Sound' /\ BusyOnlyWhileWaiting'
  BY <1>1, <1>2, SlotKeeps DEF PagesInv, TypeOK, Sound, IsCall
<1>4. ListSettled' /\ PanelSettled'
  BY <1>1, BesidePanel, IdleFields DEF ListHandlers, Overtakes, PanelChanges
<1> QED BY <1>3, <1>4 DEF PagesInv

(* The panel goes on *)

\* A load has ended, and the panel shows p.
LEMMA LoadEndsKeeps ==
  ASSUME PagesInv, NEW c \in Calls, call[c].by = "load", Become(c, AfterLoad(c)),
         NEW p \in Panel, p.open = panel.open, p.busy = panel.busy,
         p.confirmBusy = panel.confirmBusy, panel' = NoLongerBusy(p, c),
         UNCHANGED <<tables, address, detail, loadError, joining, list>>,
         settled' \in BOOLEAN
  PROVE  /\ TypeOK' /\ Sound' /\ BusyOnlyWhileWaiting' /\ ListSettled'
         /\ panel'.open = panel.open /\ panel'.members = p.members /\ panel'.bans = p.bans
         /\ \E q : Become(c, q) /\ q.by # "load"
<1>1. /\ ~Free(c) /\ IsRequest(call[c]) /\ Made(call[c]) /\ InPlace(call[c])
      /\ call[c].of \in RoomIds
  BY StageIsSlot DEF PagesInv, IsRequest
<1>2. call[c].then \in {"none", "act", "confirm"}
  BY <1>1 DEF Made
<1>3. /\ panel' \in Panel /\ panel'.open = panel.open /\ panel'.members = p.members
      /\ panel'.bans = p.bans /\ panel'.busy = panel.busy
      /\ panel'.confirmBusy = (panel.confirmBusy /\ call[c].then # "confirm")
  BY DEF NoLongerBusy, Panel
<1>4. PICK q : q = AfterLoad(c)
  OBVIOUS
<1>5. IsCall(q) /\ (q = Idle \/ q.by = "refresh") /\ q.by # "load"
  BY <1>1, <1>4, GetMade, IdleFields DEF AfterLoad, IsCall, Fresh
<1>6. Become(c, q)
  BY <1>4
<1>7. q = Idle \/ InPlace(q)'
  BY <1>1, <1>5 DEF InPlace, OfPanel, ListHandlers, PanelChanges
<1>8. \A b \in Buttons : Disabled(b)' => Disabled(b) /\ ~Holds(b, call[c])
  BY <1>2, <1>3 DEF Disabled, Holds
<1>9. TypeOK' /\ Sound' /\ BusyOnlyWhileWaiting'
  BY <1>3, <1>5, <1>6, <1>7, <1>8, SlotKeeps DEF PagesInv, TypeOK, Sound
<1>10. ListSettled'
  BY <1>1, Elsewhere DEF ListHandlers
<1> QED BY <1>3, <1>5, <1>6, <1>9, <1>10

LEMMA MembersLoadedKeeps ==
  ASSUME PagesInv, NEW c \in Calls, MembersLoaded(c)
  PROVE  PagesInv'
<1>1. /\ call[c].by = "load" /\ call[c].stage = "ok" /\ call[c].op = "members"
      /\ UNCHANGED <<tables, address, detail, loadError, joining, list, settled, changes>>
  BY DEF MembersLoaded, Answered
<1>2. /\ ~Free(c) /\ IsRequest(call[c]) /\ Made(call[c]) /\ InPlace(call[c])
      /\ call[c].got \in [Users -> RoleNames] /\ call[c].gov \in BOOLEAN
  BY <1>1, StageIsSlot DEF PagesInv, IsRequest, Result
<1>3. PICK shown : shown = [panel EXCEPT !.members = call[c].got]
  OBVIOUS
<1>4. /\ shown \in Panel /\ shown.members = call[c].got /\ shown.bans = panel.bans
      /\ shown.open = panel.open /\ shown.busy = panel.busy
      /\ shown.confirmBusy = panel.confirmBusy
  BY <1>2, <1>3 DEF PagesInv, TypeOK, Panel
<1>5. LoadsWell(call[c]) => MembersAre(call[c].got)
  BY <1>1 DEF LoadsWell
<1>6. CASE call[c].gov
  <2>1. PICK q : q = [call[c] EXCEPT !.op = "bans", !.stage = "sent", !.got = Nothing]
    OBVIOUS
  <2>2. panel' = shown /\ Become(c, q)
    BY <1>3, <1>6, <2>1 DEF MembersLoaded
  <2>3. /\ DOMAIN q = DOMAIN call[c] /\ q.by = call[c].by /\ q.op = "bans"
        /\ q.of = call[c].of /\ q.target = call[c].target /\ q.gov = call[c].gov
        /\ q.search = call[c].search /\ q.then = call[c].then /\ q.gone = call[c].gone
        /\ q.stage = "sent" /\ q.got = Nothing
    BY <1>2, <2>1, Fields
  <2>4. IsRequest(q)
    BY <1>2, <2>3 DEF IsRequest, Reads
  <2>5. Made(q)
    BY <1>1, <1>2, <2>3 DEF Made, ListHandlers, PanelChanges
  <2>6. InPlace(q)'
    BY <1>1, <1>2, <1>4, <2>2, <2>3 DEF InPlace, OfPanel
  <2>7. \A b \in Buttons : Disabled(b)' => Holds(b, q) \/ (Disabled(b) /\ ~Holds(b, call[c]))
    BY <1>1, <1>4, <2>2, <2>3, <2>4, Fields DEF Disabled, Holds
  <2>8. TypeOK' /\ Sound' /\ BusyOnlyWhileWaiting'
    BY <1>1, <1>4, <2>2, <2>4, <2>5, <2>6, <2>7, SlotKeeps
    DEF PagesInv, TypeOK, Sound, IsCall
  <2>9. ListSettled'
    BY <1>1, <1>2, Elsewhere DEF ListHandlers
  <2>10. LoadsWell(call[c]) => LoadsWell(q)'
    BY <1>1, <1>4, <1>5, <2>2, <2>3 DEF LoadsWell, MembersAre, tables
  <2>11. PanelSettled'
    BY <1>1, <1>4, <2>2, <2>3, <2>10, LoadGoesOn DEF PagesInv
  <2> QED BY <2>8, <2>9, <2>11 DEF PagesInv
<1>7. CASE ~call[c].gov
  <2>1. PICK p : p = [shown EXCEPT !.bans = {}]
    OBVIOUS
  <2>2. /\ p \in Panel /\ p.members = call[c].got /\ p.open = panel.open
        /\ p.busy = panel.busy /\ p.confirmBusy = panel.confirmBusy
    BY <1>4, <2>1 DEF Panel
  <2>3. panel' = NoLongerBusy(p, c) /\ Become(c, AfterLoad(c))
    BY <1>3, <1>7, <2>1 DEF MembersLoaded
  <2>4. /\ TypeOK' /\ Sound' /\ BusyOnlyWhileWaiting' /\ ListSettled'
        /\ panel'.open = panel.open /\ panel'.members = p.members
        /\ \E q : Become(c, q) /\ q.by # "load"
    BY <1>1, <2>2, <2>3, LoadEndsKeeps DEF PagesInv, TypeOK
  <2>5. LoadsWell(call[c]) => MembersAre(panel.members)'
    BY <1>1, <1>5, <2>2, <2>4 DEF MembersAre, tables
  <2>6. PanelSettled'
    BY <1>1, <1>7, <2>4, <2>5, LoadEnds DEF PagesInv
  <2> QED BY <2>4, <2>6 DEF PagesInv
<1> QED BY <1>2, <1>6, <1>7

LEMMA BansLoadedKeeps ==
  ASSUME PagesInv, NEW c \in Calls, BansLoaded(c)
  PROVE  PagesInv'
<1>1. /\ call[c].by = "load" /\ call[c].stage = "ok" /\ call[c].op = "bans"
      /\ UNCHANGED <<tables, address, detail, loadError, joining, list, settled, changes>>
  BY DEF BansLoaded, Answered
<1>2. call[c].got \subseteq Users
  BY <1>1, StageIsSlot DEF PagesInv, IsRequest, Result
<1>3. PICK p : p = [panel EXCEPT !.bans = call[c].got]
  OBVIOUS
<1>4. /\ p \in Panel /\ p.members = panel.members /\ p.bans = call[c].got
      /\ p.open = panel.open /\ p.busy = panel.busy /\ p.confirmBusy = panel.confirmBusy
  BY <1>2, <1>3 DEF PagesInv, TypeOK, Panel
<1>5. panel' = NoLongerBusy(p, c) /\ Become(c, AfterLoad(c))
  BY <1>3 DEF BansLoaded
<1>6. /\ TypeOK' /\ Sound' /\ BusyOnlyWhileWaiting' /\ ListSettled'
      /\ panel'.open = panel.open /\ panel'.members = p.members /\ panel'.bans = p.bans
      /\ \E q : Become(c, q) /\ q.by # "load"
  BY <1>1, <1>4, <1>5, LoadEndsKeeps DEF PagesInv, TypeOK
<1>7. LoadsWell(call[c]) => MembersAre(panel.members)' /\ panel'.bans = banned
  BY <1>1, <1>4, <1>6 DEF LoadsWell, MembersAre, tables
<1>8. PanelSettled'
  BY <1>1, <1>6, <1>7, LoadEnds DEF PagesInv
<1> QED BY <1>6, <1>8 DEF PagesInv

LEMMA LoadFailedKeeps ==
  ASSUME PagesInv, NEW c \in Calls, LoadFailed(c)
  PROVE  PagesInv'
<1>1. /\ call[c].by = "load" /\ ~settled' /\ settled' \in BOOLEAN
      /\ panel' = NoLongerBusy(panel, c) /\ Become(c, AfterLoad(c))
      /\ UNCHANGED <<tables, address, detail, loadError, joining, list>>
  BY DEF LoadFailed, Answered
<1>2. TypeOK' /\ Sound' /\ BusyOnlyWhileWaiting'
  BY <1>1, LoadEndsKeeps DEF PagesInv, TypeOK
<1> QED BY <1>1, <1>2, NotSettled DEF PagesInv

\* A load that has just been sent is the only one.
LEMMA FreshLoad ==
  ASSUME NEW c \in Calls, call'[c].by = "load", call'[c].op = "members",
         call'[c].stage = "sent",
         settled' => /\ call'[c].gov = isOwnerOrRoomAdmin(detail'.role)
                     /\ \A x \in Calls : x # c => call'[x].by # "load"
  PROVE  PanelSettled'
BY DEF PanelSettled, LoadsWell, Alone

LEMMA FreshLists ==
  ASSUME NEW c \in Calls, call'[c].by = "lists", call'[c].stage = "sent",
         settled' => /\ call'[c].search = list'.applied
                     /\ \A x \in Calls : x # c => call'[x].by # "lists"
  PROVE  ListSettled'
BY DEF ListSettled, StillSo, Alone

LEMMA ReloadKeeps ==
  ASSUME PagesInv, NEW c \in Calls, NEW then \in {"act", "confirm"},
         call[c].by \in PanelChanges, Reload(c, then),
         UNCHANGED <<tables, address, detail, loadError, joining, list>>,
         panel' \in Panel, panel'.open = panel.open,
         panel'.members = panel.members, panel'.bans = panel.bans,
         panel'.busy => panel.busy /\ (call[c].by # "act" \/ call[c].gone),
         panel'.confirmBusy => panel.confirmBusy, call[c].by = "confirm" => then = "confirm"
  PROVE  PagesInv'
<1>1. /\ ~Free(c) /\ IsRequest(call[c]) /\ Made(call[c]) /\ InPlace(call[c])
      /\ call[c].of \in RoomIds /\ call[c].gov \in BOOLEAN /\ call[c].gone \in BOOLEAN
      /\ call[c].by \in {"act", "confirm"} /\ call[c].then = "none"
  BY StageIsSlot DEF PagesInv, IsRequest, PanelChanges, Made
<1>2. ListSettled' /\ address # "list"
  BY <1>1, Elsewhere DEF ListHandlers
<1>3. CASE call[c].gone
  <2>1. PICK q : q = Get("refresh", call[c].of)
    OBVIOUS
  <2>2. IsCall(q) /\ q.by = "refresh" /\ Become(c, q) /\ settled' = settled
    BY <1>1, <1>3, <2>1, GetMade DEF Reload, Fresh
  <2>3. InPlace(q)'
    BY <1>2, <2>2 DEF InPlace, OfPanel, ListHandlers, PanelChanges
  <2>4. \A b \in Buttons : Disabled(b)' => Disabled(b) /\ ~Holds(b, call[c])
    BY <1>1, <1>3 DEF Disabled, Holds
  <2>5. TypeOK' /\ Sound' /\ BusyOnlyWhileWaiting'
    BY <1>2, <2>2, <2>3, <2>4, SlotKeeps DEF PagesInv, TypeOK, Sound
  <2>6. PanelSettled'
    BY <1>1, <1>3, <2>2, BesidePanel DEF Overtakes, ListHandlers
  <2> QED BY <1>2, <2>5, <2>6 DEF PagesInv
<1>4. CASE ~call[c].gone
  <2>1. PICK q : q = Load(call[c].of, call[c].gov, then)
    OBVIOUS
  <2>2. /\ IsCall(q) /\ IsRequest(q) /\ q.by = "load" /\ q.of = call[c].of /\ q.then = then
        /\ q.gov = call[c].gov /\ q.stage = "sent" /\ q.op = "members"
    BY <1>1, <2>1, LoadMade
  <2>3. /\ Become(c, q)
        /\ settled' = (Alone(call, "load") /\ call[c].gov = isOwnerOrRoomAdmin(detail.role))
    BY <1>4, <2>1 DEF Reload
  <2>4. InPlace(q)'
    BY <1>1, <1>2, <1>4, <2>2 DEF InPlace, OfPanel, ListHandlers, PanelChanges
  <2>5. \A b \in Buttons : Disabled(b)' => Holds(b, q) \/ (Disabled(b) /\ ~Holds(b, call[c]))
    BY <1>1, <1>4, <2>2, Fields DEF Disabled, Holds
  <2>6. settled' \in BOOLEAN
    BY <2>3
  <2>7. TypeOK' /\ Sound' /\ BusyOnlyWhileWaiting'
    BY <1>2, <2>2, <2>3, <2>4, <2>5, <2>6, SlotKeeps DEF PagesInv, TypeOK, Sound
  <2>8. call'[c] = q /\ \A x \in Calls : x # c => call'[x] = call[x]
    BY <2>3, Becomes DEF PagesInv
  <2>9. PanelSettled'
    BY <2>2, <2>3, <2>8, FreshLoad DEF Alone
  <2> QED BY <1>2, <2>7, <2>9 DEF PagesInv
<1> QED BY <1>1, <1>3, <1>4

LEMMA ActDoneKeeps ==
  ASSUME PagesInv, NEW c \in Calls, ActDone(c) \/ ConfirmDone(c)
  PROVE  PagesInv'
<1>1. UNCHANGED <<tables, address, detail, loadError, joining, list>> /\ panel \in Panel
  BY DEF ActDone, ConfirmDone, PagesInv, TypeOK
<1>2. CASE ActDone(c)
  <2>1. /\ panel' = IF call[c].gone THEN panel ELSE [panel EXCEPT !.busy = FALSE]
        /\ Reload(c, "act") /\ call[c].by = "act"
    BY <1>2 DEF ActDone, Answered
  <2>2. /\ panel' \in Panel /\ panel'.open = panel.open /\ panel'.members = panel.members
        /\ panel'.bans = panel.bans /\ panel'.confirmBusy = panel.confirmBusy
        /\ panel'.busy => panel.busy /\ call[c].gone
    BY <1>1, <2>1 DEF Panel
  <2> QED BY <1>1, <2>1, <2>2, ReloadKeeps DEF PanelChanges
<1>3. CASE ConfirmDone(c)
  <2>1. /\ panel' = IF call[c].gone THEN panel ELSE [panel EXCEPT !.pending = NoAction]
        /\ Reload(c, "confirm") /\ call[c].by = "confirm"
    BY <1>3 DEF ConfirmDone, Answered
  <2>2. /\ panel' \in Panel /\ panel'.open = panel.open /\ panel'.members = panel.members
        /\ panel'.bans = panel.bans /\ panel'.confirmBusy = panel.confirmBusy
        /\ panel'.busy = panel.busy
    BY <1>1, <2>1 DEF Panel
  <2> QED BY <1>1, <2>1, <2>2, ReloadKeeps DEF PanelChanges
<1> QED BY <1>2, <1>3

LEMMA ActFailedKeeps ==
  ASSUME PagesInv, NEW c \in Calls, ActFailed(c) \/ ConfirmFailed(c)
  PROVE  PagesInv'
<1>1. /\ call[c].by \in {"act", "confirm"} /\ call[c].stage = "failed" /\ Become(c, Idle)
      /\ UNCHANGED <<tables, address, detail, loadError, joining, list, settled>>
  BY DEF ActFailed, ConfirmFailed, Answered
<1>2. panel \in Panel
  BY DEF PagesInv, TypeOK
<1>3. /\ panel' \in Panel /\ panel'.open = panel.open /\ panel'.members = panel.members
      /\ panel'.bans = panel.bans
      /\ panel'.busy => panel.busy /\ (call[c].by # "act" \/ call[c].gone)
      /\ panel'.confirmBusy => panel.confirmBusy /\ (call[c].by # "confirm" \/ call[c].gone)
  BY <1>2 DEF ActFailed, ConfirmFailed, Answered, Panel
<1>4. ~Free(c) /\ call[c].then = "none"
  BY <1>1, StageIsSlot DEF PagesInv, Made
<1>5. \A b \in Buttons : Disabled(b)' => Disabled(b) /\ ~Holds(b, call[c])
  BY <1>1, <1>3, <1>4 DEF Disabled, Holds
<1>6. TypeOK' /\ Sound' /\ BusyOnlyWhileWaiting'
  BY <1>1, <1>3, <1>5, SlotKeeps DEF PagesInv, TypeOK, Sound, IsCall
<1>7. ListSettled' /\ PanelSettled'
  BY <1>1, <1>3, <1>4, BesidePanel, IdleFields DEF ListHandlers, Overtakes
<1> QED BY <1>6, <1>7 DEF PagesInv

(* The list of rooms goes on *)

LEMMA ListAgainKeeps ==
  ASSUME PagesInv, NEW c \in Calls, NEW then \in {"none", "delete"},
         call[c].by \in ListChanges, ListAgain(c, then),
         UNCHANGED <<tables, address, roomPage>>,
         list' \in List, list'.applied = list.applied,
         list'.busy => list.busy /\ call[c].by # "room",
         list'.deleteBusy => list.deleteBusy /\ (call[c].by = "delete" => then = "delete"),
         list'.submitting => list.submitting /\ call[c].by # "invite"
  PROVE  PagesInv'
<1>1. /\ ~Free(c) /\ IsRequest(call[c]) /\ Made(call[c]) /\ call[c].search \in Searches
      /\ call[c].by \in {"room", "delete", "invite"} /\ call[c].then = "none"
  BY StageIsSlot DEF PagesInv, IsRequest, ListChanges, Made
<1>2. PanelSettled' /\ address = "list"
  BY <1>1, Elsewhere DEF ListHandlers
<1>3. PICK q : q = Lists(call[c].search, then)
  OBVIOUS
<1>4. /\ IsCall(q) /\ IsRequest(q) /\ q.by = "lists" /\ q.then = then
      /\ q.search = call[c].search /\ q.stage = "sent"
  BY <1>1, <1>3, ListsMade
<1>5. /\ Become(c, q)
      /\ settled' = (Alone(call, "lists") /\ call[c].search = list.applied)
  BY <1>3 DEF ListAgain
<1>6. InPlace(q)'
  BY <1>2, <1>4 DEF InPlace, OfPanel, ListHandlers, PanelChanges
<1>7. /\ joining' = joining /\ panel' = panel /\ detail' = detail /\ loadError' = loadError
      /\ settled' \in BOOLEAN
  BY <1>5 DEF roomPage
<1>8. \A b \in Buttons : Disabled(b)' => Holds(b, q) \/ (Disabled(b) /\ ~Holds(b, call[c]))
  BY <1>1, <1>4, <1>7, Fields DEF Disabled, Holds
<1>9. TypeOK' /\ Sound' /\ BusyOnlyWhileWaiting'
  BY <1>2, <1>4, <1>5, <1>6, <1>7, <1>8, SlotKeeps DEF PagesInv, TypeOK
<1>10. call'[c] = q /\ \A x \in Calls : x # c => call'[x] = call[x]
  BY <1>5, Becomes DEF PagesInv
<1>11. ListSettled'
  BY <1>4, <1>5, <1>10, FreshLists DEF Alone
<1> QED BY <1>2, <1>9, <1>11 DEF PagesInv

LEMMA RoomDoneKeeps ==
  ASSUME PagesInv, NEW c \in Calls, RoomDone(c) \/ RoomDeleted(c) \/ Invited(c)
  PROVE  PagesInv'
<1>1. UNCHANGED <<tables, address, roomPage>> /\ list \in List
  BY DEF RoomDone, RoomDeleted, Invited, PagesInv, TypeOK
<1>2. CASE RoomDone(c)
  <2>1. /\ list' = [list EXCEPT !.busy = FALSE]
        /\ call[c].by = "room" /\ ListAgain(c, "none")
    BY <1>2 DEF RoomDone, Answered
  <2>2. /\ list' \in List /\ list'.applied = list.applied /\ list'.busy = FALSE
        /\ list'.deleteBusy = list.deleteBusy /\ list'.submitting = list.submitting
    BY <1>1, <2>1 DEF List
  <2> QED BY <1>1, <2>1, <2>2, ListAgainKeeps DEF ListChanges
<1>3. CASE RoomDeleted(c)
  <2>1. /\ list' = [list EXCEPT !.deleting = FALSE]
        /\ call[c].by = "delete" /\ ListAgain(c, "delete")
    BY <1>3 DEF RoomDeleted, Answered
  <2>2. /\ list' \in List /\ list'.applied = list.applied /\ list'.busy = list.busy
        /\ list'.deleteBusy = list.deleteBusy /\ list'.submitting = list.submitting
    BY <1>1, <2>1 DEF List
  <2> QED BY <1>1, <2>1, <2>2, ListAgainKeeps DEF ListChanges
<1>4. CASE Invited(c)
  <2>1. /\ list' = [list EXCEPT !.submitting = FALSE]
        /\ call[c].by = "invite" /\ ListAgain(c, "none")
    BY <1>4 DEF Invited, Answered
  <2>2. /\ list' \in List /\ list'.applied = list.applied /\ list'.busy = list.busy
        /\ list'.deleteBusy = list.deleteBusy /\ list'.submitting = FALSE
    BY <1>1, <2>1 DEF List
  <2> QED BY <1>1, <2>1, <2>2, ListAgainKeeps DEF ListChanges
<1> QED BY <1>2, <1>3, <1>4

LEMMA RoomFailedKeeps ==
  ASSUME PagesInv, NEW c \in Calls, RoomFailed(c) \/ DeleteFailed(c) \/ InviteFailed(c)
  PROVE  PagesInv'
<1>1. /\ call[c].by \in ListChanges /\ call[c].stage = "failed" /\ Become(c, Idle)
      /\ UNCHANGED <<tables, address, roomPage, settled>> /\ list \in List
  BY DEF RoomFailed, DeleteFailed, InviteFailed, Answered, ListChanges, PagesInv, TypeOK
<1>2. /\ list' \in List /\ list'.of = list.of /\ list'.applied = list.applied
      /\ list'.shows = list.shows
      /\ list'.busy => list.busy /\ call[c].by # "room"
      /\ list'.deleteBusy => list.deleteBusy /\ call[c].by # "delete"
      /\ list'.submitting => list.submitting /\ call[c].by # "invite"
  BY <1>1 DEF RoomFailed, DeleteFailed, InviteFailed, Answered, List
<1>3. ~Free(c) /\ call[c].then = "none" /\ call[c].by \in {"room", "delete", "invite"}
  BY <1>1, StageIsSlot DEF PagesInv, Made, ListChanges
<1>4. PanelSettled' /\ address = "list"
  BY <1>1, <1>3, Elsewhere DEF ListHandlers
<1>5. /\ joining' = joining /\ panel' = panel /\ detail' = detail /\ loadError' = loadError
  BY <1>1 DEF roomPage
<1>6. \A b \in Buttons : Disabled(b)' => Disabled(b) /\ ~Holds(b, call[c])
  BY <1>2, <1>3, <1>5 DEF Disabled, Holds
<1>7. TypeOK' /\ Sound' /\ BusyOnlyWhileWaiting'
  BY <1>1, <1>2, <1>4, <1>5, <1>6, SlotKeeps DEF PagesInv, TypeOK, IsCall
<1>8. ListSettled'
  BY <1>1, <1>2, <1>3, SlotList, IdleFields DEF PagesInv, Overtakes
<1> QED BY <1>4, <1>7, <1>8 DEF PagesInv

\* A load of the lists has ended.
LEMMA ListsEndKeeps ==
  ASSUME PagesInv, NEW c \in Calls, call[c].by = "lists", Become(c, Idle),
         UNCHANGED <<tables, address, roomPage>>, list' \in List, settled' \in BOOLEAN,
         list'.busy = list.busy, list'.deleting = list.deleting,
         list'.deleteBusy => list.deleteBusy /\ call[c].then # "delete",
         list'.submitting => list.submitting
  PROVE  TypeOK' /\ Sound' /\ BusyOnlyWhileWaiting' /\ PanelSettled' /\ address = "list"
<1>1. ~Free(c) /\ IsRequest(call[c]) /\ Made(call[c])
  BY StageIsSlot DEF PagesInv
<1>2. PanelSettled' /\ address = "list"
  BY <1>1, Elsewhere DEF ListHandlers
<1>3. /\ joining' = joining /\ panel' = panel /\ detail' = detail /\ loadError' = loadError
  BY DEF roomPage
<1>4. \A b \in Buttons : Disabled(b)' => Disabled(b) /\ ~Holds(b, call[c])
  BY <1>1, <1>3 DEF Disabled, Holds, Made
<1>5. TypeOK' /\ Sound' /\ BusyOnlyWhileWaiting'
  BY <1>2, <1>3, <1>4, SlotKeeps DEF PagesInv, TypeOK, IsCall
<1> QED BY <1>2, <1>5

LEMMA ListedKeeps ==
  ASSUME PagesInv, NEW c \in Calls, Listed(c)
  PROVE  PagesInv'
<1>1. /\ call[c].by = "lists" /\ call[c].stage = "ok" /\ Become(c, Idle)
      /\ UNCHANGED <<tables, address, roomPage, settled, changes>>
  BY DEF Listed, Answered
<1>2. call[c].got \in Found /\ call[c].search \in Searches /\ list \in List
  BY <1>1, StageIsSlot DEF PagesInv, IsRequest, Made, TypeOK
<1>3. PICK l : l = [list EXCEPT !.shows = call[c].got, !.of = call[c].search,
                                !.submitting = @ /\ HasForm(call[c].got)]
  OBVIOUS
<1>4. /\ l \in List /\ l.shows = call[c].got /\ l.of = call[c].search
      /\ l.applied = list.applied /\ l.busy = list.busy /\ l.deleting = list.deleting
      /\ l.deleteBusy = list.deleteBusy /\ (l.submitting => list.submitting)
  BY <1>2, <1>3 DEF List
<1>5. list' = NoLongerDeleting(l, c)
  BY <1>3 DEF Listed
<1>6. /\ list' \in List /\ list'.shows = call[c].got /\ list'.of = call[c].search
      /\ list'.applied = list.applied /\ list'.busy = list.busy
      /\ list'.deleting = list.deleting /\ (list'.submitting => list.submitting)
      /\ list'.deleteBusy => list.deleteBusy /\ call[c].then # "delete"
  BY <1>4, <1>5 DEF NoLongerDeleting, List
<1>7. settled' \in BOOLEAN
  BY <1>1 DEF PagesInv, TypeOK
<1>8. TypeOK' /\ Sound' /\ BusyOnlyWhileWaiting' /\ PanelSettled' /\ address = "list"
  BY <1>1, <1>6, <1>7, ListsEndKeeps
<1>9. ListSettled'
  <2> SUFFICES ASSUME settled'
               PROVE  ListSettled'
    BY DEF ListSettled
  <2>1. call'[c] = Idle /\ \A x \in Calls : x # c => call'[x] = call[x]
    BY <1>1, Becomes DEF PagesInv
  <2>2. /\ \A x, y \in Calls : call[x].by = "lists" /\ call[y].by = "lists" => x = y
        /\ call[c].search = list.applied
        /\ Overtaken(ListChanges) \/ StillSo(call[c])
    BY <1>1, <1>8 DEF PagesInv, ListSettled
  <2>3. \A x \in Calls : call'[x].by # "lists"
    BY <1>1, <2>1, <2>2, IdleFields
  <2>4. Overtaken(ListChanges) => Overtaken(ListChanges)'
    BY <1>1, <2>1 DEF Overtaken, Overtakes, ListChanges
  <2>5. \/ Overtaken(ListChanges)'
        \/ list'.shows.mine = role'[Me] /\ list'.shows.found = InCatalog'
    BY <1>1, <1>6, <2>2, <2>4 DEF StillSo, tables, InCatalog
  <2> QED BY <1>6, <2>2, <2>3, <2>5 DEF ListSettled
<1> QED BY <1>8, <1>9 DEF PagesInv

LEMMA ListsFailedKeeps ==
  ASSUME PagesInv, NEW c \in Calls, ListsFailed(c)
  PROVE  PagesInv'
<1>1. /\ call[c].by = "lists" /\ Become(c, Idle) /\ ~settled' /\ settled' \in BOOLEAN
      /\ list' = NoLongerDeleting(list, c) /\ UNCHANGED <<tables, address, roomPage>>
  BY DEF ListsFailed, Answered
<1>2. /\ list' \in List /\ list'.busy = list.busy /\ list'.submitting = list.submitting
      /\ list'.deleting = list.deleting
      /\ list'.deleteBusy => list.deleteBusy /\ call[c].then # "delete"
  BY <1>1 DEF PagesInv, TypeOK, NoLongerDeleting, List
<1>3. TypeOK' /\ Sound' /\ BusyOnlyWhileWaiting' /\ PanelSettled'
  BY <1>1, <1>2, ListsEndKeeps
<1> QED BY <1>1, <1>3, NotSettled DEF PagesInv

----------------------------------------------------------------------------
(* The panel, or the page, is left *)

LEMMA ClosedPanelTyped == ClosedPanel \in Panel /\ ~ClosedPanel.open
<1>1. NoMembers \in [Users -> RoleNames]
  BY DEF NoMembers, RoleNames
<1> QED BY <1>1 DEF ClosedPanel, Panel

\* What becomes of a request when the panel closes.
LEMMA PanelGoneIs ==
  ASSUME TypeOK, Sound, address # "list", NEW x \in Calls, NEW g, g = PanelGone(call[x])
  PROVE  /\ IsCall(g)
         /\ g = Idle \/ (g.by \notin ListHandlers /\ ~OfPanel(g))
         /\ g.by = "open" => call[x].by = "open" /\ g.of = address
         /\ \A b \in Buttons \ {"busy", "confirmBusy"} : Holds(b, call[x]) => Holds(b, g)
<1>1. CASE Free(x)
  <2>1. g = Idle
    BY <1>1, IdleFields DEF PanelGone, Free
  <2> QED BY <1>1, <2>1, IdleFields DEF IsCall, Free
<1>2. CASE ~Free(x)
  <2>1. IsRequest(call[x]) /\ Made(call[x]) /\ InPlace(call[x]) /\ call[x].of \in RoomIds
    BY <1>2, InSlot DEF IsRequest
  <2>2. CASE call[x].by \in {"act", "confirm"}
    <3>1. g = [call[x] EXCEPT !.gone = TRUE]
      BY <2>2 DEF PanelGone
    <3>2. /\ DOMAIN g = DOMAIN call[x] /\ g.by = call[x].by /\ g.op = call[x].op
          /\ g.of = call[x].of /\ g.target = call[x].target /\ g.gov = call[x].gov
          /\ g.search = call[x].search /\ g.then = call[x].then /\ g.gone = TRUE
          /\ g.stage = call[x].stage /\ g.got = call[x].got
      BY <2>1, <3>1, Fields
    <3>3. IsRequest(g)
      BY <2>1, <3>2 DEF IsRequest
    <3>4. Made(g)
      BY <2>1, <2>2, <3>2 DEF Made, PanelChanges
    <3>5. \A b \in Buttons \ {"busy", "confirmBusy"} : ~Holds(b, call[x])
      BY <2>1, <2>2 DEF Holds, Made
    <3> QED BY <2>2, <3>2, <3>3, <3>4, <3>5 DEF IsCall, OfPanel, ListHandlers
  <2>3. CASE call[x].by = "load"
    <3>1. g = Idle \/ g = Get("refresh", call[x].of)
      BY <2>3 DEF PanelGone
    <3>2. IsCall(g) /\ (g = Idle \/ g.by = "refresh")
      BY <2>1, <3>1, GetMade DEF IsCall, Fresh
    <3>3. \A b \in Buttons \ {"busy", "confirmBusy"} : ~Holds(b, call[x])
      BY <2>1, <2>3 DEF Holds, Made
    <3> QED BY <3>2, <3>3, IdleFields DEF OfPanel, ListHandlers, PanelChanges
  <2>4. CASE call[x].by \notin {"act", "confirm", "load"}
    <3>1. g = call[x]
      BY <2>4 DEF PanelGone
    <3> QED BY <2>1, <2>4, <3>1 DEF IsCall, InPlace, OfPanel, PanelChanges
  <2> QED BY <2>2, <2>3, <2>4
<1> QED BY <1>1, <1>2

\* The page of a room, without a panel.
LEMMA NoPanelKeeps ==
  ASSUME PagesInv, UNCHANGED tables, address' \in RoomIds, detail' \in Detail,
         loadError' \in BOOLEAN, joining' \in BOOLEAN, settled' \in BOOLEAN,
         panel' = ClosedPanel, list' \in List, ~list'.deleting, DOMAIN call' = Calls,
         \A x \in Calls : /\ IsCall(call'[x])
                          /\ \/ call'[x] = Idle
                             \/ call'[x].by \notin ListHandlers /\ ~OfPanel(call'[x])
                          /\ call'[x].by = "open" => call'[x].of = address'
  PROVE  TypeOK' /\ Sound' /\ ListSettled' /\ PanelSettled'
<1>1. address' # "list" /\ panel' \in Panel /\ ~panel'.open
  BY ClosedPanelTyped DEF RoomIds
<1>2. TypeOK'
  BY <1>1 DEF PagesInv, TypeOK, tables, IsCall, Free
<1>3. \A x \in Calls : Free(x)' \/ (Made(call[x])' /\ InPlace(call[x])')
  BY <1>1 DEF IsCall, Free, Made, InPlace, OfPanel
<1>4. Sound'
  BY <1>1, <1>3 DEF Sound
<1> QED BY <1>1, <1>2, <1>4 DEF ListSettled, PanelSettled

\* Buttons, when many slots change.
LEMMA ManyBusy ==
  ASSUME PagesInv,
         \A b \in Buttons : Disabled(b)' =>
           /\ Disabled(b)
           /\ \A x \in Calls : Holds(b, call[x]) => Holds(b, call'[x])
  PROVE  BusyOnlyWhileWaiting'
BY BusyIsHeld, BusyIsHeldNext DEF PagesInv

LEMMA NoneDisabled ==
  ASSUME ~joining', panel' = ClosedPanel, list' = NewList
  PROVE  BusyOnlyWhileWaiting'
BY DEF BusyOnlyWhileWaiting, ClosedPanel, NewList

LEMMA OpenPanelIsInside ==
  ASSUME PagesInv, panel.open \/ Inside(detail)
  PROVE  address # "list" /\ address \in RoomIds
BY DEF PagesInv, Sound, Inside, NoDetail, TypeOK

LEMMA ClosePanelKeeps ==
  ASSUME PagesInv, ClosePanel
  PROVE  PagesInv'
<1>1. /\ panel' = ClosedPanel /\ call' = [x \in Calls |-> PanelGone(call[x])]
      /\ UNCHANGED <<tables, address, detail, loadError, joining, list, settled>>
      /\ address # "list" /\ address \in RoomIds
  BY OpenPanelIsInside DEF ClosePanel, Visible
<1>2. \A x \in Calls : /\ IsCall(call'[x])
                       /\ \/ call'[x] = Idle
                          \/ call'[x].by \notin ListHandlers /\ ~OfPanel(call'[x])
                       /\ call'[x].by = "open" => call'[x].of = address
                       /\ \A b \in Buttons \ {"busy", "confirmBusy"} :
                            Holds(b, call[x]) => Holds(b, call'[x])
  BY <1>1, PanelGoneIs DEF PagesInv
<1>3. TypeOK' /\ Sound' /\ ListSettled' /\ PanelSettled'
  BY <1>1, <1>2, NoPanelKeeps DEF PagesInv, TypeOK, Sound
<1>4. \A b \in Buttons : Disabled(b)' => Disabled(b) /\ b \notin {"busy", "confirmBusy"}
  BY <1>1 DEF Disabled, ClosedPanel
<1>5. BusyOnlyWhileWaiting'
  BY <1>2, <1>4, ManyBusy
<1> QED BY <1>3, <1>5 DEF PagesInv

\* A room arrives while the user stays inside: only the slot of the answer changes.
LEMMA StaysBecomes ==
  ASSUME PagesInv, NEW c \in Calls, NEW d, ShowDetail(c, d), Inside(detail), Inside(d)
  PROVE  /\ detail' = d /\ panel' = panel /\ UNCHANGED <<tables, address, list, changes>>
         /\ \/ /\ panel.open
               /\ Become(c, Load(address, isOwnerOrRoomAdmin(d.role), "none"))
               /\ settled' = \A x \in Calls : x # c => call[x].by # "load"
            \/ /\ panel.open => isOwnerOrRoomAdmin(d.role) = isOwnerOrRoomAdmin(detail.role)
               /\ Become(c, Idle) /\ settled' = settled
<1> DEFINE others == [x \in Calls |-> IF x = c THEN Idle ELSE call[x]]
           reload == /\ panel.open
                     /\ isOwnerOrRoomAdmin(d.role) # isOwnerOrRoomAdmin(detail.role)
<1>1. DOMAIN call = Calls
  BY DEF PagesInv, TypeOK
<1>2. /\ detail' = d /\ panel' = panel /\ UNCHANGED <<tables, address, list, changes>>
      /\ call' = IF reload
                 THEN [others EXCEPT ![c] = Load(address, isOwnerOrRoomAdmin(d.role), "none")]
                 ELSE others
      /\ settled' = IF reload THEN Alone(others, "load") ELSE settled
  <2>1. others = [x \in Calls |-> CASE x = c -> Idle
                                    [] x # c /\ Inside(detail) /\ Inside(d) -> call[x]
                                    [] x # c /\ ~(Inside(detail) /\ Inside(d))
                                         -> PanelGone(call[x])]
    OBVIOUS
  <2> QED BY <2>1 DEF ShowDetail
<1>3. CASE reload
  <2>1. Become(c, Load(address, isOwnerOrRoomAdmin(d.role), "none"))
    BY <1>1, <1>2, <1>3 DEF Become
  <2>2. Alone(others, "load") = \A x \in Calls : x # c => call[x].by # "load"
    BY IdleFields DEF Alone
  <2> QED BY <1>2, <1>3, <2>1, <2>2
<1>4. CASE ~reload
  <2>1. Become(c, Idle)
    BY <1>1, <1>2, <1>4 DEF Become
  <2> QED BY <1>2, <1>4, <2>1
<1> QED BY <1>3, <1>4

LEMMA ShowDetailStays ==
  ASSUME PagesInv, NEW c \in Calls, call[c].by \in {"open", "refresh", "reread"},
         NEW d \in Detail, ShowDetail(c, d), Inside(detail), Inside(d),
         loadError' \in BOOLEAN, joining' \in BOOLEAN,
         joining' => joining /\ call[c].by # "reread"
  PROVE  PagesInv'
<1>1. /\ ~Free(c) /\ IsRequest(call[c]) /\ Made(call[c])
      /\ call[c].then = "none"
  BY StageIsSlot DEF PagesInv, Made
<1>2. ListSettled' /\ address # "list" /\ address \in RoomIds
  <2>1. address' = address
    BY DEF ShowDetail
  <2> QED BY <1>1, <2>1, Elsewhere DEF ListHandlers
<1>3. PICK q : /\ Become(c, q) /\ IsCall(q)
               /\ \/ /\ q = Idle /\ settled' = settled
                     /\ panel.open =>
                          isOwnerOrRoomAdmin(d.role) = isOwnerOrRoomAdmin(detail.role)
                  \/ /\ panel.open /\ q.by = "load" /\ q.of = address /\ q.stage = "sent"
                     /\ q.op = "members" /\ q.gov = isOwnerOrRoomAdmin(d.role)
                     /\ settled' = \A x \in Calls : x # c => call[x].by # "load"
  <2>1. PICK gov \in BOOLEAN : gov = isOwnerOrRoomAdmin(d.role)
    <3>1. isOwnerOrRoomAdmin(d.role) \in BOOLEAN
      BY DEF isOwnerOrRoomAdmin
    <3> QED BY <3>1
  <2>2. \/ /\ panel.open
           /\ Become(c, Load(address, gov, "none"))
           /\ settled' = \A x \in Calls : x # c => call[x].by # "load"
        \/ /\ panel.open => isOwnerOrRoomAdmin(d.role) = isOwnerOrRoomAdmin(detail.role)
           /\ Become(c, Idle) /\ settled' = settled
    BY <2>1, StaysBecomes
  <2>3. CASE /\ panel.open
             /\ Become(c, Load(address, gov, "none"))
             /\ settled' = \A x \in Calls : x # c => call[x].by # "load"
    <3>1. PICK q : q = Load(address, gov, "none")
      OBVIOUS
    <3>2. /\ IsCall(q) /\ q.by = "load" /\ q.of = address /\ q.stage = "sent"
          /\ q.op = "members" /\ q.gov = gov
      BY <1>2, <3>1, LoadMade
    <3> QED BY <2>1, <2>3, <3>1, <3>2
  <2> QED BY <2>2, <2>3 DEF IsCall
<1>4. /\ detail' = d /\ panel' = panel /\ list' = list /\ address' = address
      /\ room' = room /\ role' = role /\ banned' = banned
  BY StaysBecomes DEF tables
<1>5. q = Idle \/ InPlace(q)'
  BY <1>2, <1>3, <1>4 DEF InPlace, OfPanel, ListHandlers
<1>6. /\ Sound' /\ DOMAIN call' = Calls
      /\ \A x \in Calls : call'[x] = Idle \/ IsRequest(call'[x])
  BY <1>2, <1>3, <1>4, <1>5, SlotSound DEF PagesInv, Sound
<1>7. TypeOK'
  <2>1. settled' \in BOOLEAN
    BY <1>3 DEF PagesInv, TypeOK
  <2> QED BY <1>4, <1>6, <2>1 DEF PagesInv, TypeOK, Free
<1>8. BusyOnlyWhileWaiting'
  <2>1. \A b \in Buttons : Disabled(b)' => Disabled(b) /\ ~Holds(b, call[c])
    BY <1>1, <1>4 DEF Disabled, Holds
  <2> QED BY <1>3, <2>1, SlotBusy DEF PagesInv
<1>9. PanelSettled'
  <2>1. CASE ~panel.open
    BY <1>4, <2>1 DEF PanelSettled
  <2>2. CASE panel.open /\ q = Idle
    <3>1. ~Overtakes(call[c], PanelChanges) /\ call[c].by # "load"
      BY DEF Overtakes, PanelChanges
    <3>2. settled' => settled
      BY <1>3, <2>2, IdleFields
    <3>3. isOwnerOrRoomAdmin(detail'.role) = isOwnerOrRoomAdmin(detail.role)
      BY <1>3, <1>4, <2>2, IdleFields
    <3>4. UNCHANGED tables
      BY <1>4 DEF tables
    <3> QED BY <1>3, <1>4, <2>2, <3>1, <3>2, <3>3, <3>4, SlotPanel, IdleFields DEF PagesInv
  <2>3. CASE q # Idle
    <3>1. call'[c] = q /\ \A x \in Calls : x # c => call'[x] = call[x]
      BY <1>3, Becomes DEF PagesInv
    <3> QED BY <1>3, <1>4, <2>3, <3>1, FreshLoad
  <2> QED BY <2>1, <2>2, <2>3
<1> QED BY <1>2, <1>6, <1>7, <1>8, <1>9 DEF PagesInv

LEMMA ShowDetailLeaves ==
  ASSUME PagesInv, NEW c \in Calls, call[c].by \in {"open", "refresh", "reread"},
         NEW d \in Detail, ShowDetail(c, d), ~(Inside(detail) /\ Inside(d)),
         loadError' \in BOOLEAN, joining' \in BOOLEAN,
         joining' => joining /\ call[c].by # "reread"
  PROVE  PagesInv'
<1>1. ~Free(c) /\ IsRequest(call[c]) /\ Made(call[c]) /\ call[c].then = "none"
  BY StageIsSlot DEF PagesInv, Made
<1>2. /\ detail' = d /\ panel' = ClosedPanel /\ settled' = settled
      /\ UNCHANGED <<tables, address, list, changes>>
      /\ call' = [x \in Calls |-> IF x = c THEN Idle ELSE PanelGone(call[x])]
  <2>1. [x \in Calls |-> IF x = c THEN Idle ELSE PanelGone(call[x])]
          = [x \in Calls |-> CASE x = c -> Idle
                               [] x # c /\ Inside(detail) /\ Inside(d) -> call[x]
                               [] x # c /\ ~(Inside(detail) /\ Inside(d))
                                    -> PanelGone(call[x])]
    OBVIOUS
  <2> QED BY <2>1 DEF ShowDetail
<1>3. address # "list" /\ address \in RoomIds
  BY <1>1, <1>2, Elsewhere DEF ListHandlers
<1>4. ASSUME NEW x \in Calls
      PROVE  /\ IsCall(call'[x])
             /\ \/ call'[x] = Idle
                \/ call'[x].by \notin ListHandlers /\ ~OfPanel(call'[x])
             /\ call'[x].by = "open" => call'[x].of = address
             /\ \A b \in Buttons : Disabled(b)' /\ Holds(b, call[x]) => Holds(b, call'[x])
  <2>1. \A b \in Buttons : Disabled(b)' => b \notin {"busy", "confirmBusy"}
    BY <1>2 DEF Disabled, ClosedPanel
  <2>2. CASE x = c
    <3>1. call'[x] = Idle
      BY <1>2, <2>2
    <3>2. \A b \in Buttons : ~(Disabled(b)' /\ Holds(b, call[x]))
      BY <1>1, <2>1, <2>2 DEF Holds, Disabled
    <3> QED BY <3>1, <3>2, IdleFields DEF IsCall
  <2>3. CASE x # c
    <3>1. call'[x] = PanelGone(call[x])
      BY <1>2, <2>3
    <3> QED BY <1>3, <2>1, <3>1, PanelGoneIs DEF PagesInv
  <2> QED BY <2>2, <2>3
<1>5. TypeOK' /\ Sound' /\ ListSettled' /\ PanelSettled'
  BY <1>2, <1>3, <1>4, NoPanelKeeps DEF PagesInv, TypeOK, Sound
<1>6. BusyOnlyWhileWaiting'
  <2>1. \A b \in Buttons : Disabled(b)' => Disabled(b)
    BY <1>2 DEF Disabled, ClosedPanel
  <2> QED BY <1>4, <2>1, ManyBusy
<1> QED BY <1>5, <1>6 DEF PagesInv

LEMMA OpenedKeeps ==
  ASSUME PagesInv, NEW c \in Calls, Opened(c) \/ Refreshed(c) \/ Reread(c)
  PROVE  PagesInv'
<1>1. /\ call[c].by \in {"open", "refresh", "reread"} /\ call[c].stage = "ok"
      /\ ShowDetail(c, call[c].got) /\ loadError' = loadError
      /\ joining' = (joining /\ call[c].by # "reread")
  <2>1. joining \in BOOLEAN
    BY DEF PagesInv, TypeOK
  <2> QED BY <2>1 DEF Opened, Refreshed, Reread, Answered
<1>2. call[c].got \in Detail
  BY <1>1, StageIsSlot DEF PagesInv, Made, IsRequest, Result
<1>3. loadError' \in BOOLEAN /\ joining' \in BOOLEAN
  BY <1>1 DEF PagesInv, TypeOK
<1> QED BY <1>1, <1>2, <1>3, ShowDetailStays, ShowDetailLeaves

(* Another page *)

LEMMA OrphanIs ==
  ASSUME TypeOK, Sound, NEW x \in Calls, NEW g, g = Orphan(call[x])
  PROVE  IsCall(g) /\ (g = Idle \/ g.by = "left")
<1>1. CASE g = Idle
  BY <1>1 DEF IsCall
<1>2. CASE g # Idle
  <2>1. /\ IsRequest(call[x]) /\ Made(call[x]) /\ call[x].op \in Changes
        /\ call[x].stage = "sent" /\ g = [call[x] EXCEPT !.by = "left"]
    BY <1>2, InSlot DEF Orphan, Free
  <2>2. /\ DOMAIN g = DOMAIN call[x] /\ g.by = "left" /\ g.op = call[x].op
        /\ g.of = call[x].of /\ g.target = call[x].target /\ g.gov = call[x].gov
        /\ g.search = call[x].search /\ g.then = call[x].then /\ g.gone = call[x].gone
        /\ g.stage = call[x].stage /\ g.got = call[x].got
    BY <2>1, Fields
  <2>3. IsRequest(g)
    BY <2>1, <2>2 DEF IsRequest, Handlers
  <2>4. /\ call[x].op \notin {"get", "members", "bans", "lists"}
        /\ call[x].by \notin {"load", "lists"} /\ call[x].then = "none"
    BY <2>1, Asks DEF Made, Changes, Policy!Operations, ListChanges, PanelChanges
  <2>5. Made(g)
    BY <2>1, <2>2, <2>4 DEF Made, ListHandlers, PanelChanges
  <2> QED BY <2>2, <2>3, <2>5 DEF IsCall
<1> QED BY <1>1, <1>2

LEMMA NewListTyped == NewList \in List /\ ~NewList.deleting
BY SearchAssumption DEF NewList, List, NothingFound, Found, RoleNames

LEMMA NoDetailTyped == NoDetail \in Detail
BY DEF NoDetail, Detail, RoleNames

\* To the list of rooms: nothing of the page that is left goes on.
LEMMA GoToListKeeps ==
  ASSUME PagesInv, GoTo("list")
  PROVE  PagesInv'
<1> DEFINE kept == [x \in Calls |-> Orphan(call[x])]
<1>1. PICK c \in Calls : call' = [kept EXCEPT ![c] = Lists(NoSearch, "none")]
  BY DEF GoTo
<1>2. /\ address' = "list" /\ detail' = NoDetail /\ loadError' = FALSE /\ ~joining'
      /\ joining' \in BOOLEAN /\ panel' = ClosedPanel /\ list' = NewList /\ settled' = TRUE
      /\ UNCHANGED <<tables, changes>>
  BY DEF GoTo
<1>3. PICK q : q = Lists(NoSearch, "none")
  OBVIOUS
<1>4. IsCall(q) /\ q.by = "lists" /\ q.stage = "sent" /\ q.search = NoSearch
  BY <1>3, ListsMade, SearchAssumption
<1>5. /\ DOMAIN call' = Calls /\ call'[c] = q
      /\ \A x \in Calls : x # c => call'[x] = Orphan(call[x])
  BY <1>1, <1>3
<1>6. \A x \in Calls : x # c => IsCall(call'[x]) /\ (call'[x] = Idle \/ call'[x].by = "left")
  BY <1>5, OrphanIs DEF PagesInv
<1>7. TypeOK'
  BY <1>2, <1>4, <1>5, <1>6, NewListTyped, NoDetailTyped, ClosedPanelTyped
  DEF PagesInv, TypeOK, tables, IsCall, Free
<1>8. \A x \in Calls : Free(x)' \/ (Made(call[x])' /\ InPlace(call[x])')
  BY <1>2, <1>4, <1>5, <1>6
  DEF IsCall, Free, Made, InPlace, OfPanel, ListHandlers, PanelChanges
<1>9. Sound'
  BY <1>2, <1>8, ClosedPanelTyped DEF Sound
<1>10. BusyOnlyWhileWaiting'
  BY <1>2, NoneDisabled
<1>11. ListSettled'
  BY <1>2, <1>4, <1>5, <1>6, FreshLists, IdleFields DEF NewList
<1>12. PanelSettled'
  BY <1>2 DEF PanelSettled
<1> QED BY <1>7, <1>9, <1>10, <1>11, <1>12 DEF PagesInv

LEMMA GoToRoomKeeps ==
  ASSUME PagesInv, NEW page \in RoomIds, GoTo(page)
  PROVE  PagesInv'
<1> DEFINE kept == [x \in Calls |-> IF address # "list" THEN AfterMove(call[x])
                                                        ELSE Orphan(call[x])]
<1>1. page # "list"
  BY DEF RoomIds
<1>2. PICK c \in Calls : kept[c] = Idle /\ call' = [kept EXCEPT ![c] = Get("open", page)]
  BY <1>1 DEF GoTo
<1>3. /\ address' = page /\ detail' = NoDetail /\ loadError' = FALSE
      /\ joining' = (joining /\ address # "list")
      /\ panel' = ClosedPanel /\ list' = NewList /\ settled' = TRUE
      /\ UNCHANGED <<tables, changes>>
  BY <1>1 DEF GoTo
<1>4. PICK q : q = Get("open", page)
  OBVIOUS
<1>5. IsCall(q) /\ q.by = "open" /\ q.of = page
  BY <1>4, GetMade DEF Fresh
<1>6. /\ DOMAIN call' = Calls /\ call'[c] = q
      /\ \A x \in Calls : x # c => call'[x] = kept[x]
  BY <1>2, <1>4
<1>7. ASSUME NEW x \in Calls
      PROVE  /\ IsCall(kept[x])
             /\ kept[x] = Idle \/ (kept[x].by \notin ListHandlers /\ ~OfPanel(kept[x]))
             /\ kept[x].by # "open"
             /\ address # "list" /\ Holds("joining", call[x]) => Holds("joining", kept[x])
  <2>1. CASE address = "list"
    BY <2>1, OrphanIs, IdleFields DEF PagesInv, OfPanel, ListHandlers, PanelChanges
  <2>2. CASE address # "list" /\ call[x].by = "open"
    BY <2>2, IdleFields DEF AfterMove, IsCall, Holds
  <2>3. CASE address # "list" /\ call[x].by # "open"
    <3>1. kept[x] = PanelGone(call[x])
      BY <2>3 DEF AfterMove
    <3> HIDE DEF kept
    <3> QED BY <2>3, <3>1, PanelGoneIs DEF PagesInv, Buttons
  <2> QED BY <2>1, <2>2, <2>3
<1> HIDE DEF kept
<1>8. \A x \in Calls : /\ IsCall(call'[x])
                       /\ \/ call'[x] = Idle
                          \/ call'[x].by \notin ListHandlers /\ ~OfPanel(call'[x])
                       /\ call'[x].by = "open" => call'[x].of = address'
  BY <1>3, <1>5, <1>6, <1>7 DEF ListHandlers, OfPanel, PanelChanges
<1>9. TypeOK' /\ Sound' /\ ListSettled' /\ PanelSettled'
  BY <1>3, <1>6, <1>8, NoPanelKeeps, NewListTyped, NoDetailTyped DEF PagesInv, TypeOK
<1>10. BusyOnlyWhileWaiting'
  <2>1. CASE ~joining'
    BY <1>3, <2>1, NoneDisabled
  <2>2. CASE joining'
    <3>1. \A b \in Buttons : Disabled(b)' => b = "joining" /\ Disabled(b)
      BY <1>3, <2>2 DEF Disabled, ClosedPanel, NewList
    <3>2. \A x \in Calls : Holds("joining", call[x]) => Holds("joining", kept[x])
      BY <1>3, <1>7, <2>2
    <3>3. ~Holds("joining", kept[c])
      BY <1>2, IdleFields DEF Holds
    <3>4. \A x \in Calls : Holds("joining", call[x]) => Holds("joining", call'[x])
      BY <1>6, <3>2, <3>3
    <3> QED BY <3>1, <3>4, ManyBusy
  <2> QED BY <2>1, <2>2
<1> QED BY <1>9, <1>10 DEF PagesInv

----------------------------------------------------------------------------
(* The user *)

LEMMA FreeHoldsNothing ==
  ASSUME NEW c \in Calls, Free(c)
  PROVE  /\ \A b \in Buttons : ~Holds(b, call[c])
         /\ call[c].by \notin {"lists", "load"}
         /\ ~Overtakes(call[c], ListChanges) /\ ~Overtakes(call[c], PanelChanges)
BY IdleFields DEF Free, Holds, Overtakes

\* The user asks for a change: nothing is read yet.
LEMMA AskedSettled ==
  ASSUME PagesInv, NEW c \in Calls, Free(c), NEW q, Become(c, q),
         q.by \notin {"lists", "load"}, UNCHANGED <<tables, address, detail, settled>>,
         panel'.open = panel.open, panel'.members = panel.members, panel'.bans = panel.bans,
         list'.of = list.of, list'.applied = list.applied, list'.shows = list.shows
  PROVE  ListSettled' /\ PanelSettled'
<1>1. ListSettled'
  BY FreeHoldsNothing, SlotList DEF PagesInv
<1>2. PanelSettled'
  BY FreeHoldsNothing, SlotPanel DEF PagesInv
<1> QED BY <1>1, <1>2

LEMMA JoinKeeps ==
  ASSUME PagesInv, NEW c \in Calls, Join(c)
  PROVE  PagesInv'
<1>1. /\ Free(c) /\ address # "list" /\ Become(c, NewCall("join", "join", address))
      /\ joining' = TRUE /\ loadError' = FALSE
      /\ UNCHANGED <<tables, address, detail, panel, list, settled>>
  BY DEF Join
<1>2. address \in RoomIds
  BY <1>1 DEF PagesInv, TypeOK
<1>3. PICK q : q = NewCall("join", "join", address)
  OBVIOUS
<1>4. Fresh(q, "join", "join", address)
  BY <1>2, <1>3, NewCallFresh DEF Handlers, Changes, Policy!Operations
<1>5. IsCall(q) /\ q.by = "join"
  BY <1>4 DEF Fresh, IsCall, Made, ListHandlers, PanelChanges
<1>6. InPlace(q)'
  BY <1>1, <1>5 DEF InPlace, OfPanel, ListHandlers, PanelChanges
<1>7. \A b \in Buttons : Disabled(b)' => Holds(b, q) \/ (Disabled(b) /\ ~Holds(b, call[c]))
  BY <1>1, <1>5, FreeHoldsNothing DEF Disabled, Holds
<1>8. TypeOK' /\ Sound' /\ BusyOnlyWhileWaiting'
  BY <1>1, <1>3, <1>5, <1>6, <1>7, SlotKeeps DEF PagesInv, TypeOK, Sound
<1>9. ListSettled' /\ PanelSettled'
  BY <1>1, <1>3, <1>5, AskedSettled
<1> QED BY <1>8, <1>9 DEF PagesInv

LEMMA OpenPanelKeeps ==
  ASSUME PagesInv, NEW c \in Calls, OpenPanel(c)
  PROVE  PagesInv'
<1>1. /\ Free(c) /\ Inside(detail) /\ ~panel.open
      /\ panel' = [ClosedPanel EXCEPT !.open = TRUE]
      /\ Become(c, Load(address, isOwnerOrRoomAdmin(detail.role), "none"))
      /\ settled' = Alone(call, "load")
      /\ UNCHANGED <<tables, address, detail, loadError, joining, list>>
  BY DEF OpenPanel
<1>2. /\ address # "list" /\ address \in RoomIds
      /\ isOwnerOrRoomAdmin(detail.role) \in BOOLEAN
  BY <1>1, OpenPanelIsInside DEF isOwnerOrRoomAdmin
<1>3. PICK gov \in BOOLEAN : gov = isOwnerOrRoomAdmin(detail.role)
  BY <1>2
<1>4. PICK q : q = Load(address, gov, "none")
  OBVIOUS
<1>5. /\ IsCall(q) /\ q.by = "load" /\ q.of = address /\ q.stage = "sent"
      /\ q.op = "members" /\ q.gov = gov
  BY <1>2, <1>4, LoadMade
<1>6. Become(c, q)
  BY <1>1, <1>3, <1>4
<1>7. panel' \in Panel /\ panel'.open /\ ~panel'.busy /\ ~panel'.confirmBusy
  BY <1>1, ClosedPanelTyped DEF ClosedPanel, Panel
<1>8. InPlace(q)'
  BY <1>1, <1>2, <1>5, <1>7 DEF InPlace, OfPanel, ListHandlers
<1>9. \A b \in Buttons : Disabled(b)' => Disabled(b) /\ ~Holds(b, call[c])
  BY <1>1, <1>7, FreeHoldsNothing DEF Disabled
<1>10. settled' \in BOOLEAN
  BY <1>1 DEF Alone
<1>11. TypeOK' /\ Sound' /\ BusyOnlyWhileWaiting'
  BY <1>1, <1>2, <1>5, <1>6, <1>7, <1>8, <1>9, <1>10, SlotKeeps DEF PagesInv, TypeOK, Sound
<1>12. ListSettled'
  BY <1>1, <1>2 DEF ListSettled
<1>13. PanelSettled'
  <2>1. call'[c] = q /\ \A x \in Calls : x # c => call'[x] = call[x]
    BY <1>6, Becomes DEF PagesInv
  <2> QED BY <1>1, <1>3, <1>5, <2>1, FreshLoad DEF Alone
<1> QED BY <1>11, <1>12, <1>13 DEF PagesInv

\* A change is sent from the panel.
LEMMA PanelActKeeps ==
  ASSUME PagesInv, NEW c \in Calls, Confirm(c) \/ \E op \in DirectOps, u \in Users : Act(c, op, u)
  PROVE  PagesInv'
<1>1. /\ Free(c) /\ panel.open /\ panel \in Panel
      /\ UNCHANGED <<tables, address, detail, loadError, joining, list, settled, changes>>
  BY DEF Confirm, Act, AtHand, Visible, PagesInv, TypeOK
<1>2. address # "list" /\ address \in RoomIds
  BY <1>1, OpenPanelIsInside
<1>3. PICK by \in PanelChanges, op \in DialogOps \union DirectOps, u \in Users :
        /\ Become(c, PanelCall(by, op, u))
        /\ \/ by = "act" /\ panel' = [panel EXCEPT !.busy = TRUE]
           \/ by = "confirm" /\ panel' = [panel EXCEPT !.confirmBusy = TRUE]
  <2>1. CASE Confirm(c)
    <3>1. panel.pending.op \in DialogOps /\ panel.pending.target \in Users
      BY <1>1, <2>1 DEF Confirm, Panel
    <3> QED BY <2>1, <3>1 DEF Confirm, PanelChanges
  <2>2. CASE \E op \in DirectOps, u \in Users : Act(c, op, u)
    BY <2>2 DEF Act, PanelChanges
  <2> QED BY <2>1, <2>2
<1>4. PICK q : q = PanelCall(by, op, u)
  OBVIOUS
<1>5. /\ IsCall(q) /\ q.by = by /\ q.of = address /\ ~q.gone
  BY <1>2, <1>4, PanelCallMade DEF PagesInv
<1>6. Become(c, q)
  BY <1>3, <1>4
<1>7. /\ panel' \in Panel /\ panel'.open = panel.open /\ panel'.members = panel.members
      /\ panel'.bans = panel.bans
      /\ panel'.busy => panel.busy \/ by = "act"
      /\ panel'.confirmBusy => panel.confirmBusy \/ by = "confirm"
  BY <1>1, <1>3 DEF Panel
<1>8. InPlace(q)'
  BY <1>1, <1>2, <1>5, <1>7 DEF InPlace, OfPanel, ListHandlers, PanelChanges
<1>9. \A b \in Buttons : Disabled(b)' => Holds(b, q) \/ (Disabled(b) /\ ~Holds(b, call[c]))
  BY <1>1, <1>5, <1>7, FreeHoldsNothing DEF Disabled, Holds
<1>10. TypeOK' /\ Sound' /\ BusyOnlyWhileWaiting'
  BY <1>1, <1>5, <1>6, <1>7, <1>8, <1>9, SlotKeeps DEF PagesInv, TypeOK, Sound
<1>11. ListSettled' /\ PanelSettled'
  BY <1>1, <1>5, <1>6, <1>7, AskedSettled DEF PanelChanges
<1> QED BY <1>10, <1>11 DEF PagesInv

\* A change is sent from the list of rooms.
LEMMA RoomActKeeps ==
  ASSUME PagesInv, NEW c \in Calls,
         \/ ConfirmDelete(c)
         \/ \E op \in ListOps : RoomAct(c, op)
         \/ \E u \in Users : Invite(c, u)
  PROVE  PagesInv'
<1>1. /\ Free(c) /\ address = "list" /\ list \in List
      /\ UNCHANGED <<tables, address, roomPage, settled, changes>>
  BY DEF ConfirmDelete, RoomAct, Invite, Listing, PagesInv, Sound, TypeOK
<1>2. PICK q :
        /\ Become(c, q)
        /\ \/ /\ \E op \in ListOps : q = ListCall("room", op)
              /\ list' = [list EXCEPT !.busy = TRUE]
           \/ q = ListCall("delete", "delete") /\ list' = [list EXCEPT !.deleteBusy = TRUE]
           \/ /\ \E u \in Users : q = [ListCall("invite", "invite") EXCEPT !.target = u]
              /\ list' = [list EXCEPT !.submitting = TRUE]
  BY DEF ConfirmDelete, RoomAct, Invite
<1>3. /\ IsCall(q) /\ q.of = "here"
      /\ \/ q.by = "room" /\ list' = [list EXCEPT !.busy = TRUE]
         \/ q.by = "delete" /\ list' = [list EXCEPT !.deleteBusy = TRUE]
         \/ q.by = "invite" /\ list' = [list EXCEPT !.submitting = TRUE]
  BY <1>2, ListCallMade, MeAssumption DEF PagesInv
<1>4. /\ list' \in List /\ list'.of = list.of /\ list'.applied = list.applied
      /\ list'.shows = list.shows
      /\ list'.busy => list.busy \/ q.by = "room"
      /\ list'.deleteBusy => list.deleteBusy \/ q.by = "delete"
      /\ list'.submitting => list.submitting \/ q.by = "invite"
  BY <1>1, <1>3 DEF List
<1>5. /\ joining' = joining /\ panel' = panel /\ detail' = detail /\ loadError' = loadError
  BY <1>1 DEF roomPage
<1>6. InPlace(q)' /\ q.by \in {"room", "delete", "invite"}
  BY <1>1, <1>2, <1>3 DEF InPlace, OfPanel, ListHandlers, PanelChanges
<1>7. \A b \in Buttons : Disabled(b)' => Holds(b, q) \/ (Disabled(b) /\ ~Holds(b, call[c]))
  BY <1>1, <1>3, <1>4, <1>5, FreeHoldsNothing DEF Disabled, Holds
<1>8. TypeOK' /\ Sound' /\ BusyOnlyWhileWaiting'
  BY <1>1, <1>2, <1>3, <1>4, <1>5, <1>6, <1>7, SlotKeeps DEF PagesInv, TypeOK
<1>9. ListSettled' /\ PanelSettled'
  BY <1>1, <1>2, <1>3, <1>4, <1>5, <1>6, AskedSettled
<1> QED BY <1>8, <1>9 DEF PagesInv

LEMMA SearchKeeps ==
  ASSUME PagesInv, NEW c \in Calls, NEW s \in Searches, Search(c, s)
  PROVE  PagesInv'
<1>1. /\ Free(c) /\ address = "list" /\ list' = [list EXCEPT !.applied = s]
      /\ Become(c, Lists(s, "none")) /\ settled' = Alone(call, "lists")
      /\ UNCHANGED <<tables, address, roomPage>> /\ list \in List
  BY DEF Search, Listing, PagesInv, TypeOK
<1>2. PICK q : q = Lists(s, "none")
  OBVIOUS
<1>3. IsCall(q) /\ q.by = "lists" /\ q.search = s /\ q.stage = "sent"
  BY <1>2, ListsMade
<1>4. /\ list' \in List /\ list'.applied = s /\ list'.busy = list.busy
      /\ list'.deleteBusy = list.deleteBusy /\ list'.submitting = list.submitting
  BY <1>1 DEF List
<1>5. /\ joining' = joining /\ panel' = panel /\ detail' = detail /\ loadError' = loadError
      /\ settled' \in BOOLEAN
  BY <1>1 DEF roomPage, Alone
<1>6. InPlace(q)'
  BY <1>1, <1>3 DEF InPlace, OfPanel, ListHandlers, PanelChanges
<1>7. \A b \in Buttons : Disabled(b)' => Disabled(b) /\ ~Holds(b, call[c])
  BY <1>1, <1>4, <1>5, FreeHoldsNothing DEF Disabled
<1>8. TypeOK' /\ Sound' /\ BusyOnlyWhileWaiting'
  BY <1>1, <1>2, <1>3, <1>4, <1>5, <1>6, <1>7, SlotKeeps DEF PagesInv, TypeOK
<1>9. ListSettled'
  <2>1. call'[c] = q /\ \A x \in Calls : x # c => call'[x] = call[x]
    BY <1>1, <1>2, Becomes DEF PagesInv
  <2> QED BY <1>1, <1>3, <1>4, <2>1, FreshLists DEF Alone
<1>10. PanelSettled'
  BY <1>1 DEF PanelSettled
<1> QED BY <1>8, <1>9, <1>10 DEF PagesInv

\* A dialog opens or closes: no request is made.
LEMMA DialogKeeps ==
  ASSUME PagesInv,
         \/ Cancel \/ AskDelete \/ CancelDelete
         \/ \E op \in DialogOps, u \in Users : Ask(op, u)
  PROVE  PagesInv'
<1>1. /\ UNCHANGED <<tables, address, detail, loadError, joining, call, settled, changes>>
      /\ panel \in Panel /\ list \in List
  BY DEF Cancel, AskDelete, CancelDelete, Ask, roomPage, PagesInv, TypeOK
<1>2. /\ panel' \in Panel /\ panel'.open = panel.open /\ panel'.members = panel.members
      /\ panel'.bans = panel.bans /\ panel'.busy = panel.busy
      /\ panel'.confirmBusy = panel.confirmBusy
  <2>1. NoAction \in [op : DialogOps, target : Users] \union {NoAction}
    OBVIOUS
  <2> QED BY <1>1, <2>1 DEF Cancel, AskDelete, CancelDelete, Ask, roomPage, Panel
<1>3. /\ list' \in List /\ list'.of = list.of /\ list'.applied = list.applied
      /\ list'.shows = list.shows /\ list'.busy = list.busy
      /\ list'.deleteBusy = list.deleteBusy /\ list'.submitting = list.submitting
      /\ address # "list" => ~list'.deleting
  BY <1>1 DEF Cancel, AskDelete, CancelDelete, Ask, roomPage, List, Listing, PagesInv, Sound
<1>4. TypeOK'
  BY <1>1, <1>2, <1>3 DEF PagesInv, TypeOK, tables, Free
<1>5. Sound'
  BY <1>1, <1>2, <1>3 DEF PagesInv, Sound, Free, Made, InPlace, OfPanel, Inside
<1>6. BusyOnlyWhileWaiting'
  BY <1>1, <1>2, <1>3 DEF PagesInv, BusyOnlyWhileWaiting, Free
<1>7. ListSettled'
  BY <1>1, <1>3
  DEF PagesInv, ListSettled, Overtaken, Overtakes, StillSo, Alone, InCatalog, tables
<1>8. PanelSettled'
  BY <1>1, <1>2
  DEF PagesInv, PanelSettled, Overtaken, Overtakes, LoadsWell, MembersAre, Alone, tables
<1> QED BY <1>4, <1>5, <1>6, <1>7, <1>8 DEF PagesInv

----------------------------------------------------------------------------
(* Every step *)

LEMMA PagesInvInit == Init => PagesInv
<1> SUFFICES ASSUME Init
             PROVE  PagesInv
  OBVIOUS
<1>1. PICK c \in Calls :
        call = [x \in Calls |-> IF x = c THEN Lists(NoSearch, "none") ELSE Idle]
  BY DEF Init
<1>2. PICK q : q = Lists(NoSearch, "none")
  OBVIOUS
<1>3. IsCall(q) /\ q.by = "lists" /\ q.stage = "sent" /\ q.search = NoSearch
  BY <1>2, ListsMade, SearchAssumption
<1>4. DOMAIN call = Calls /\ call[c] = q /\ \A x \in Calls : x # c => call[x] = Idle
  BY <1>1, <1>2
<1>5. /\ room \in {"absent", "public", "private"} /\ role \in [Users -> RoleNames]
      /\ banned = {} /\ address = "list" /\ detail = NoDetail /\ loadError = FALSE
      /\ joining = FALSE /\ panel = ClosedPanel /\ list = NewList /\ settled = TRUE
  BY DEF Init, NoMembers, RoleNames
<1>6. TypeOK
  BY <1>3, <1>4, <1>5, NewListTyped, NoDetailTyped, ClosedPanelTyped
  DEF TypeOK, IsCall, Free
<1>7. Sound
  BY <1>3, <1>4, <1>5, ClosedPanelTyped
  DEF Sound, IsCall, Free, InPlace, OfPanel, ListHandlers, PanelChanges
<1>8. BusyOnlyWhileWaiting
  BY <1>5 DEF BusyOnlyWhileWaiting, ClosedPanel, NewList
<1>9. ListSettled
  BY <1>3, <1>4, <1>5, IdleFields DEF ListSettled, StillSo, Alone, NewList
<1>10. PanelSettled
  BY <1>5 DEF PanelSettled
<1> QED BY <1>6, <1>7, <1>8, <1>9, <1>10 DEF PagesInv

LEMMA PagesInvStep == PagesInv /\ [Next]_vars => PagesInv'
<1> SUFFICES ASSUME PagesInv, [Next]_vars
             PROVE  PagesInv'
  OBVIOUS
<1>1. CASE UNCHANGED vars
  <2>1. /\ UNCHANGED <<room, role, banned, address, detail, loadError, joining, panel, list>>
        /\ UNCHANGED <<call, settled>>
    BY <1>1 DEF vars, tables, roomPage
  <2>2. TypeOK' /\ Sound' /\ BusyOnlyWhileWaiting'
    BY <2>1
    DEF PagesInv, TypeOK, Sound, BusyOnlyWhileWaiting, Free, Made, InPlace, OfPanel, Inside
  <2>3. ListSettled'
    BY <2>1 DEF PagesInv, ListSettled, Overtaken, Overtakes, StillSo, Alone, InCatalog
  <2>4. PanelSettled'
    BY <2>1 DEF PagesInv, PanelSettled, Overtaken, Overtakes, LoadsWell, MembersAre, Alone
  <2> QED BY <2>2, <2>3, <2>4 DEF PagesInv
<1>2. ASSUME NEW c \in Calls, ServiceStep(c)
      PROVE  PagesInv'
  BY <1>2, ServeGetKeeps, ServeMembersKeeps, ServeBansKeeps, ServeListsKeeps, ServeKeeps,
     ServeInVainKeeps, LoseKeeps DEF ServiceStep
<1>3. ASSUME NEW c \in Calls, PageStep(c)
      PROVE  PagesInv'
  <2>1. CASE Opened(c) \/ Refreshed(c) \/ Reread(c)
    BY <2>1, OpenedKeeps
  <2>2. CASE OpenFailed(c) \/ RefreshFailed(c)
    BY <2>2, OpenFailedKeeps
  <2>3. CASE Joined(c) \/ JoinFailed(c)
    BY <2>3, JoinedKeeps, JoinFailedKeeps
  <2>4. CASE MembersLoaded(c) \/ BansLoaded(c) \/ LoadFailed(c)
    BY <2>4, MembersLoadedKeeps, BansLoadedKeeps, LoadFailedKeeps
  <2>5. CASE ActDone(c) \/ ConfirmDone(c)
    BY <2>5, ActDoneKeeps
  <2>6. CASE ActFailed(c) \/ ConfirmFailed(c)
    BY <2>6, ActFailedKeeps
  <2>7. CASE Listed(c) \/ ListsFailed(c)
    BY <2>7, ListedKeeps, ListsFailedKeeps
  <2>8. CASE RoomDone(c) \/ RoomDeleted(c) \/ Invited(c)
    BY <2>8, RoomDoneKeeps
  <2>9. CASE RoomFailed(c) \/ DeleteFailed(c) \/ InviteFailed(c)
    BY <2>9, RoomFailedKeeps
  <2> QED BY <1>3, <2>1, <2>2, <2>3, <2>4, <2>5, <2>6, <2>7, <2>8, <2>9 DEF PageStep
<1>4. ASSUME NEW c \in Calls, UserStep(c)
      PROVE  PagesInv'
  BY <1>4, JoinKeeps, OpenPanelKeeps, PanelActKeeps, RoomActKeeps, SearchKeeps DEF UserStep
<1>5. CASE \/ Cancel \/ AskDelete \/ CancelDelete
           \/ \E op \in DialogOps, u \in Users : Ask(op, u)
  BY <1>5, DialogKeeps
<1>6. CASE OthersAct \/ ClosePanel
  BY <1>6, OthersActKeeps, ClosePanelKeeps
<1>7. CASE \E page \in RoomIds \union {"list"} : GoTo(page)
  BY <1>7, GoToListKeeps, GoToRoomKeeps
<1> QED BY <1>1, <1>2, <1>3, <1>4, <1>5, <1>6, <1>7 DEF Next

LEMMA PagesInvHolds == Spec => []PagesInv
BY PagesInvInit, PagesInvStep, PTL DEF Spec

----------------------------------------------------------------------------
(* Theorems *)

\* The shape of the state of the pages (RoomPages.TypeOK).
THEOREM PagesTypeCorrect == Spec => []TypeOK
<1>1. PagesInv => TypeOK
  BY DEF PagesInv
<1> QED BY <1>1, PagesInvHolds, PTL

\* RoomModerationPanel.tsx, MemberRow, and rooms.service.ts write the rules twice: what the
\* panel offers when it shows how things are, the service allows.
THEOREM MenusFollowTheRules == Spec => []OfferedIsAllowed
<1>1. TypeOK => OfferedIsAllowed
  <2> SUFFICES ASSUME TypeOK, address = "here", detail = GotRoom("here"), panel.members = role,
                      NEW op \in (DialogOps \union DirectOps) \ {"unban"}, NEW u \in Users,
                      Offered(op, u)
               PROVE  Allowed(op, u)
    BY DEF OfferedIsAllowed
  <2>1. /\ role[Me] \in RoleNames /\ role[u] \in RoleNames
        /\ role[u] # "none" /\ Offers(op, role[Me], role[u], u = Me)
    BY MeAssumption DEF TypeOK, Offered, GotRoom
  <2>2. /\ op # "create"
        /\ op \in {"kick", "ban", "removeAdmin", "promote", "addAdmin", "demote"}
    BY DEF DialogOps, DirectOps
  <2>3. CASE op \in {"promote", "demote", "removeAdmin"}
    <3>1. Policy!Governs(Me)
      <4>1. role[Me] \in {"owner", "admin"}
        BY <2>1, <2>3 DEF Offers, isOwnerOrRoomAdmin
      <4> QED BY <4>1 DEF Policy!Governs, Policy!Rank, Policy!RankOf
    <3>2. role[u] = CASE op = "promote" -> "member"
                      [] op = "demote" -> "mod"
                      [] op = "removeAdmin" -> "admin"
      BY <2>1, <2>3 DEF Offers
    <3> QED BY <2>2, <2>3, <3>1, <3>2 DEF Allowed, Policy!Allows, Policy!MayRegrade
  <2>4. CASE op = "addAdmin"
    BY <2>1, <2>2, <2>4
    DEF Offers, Allowed, RoleNames, Policy!Allows, Policy!MayAddAdmin, Policy!IsMember,
        Policy!Owns, Policy!Rank, Policy!RankOf
  <2>5. CASE op = "ban"
    BY <2>1, <2>2, <2>5
    DEF Offers, isOwnerOrRoomAdmin, Allowed, RoleNames, Policy!Allows, Policy!MayBan,
        Policy!Governs, Policy!Owns, Policy!Rank, Policy!RankOf
  <2>6. CASE op = "kick"
    BY <2>1, <2>2, <2>6
    DEF Offers, Allowed, RoleNames, Policy!Allows, Policy!MayKick, Policy!IsStaff,
        Policy!IsMember, Policy!Rank, Policy!RankOf
  <2> QED BY <2>2, <2>3, <2>4, <2>5, <2>6
<1> QED BY <1>1, PagesTypeCorrect, PTL

\* RoomModerationPanel.tsx: every change of the panel is followed by a load that reads after
\* it, so that a quiet panel shows the members and the bans as they are.
THEOREM PanelShowsTheRoom == Spec => []PanelCurrent
<1>1. PagesInv => PanelCurrent
  <2> SUFFICES ASSUME PagesInv, Quiet, settled, Visible, address = "here"
               PROVE  /\ panel.members = role
                      /\ isOwnerOrRoomAdmin(detail.role) => panel.bans = banned
    BY DEF PanelCurrent
  <2>1. Alone(call, "load") /\ ~Overtaken(PanelChanges)
    BY IdleFields DEF Quiet, Free, Alone, Overtaken, Overtakes
  <2> QED BY <2>1 DEF PagesInv, PanelSettled, MembersAre, Visible
<1> QED BY <1>1, PagesInvHolds, PTL

\* RoomsPage.tsx: the same of the list of rooms, of the catalog and of the search above it.
THEOREM ListShowsTheRooms == Spec => []ListCurrent
<1>1. PagesInv => ListCurrent
  <2> SUFFICES ASSUME PagesInv, Quiet, settled, address = "list"
               PROVE  /\ list.shows.mine = role[Me]
                      /\ list.shows.found = InCatalog
                      /\ list.of = list.applied
    BY DEF ListCurrent
  <2>1. Alone(call, "lists") /\ ~Overtaken(ListChanges)
    BY IdleFields DEF Quiet, Free, Alone, Overtaken, Overtakes
  <2> QED BY <2>1 DEF PagesInv, ListSettled
<1> QED BY <1>1, PagesInvHolds, PTL

\* The busy flags of the pages (their finally blocks): no button is left disabled.
THEOREM ButtonsComeBack == Spec => []BusyOnlyWhileWaiting
<1>1. PagesInv => BusyOnlyWhileWaiting
  BY DEF PagesInv
<1> QED BY <1>1, PagesInvHolds, PTL

\* A step of another slot leaves a request as it is, or closes the panel that it is for.
LEMMA OtherSlots ==
  ASSUME PagesInv, NEW c \in Calls, NEW d \in Calls, d # c,
         ServiceStep(d) \/ PageStep(d) \/ UserStep(d)
  PROVE  call'[c] = call[c] \/ call'[c] = PanelGone(call[c])
<1>1. ASSUME NEW q, Become(d, q)
      PROVE  call'[c] = call[c]
  BY <1>1, Becomes DEF PagesInv
<1>2. CASE ServiceStep(d)
  BY <1>1, <1>2
  DEF ServiceStep, ServeGet, ServeMembers, ServeBans, ServeMine, ServeCatalog, Serve,
      ServeInVain, Lose, Answer, Refuse, Reply
<1>3. ASSUME NEW r, ShowDetail(d, r)
      PROVE  call'[c] = call[c] \/ call'[c] = PanelGone(call[c])
  <2>1. CASE Inside(detail) /\ Inside(r)
    BY <1>1, <1>3, <2>1, StaysBecomes
  <2>2. CASE ~(Inside(detail) /\ Inside(r))
    <3>1. call'[c] = CASE c = d -> Idle
                       [] c # d /\ Inside(detail) /\ Inside(r) -> call[c]
                       [] c # d /\ ~(Inside(detail) /\ Inside(r)) -> PanelGone(call[c])
      BY <1>3, <2>2 DEF ShowDetail
    <3> QED BY <2>2, <3>1
  <2> QED BY <2>1, <2>2
<1>4. CASE Opened(d) \/ Refreshed(d) \/ Reread(d)
  BY <1>3, <1>4 DEF Opened, Refreshed, Reread
<1>5. CASE PageStep(d) /\ ~(Opened(d) \/ Refreshed(d) \/ Reread(d))
  BY <1>1, <1>5
  DEF PageStep, OpenFailed, RefreshFailed, Joined, JoinFailed, MembersLoaded, BansLoaded,
      LoadFailed, ActDone, ActFailed, ConfirmDone, ConfirmFailed, Reload, Listed, ListsFailed,
      RoomDone, RoomFailed, RoomDeleted, DeleteFailed, Invited, InviteFailed, ListAgain
<1>6. CASE UserStep(d)
  BY <1>1, <1>6
  DEF UserStep, Join, OpenPanel, Confirm, ConfirmDelete, Act, Search, RoomAct, Invite
<1> QED BY <1>2, <1>4, <1>5, <1>6

LEMMA OwnRoomStep ==
  ASSUME PagesInv, Next, NEW c \in Calls, Answered(c, "open", "ok"), call'[c].by # "open"
  PROVE  detail'.of \in {address', "nothing"}
<1>1. /\ ~Free(c) /\ IsRequest(call[c]) /\ Made(call[c]) /\ InPlace(call[c])
      /\ call[c].by = "open" /\ call[c].stage = "ok" /\ call[c].op = "get"
      /\ call[c].got.of = address
  <2>1. call[c].by = "open" /\ call[c].stage = "ok"
    BY DEF Answered
  <2> QED BY <2>1, StageIsSlot DEF PagesInv, Made, InPlace
<1>2. PanelGone(call[c]) = call[c]
  BY <1>1 DEF PanelGone
<1>3. ASSUME NEW d \in Calls, ServiceStep(d) \/ PageStep(d) \/ UserStep(d)
      PROVE  detail'.of \in {address', "nothing"}
  <2>1. d = c
    BY <1>1, <1>2, <1>3, OtherSlots
  <2>2. ~UserStep(c)
    BY <1>1 DEF UserStep, Join, OpenPanel, Confirm, ConfirmDelete, Act, Search, RoomAct, Invite
  <2>3. ~ServiceStep(c)
    <3>1. ~Lose(c)
      <4>1. SUFFICES ASSUME Refuse(c)
                     PROVE  FALSE
        BY DEF Lose
      <4>2. PICK q : Become(c, q) /\ (call[c].by = "left" \/ Continues(q, call[c]))
        BY <1>1, <4>1, Refused DEF PagesInv
      <4>3. call'[c] = q
        BY <4>2, Becomes DEF PagesInv
      <4> QED BY <1>1, <4>2, <4>3 DEF Continues
    <3> QED BY <1>1, <3>1
        DEF ServiceStep, ServeGet, ServeMembers, ServeBans, ServeMine, ServeCatalog, Serve,
            ServeInVain
  <2>4. Opened(c)
    BY <1>1, <1>3, <2>1, <2>2, <2>3
    DEF PageStep, OpenFailed, Refreshed, RefreshFailed, Joined, Reread, JoinFailed,
        MembersLoaded, BansLoaded, LoadFailed, ActDone, ActFailed, ConfirmDone, ConfirmFailed,
        Listed, ListsFailed, RoomDone, RoomFailed, RoomDeleted, DeleteFailed, Invited,
        InviteFailed, Answered
  <2>5. detail' = call[c].got /\ address' = address
    BY <2>4 DEF Opened, ShowDetail
  <2> QED BY <1>1, <2>5
<1>4. CASE \/ OthersAct \/ Cancel \/ AskDelete \/ CancelDelete
           \/ \E op \in DialogOps, u \in Users : Ask(op, u)
  BY <1>1, <1>4 DEF OthersAct, Cancel, AskDelete, CancelDelete, Ask
<1>5. CASE ClosePanel
  BY <1>1, <1>2, <1>5 DEF ClosePanel
<1>6. CASE \E page \in RoomIds \union {"list"} : GoTo(page)
  BY <1>6 DEF GoTo, NoDetail
<1> QED BY <1>3, <1>4, <1>5, <1>6 DEF Next

\* RoomChatPage.tsx: the cancelled flag of the effect that opens a page.  Whatever the page
\* and the service have done meanwhile, its answer shows the room in the URL, or nothing.
THEOREM PageOpensItsOwnRoom == Spec => OpensItsOwnRoom
<1>1. PagesInv /\ [Next]_vars =>
        [\A c \in Calls : Answered(c, "open", "ok") /\ call'[c].by # "open" =>
           detail'.of \in {address', "nothing"}]_vars
  BY OwnRoomStep
<1> QED BY <1>1, PagesInvHolds, PTL DEF Spec, OpensItsOwnRoom

----------------------------------------------------------------------------
(***************************************************************************)
(* Presence.                                                               *)
(***************************************************************************)

PresenceInv ==
  /\ PresenceTypeOK
  /\ AwayIsReported
  /\ ViewCurrent

----------------------------------------------------------------------------
(* Facts about pages and entries *)

LEMMA OpenPage ==
  ASSUME PresenceTypeOK, NEW t \in Tabs, Open(t)
  PROVE  tab[t] \in Page
BY DEF PresenceTypeOK, Open

LEMMA PageIsOpen ==
  ASSUME NEW page \in Page
  PROVE  page # Closed
BY DEF Page, Closed

\* A socket that is taken is not connected yet, and nobody listens to it.
LEMMA SocketTaken ==
  ASSUME NEW page \in Page
  PROVE  /\ connectSocket(page) \in Page
         /\ page.socket = "open" => connectSocket(page) = page
         /\ page.socket # "open" => connectSocket(page).socket = "connecting"
         /\ connectSocket(page).view = page.view
BY DEF Page, connectSocket, Hooks

LEMMA Listens ==
  ASSUME NEW page \in Page, NEW hook \in Hooks
  PROVE  /\ Listen(page, hook) \in Page
         /\ Listen(page, hook).socket
              = IF page.socket = "open" THEN "open" ELSE "connecting"
         /\ Listen(page, hook).view = page.view
         /\ page.socket = "open" =>
              /\ Listen(page, hook).hooks = page.hooks \union {hook}
              /\ Listen(page, hook).isAfk = page.isAfk
BY DEF Page, connectSocket, Listen

\* What a set of entries adds up to.
LEMMA Aggregated ==
  ASSUME NEW srv \in [Tabs -> States \union {"none"}], NEW left \in SUBSET States
  PROVE  Entries(srv, left) \in States \union {"none"}
BY DEF Entries, aggregateForUser, States

\* The broadcast brings every page that the gateway can reach up to date.
LEMMA BroadcastKeeps ==
  ASSUME NEW pages \in [Tabs -> Page \union {Closed}],
         NEW srv \in [Tabs -> States \union {"none"}],
         NEW left \in SUBSET States,
         Broadcast(pages, srv, left),
         \A t \in Tabs : pages[t] # Closed /\ pages[t].socket = "open" /\ srv[t] # "none"
                           /\ "activity" \in pages[t].hooks /\ pages[t].isAfk => srv[t] = "afk"
  PROVE  /\ tab' \in [Tabs -> Page \union {Closed}]
         /\ server' = srv /\ ghosts' = left
         /\ AwayIsReported' /\ ViewCurrent'
<1>1. server' = srv /\ ghosts' = left
  BY DEF Broadcast
<1>2. \A t \in Tabs : pages[t] # Closed =>
        [pages[t] EXCEPT !.view = Entries(srv, left)] \in Page
  BY Aggregated DEF Page
<1>3. tab' \in [Tabs -> Page \union {Closed}]
  BY <1>2 DEF Broadcast
<1>4. Shown' = Entries(srv, left)
  BY <1>1 DEF Shown
<1>5. ASSUME NEW t \in Tabs, Connected(t)'
      PROVE  /\ pages[t] \in Page /\ pages[t].socket = "open" /\ srv[t] # "none"
             /\ tab'[t].hooks = pages[t].hooks /\ tab'[t].isAfk = pages[t].isAfk
             /\ "map" \in pages[t].hooks => tab'[t].view = Entries(srv, left)
  <2>1. tab'[t] = IF pages[t] # Closed /\ "map" \in pages[t].hooks
                       /\ pages[t].socket = "open" /\ srv[t] # "none"
                  THEN [pages[t] EXCEPT !.view = Entries(srv, left)] ELSE pages[t]
    BY DEF Broadcast
  <2>2. pages[t] # Closed
    BY <2>1, <1>5 DEF Connected, Open
  <2>3. pages[t] \in Page
    BY <2>2
  <2> QED BY <1>1, <1>5, <2>1, <2>2, <2>3 DEF Connected, Open, Page
<1>6. AwayIsReported'
  BY <1>1, <1>5, PageIsOpen DEF AwayIsReported, Attached
<1>7. ViewCurrent'
  BY <1>4, <1>5 DEF ViewCurrent
<1> QED BY <1>1, <1>3, <1>6, <1>7

\* A page that changes without a broadcast, while the entries stay as they are.
LEMMA PageKeeps ==
  ASSUME PresenceInv, NEW t \in Tabs, NEW page \in Page \union {Closed},
         tab' = [tab EXCEPT ![t] = page], UNCHANGED <<server, ghosts>>,
         page # Closed /\ page.socket = "open" /\ server[t] # "none" =>
           /\ Connected(t)
           /\ "activity" \in page.hooks /\ page.isAfk => Attached(t) /\ tab[t].isAfk
           /\ "map" \in page.hooks => \/ page.view = "unknown"
                                      \/ "map" \in tab[t].hooks /\ page.view = tab[t].view
  PROVE  /\ tab' \in [Tabs -> Page \union {Closed}]
         /\ AwayIsReported' /\ ViewCurrent'
<1>1. tab' \in [Tabs -> Page \union {Closed}] /\ tab'[t] = page
      /\ \A u \in Tabs \ {t} : tab'[u] = tab[u]
  BY DEF PresenceInv, PresenceTypeOK
<1>2. Shown' = Shown
  BY DEF Shown
<1>3. \A u \in Tabs \ {t} : /\ Connected(u)' <=> Connected(u)
                            /\ Attached(u)' <=> Attached(u)
  BY <1>1 DEF Connected, Open, Attached
<1>4. Connected(t)' => page # Closed /\ page.socket = "open" /\ server[t] # "none"
  BY <1>1 DEF Connected, Open
<1>5. AwayIsReported'
  BY <1>1, <1>3, <1>4 DEF PresenceInv, AwayIsReported, Attached
<1>6. ViewCurrent'
  BY <1>1, <1>2, <1>3, <1>4 DEF PresenceInv, ViewCurrent
<1> QED BY <1>1, <1>5, <1>6

\* An entry that is left behind counts as before.
LEMMA LeftEntryCounts ==
  ASSUME PresenceTypeOK, NEW t \in Tabs, LeaveEntry(t)
  PROVE  /\ server' \in [Tabs -> States \union {"none"}] /\ ghosts' \subseteq States
         /\ server'[t] = "none" /\ \A u \in Tabs \ {t} : server'[u] = server[u]
         /\ Shown' = Shown
<1>1. /\ server' = [server EXCEPT ![t] = "none"]
      /\ ghosts' = IF server[t] = "none" THEN ghosts ELSE ghosts \union {server[t]}
  BY DEF LeaveEntry
<1>2. /\ server' \in [Tabs -> States \union {"none"}] /\ ghosts' \subseteq States
      /\ server'[t] = "none" /\ \A u \in Tabs \ {t} : server'[u] = server[u]
  BY <1>1 DEF PresenceTypeOK
<1>3. {server'[x] : x \in {u \in Tabs : server'[u] # "none"}} \union ghosts'
      = {server[x] : x \in {u \in Tabs : server[u] # "none"}} \union ghosts
  <2>1. ASSUME NEW s
        PROVE  s \in {server'[x] : x \in {u \in Tabs : server'[u] # "none"}} \union ghosts'
               <=> s \in {server[x] : x \in {u \in Tabs : server[u] # "none"}} \union ghosts
    BY <1>1, <1>2
  <2> QED BY <2>1
<1>4. Shown' = Shown
  BY <1>3 DEF Shown, Entries
<1> QED BY <1>2, <1>4

\* A page whose socket ends, by its own doing or the network's.
LEMMA SocketEnds ==
  ASSUME PresenceInv, NEW t \in Tabs, LeaveEntry(t), NEW page \in Page \union {Closed},
         tab' = [tab EXCEPT ![t] = page]
  PROVE  /\ tab' \in [Tabs -> Page \union {Closed}]
         /\ server' \in [Tabs -> States \union {"none"}] /\ ghosts' \subseteq States
         /\ AwayIsReported' /\ ViewCurrent'
<1>1. tab' \in [Tabs -> Page \union {Closed}] /\ tab'[t] = page
      /\ \A u \in Tabs \ {t} : tab'[u] = tab[u]
  BY DEF PresenceInv, PresenceTypeOK
<1>2. /\ server' \in [Tabs -> States \union {"none"}] /\ ghosts' \subseteq States
      /\ server'[t] = "none" /\ \A u \in Tabs \ {t} : server'[u] = server[u]
      /\ Shown' = Shown
  BY LeftEntryCounts DEF PresenceInv
<1>3. /\ ~Connected(t)'
      /\ \A u \in Tabs \ {t} : /\ Connected(u)' <=> Connected(u)
                               /\ Attached(u)' <=> Attached(u)
  BY <1>1, <1>2 DEF Connected, Open, Attached
<1>4. AwayIsReported' /\ ViewCurrent'
  BY <1>1, <1>2, <1>3 DEF PresenceInv, AwayIsReported, ViewCurrent
<1> QED BY <1>1, <1>2, <1>4

\* The hook reports the flag it sets, to the gateway or into the buffer.
LEMMA EmitKeeps ==
  ASSUME PresenceInv, NEW t \in Tabs, Open(t), NEW status \in States, NEW flag \in BOOLEAN,
         flag <=> status = "afk", Emit(t, [tab[t] EXCEPT !.isAfk = flag], status)
  PROVE  /\ tab' \in [Tabs -> Page \union {Closed}]
         /\ server' \in [Tabs -> States \union {"none"}] /\ ghosts' \subseteq States
         /\ AwayIsReported' /\ ViewCurrent'
<1>1. PICK page \in Page : page = [tab[t] EXCEPT !.isAfk = flag]
  BY OpenPage DEF PresenceInv, Page
<1>2. /\ page.socket = tab[t].socket /\ page.hooks = tab[t].hooks /\ page.view = tab[t].view
      /\ page.isAfk = flag
  BY <1>1, OpenPage DEF PresenceInv, Page
<1>3. CASE Connected(t)
  <2> DEFINE pages == [tab EXCEPT ![t] = page]
             srv == [server EXCEPT ![t] = status]
  <2>1. Broadcast(pages, srv, ghosts)
    BY <1>1, <1>3 DEF Emit
  <2>2. /\ pages \in [Tabs -> Page \union {Closed}] /\ srv \in [Tabs -> States \union {"none"}]
        /\ ghosts \in SUBSET States
    BY DEF PresenceInv, PresenceTypeOK
  <2>3. \A u \in Tabs : pages[u] # Closed /\ pages[u].socket = "open" /\ srv[u] # "none"
                          /\ "activity" \in pages[u].hooks /\ pages[u].isAfk => srv[u] = "afk"
    BY <1>2 DEF PresenceInv, PresenceTypeOK, AwayIsReported, Connected, Open, Attached
  <2> HIDE DEF pages, srv
  <2> QED BY <2>1, <2>2, <2>3, BroadcastKeeps
<1>4. CASE ~Connected(t)
  <2> DEFINE after == IF page.socket = "open" THEN page ELSE [page EXCEPT !.buffer = status]
  <2>1. tab' = [tab EXCEPT ![t] = after] /\ server' = server /\ ghosts' = ghosts
    BY <1>1, <1>4 DEF Emit
  <2>2. after \in Page /\ after.socket = page.socket
    BY DEF Page
  <2>3. ~(after.socket = "open" /\ server[t] # "none")
    BY <1>2, <1>4, <2>2 DEF Connected
  <2> HIDE DEF after
  <2> QED BY <2>1, <2>2, <2>3, PageKeeps DEF PresenceInv, PresenceTypeOK
<1> QED BY <1>3, <1>4

\* applyGlobalActivity, of a key pressed here or elsewhere.
LEMMA ActivityKeeps ==
  ASSUME PresenceInv, NEW t \in Tabs, Open(t), applyGlobalActivity(t)
  PROVE  /\ tab' \in [Tabs -> Page \union {Closed}]
         /\ server' \in [Tabs -> States \union {"none"}] /\ ghosts' \subseteq States
         /\ AwayIsReported' /\ ViewCurrent'
<1>1. CASE Emit(t, [tab[t] EXCEPT !.isAfk = FALSE], "online")
  BY <1>1, EmitKeeps DEF States
<1>2. CASE UNCHANGED <<tab, server, ghosts>>
  BY <1>2 DEF PresenceInv, PresenceTypeOK, AwayIsReported, ViewCurrent, Connected, Open, Attached, Shown
<1> QED BY <1>1, <1>2 DEF applyGlobalActivity

----------------------------------------------------------------------------
(* The user's steps *)

LEMMA MountShellKeeps ==
  ASSUME PresenceInv, NEW t \in Tabs, MountShell(t)
  PROVE  PresenceInv'
<1> DEFINE fresh == [socket |-> "none", hooks |-> {}, buffer |-> "empty", isAfk |-> FALSE,
                     view |-> "unknown"]
<1>1. PICK chat \in BOOLEAN :
        tab' = [tab EXCEPT ![t] =
          Listen(Listen(IF chat THEN Listen(fresh, "map") ELSE fresh, "unread"), "activity")]
  BY DEF MountShell
<1>2. {"map", "unread", "activity"} \subseteq Hooks
  BY DEF Hooks
<1>3. PICK page : page = IF chat THEN Listen(fresh, "map") ELSE fresh
  OBVIOUS
<1>4. fresh \in Page
  BY DEF Page
<1> HIDE DEF fresh
<1>5. page \in Page /\ page.socket # "open"
  <2>1. fresh.socket = "none"
    BY DEF fresh
  <2> QED BY <1>2, <1>3, <1>4, <2>1, Listens
<1>6. PICK second : second = Listen(page, "unread")
  OBVIOUS
<1>7. second \in Page /\ second.socket = "connecting"
  BY <1>2, <1>5, <1>6, Listens
<1>8. PICK third : third = Listen(second, "activity")
  OBVIOUS
<1>9. third \in Page /\ third.socket = "connecting"
  BY <1>2, <1>7, <1>8, Listens
<1>10. tab' = [tab EXCEPT ![t] = third] /\ UNCHANGED <<server, ghosts, notice, valid>>
  BY <1>1, <1>3, <1>6, <1>8 DEF MountShell
<1> QED BY <1>9, <1>10, PageKeeps DEF PresenceInv, PresenceTypeOK

LEMMA OpenChatKeeps ==
  ASSUME PresenceInv, NEW t \in Tabs, OpenChat(t)
  PROVE  PresenceInv'
<1>1. /\ Open(t) /\ tab[t] \in Page
      /\ tab' = [tab EXCEPT ![t] = [Listen(tab[t], "map") EXCEPT !.view = "unknown"]]
      /\ UNCHANGED <<server, ghosts, notice, valid>>
  BY OpenPage DEF OpenChat, PresenceInv, PresenceTypeOK
<1>2. PICK page : page = Listen(tab[t], "map")
  OBVIOUS
<1>3. /\ page \in Page
      /\ page.socket = "open" =>
           /\ tab[t].socket = "open" /\ page.hooks = tab[t].hooks \union {"map"}
           /\ page.isAfk = tab[t].isAfk
  BY <1>1, <1>2, Listens DEF Hooks
<1>4. PICK after : after = [page EXCEPT !.view = "unknown"]
  OBVIOUS
<1>5. /\ after \in Page /\ after.view = "unknown" /\ after.socket = page.socket
      /\ after.hooks = page.hooks /\ after.isAfk = page.isAfk
  BY <1>3, <1>4 DEF Page
<1>6. tab' = [tab EXCEPT ![t] = after]
  BY <1>1, <1>2, <1>4
<1>7. after.socket = "open" /\ server[t] # "none" =>
        /\ Connected(t)
        /\ "activity" \in after.hooks /\ after.isAfk => Attached(t) /\ tab[t].isAfk
  BY <1>1, <1>3, <1>5 DEF Connected, Attached
<1> QED BY <1>1, <1>5, <1>6, <1>7, PageKeeps DEF PresenceInv, PresenceTypeOK

LEMMA LeaveChatKeeps ==
  ASSUME PresenceInv, NEW t \in Tabs, LeaveChat(t)
  PROVE  PresenceInv'
<1>1. PICK page \in Page : page = tab[t]
  BY OpenPage DEF LeaveChat, PresenceInv
<1>2. PICK after : after = [page EXCEPT !.hooks = @ \ {"map"}, !.view = "unknown"]
  OBVIOUS
<1>3. /\ after \in Page /\ after.view = "unknown" /\ after.socket = page.socket
      /\ after.hooks = page.hooks \ {"map"} /\ after.isAfk = page.isAfk
  BY <1>1, <1>2 DEF Page, Hooks
<1>4. /\ Open(t) /\ tab' = [tab EXCEPT ![t] = after]
      /\ UNCHANGED <<server, ghosts, notice, valid>>
  BY <1>1, <1>2 DEF LeaveChat, PresenceInv, PresenceTypeOK
<1> QED BY <1>1, <1>3, <1>4, PageKeeps DEF PresenceInv, PresenceTypeOK, Connected, Attached

LEMMA SendKeeps ==
  ASSUME PresenceInv, NEW t \in Tabs, Send(t) \/ OpenConversation(t)
  PROVE  PresenceInv'
<1>1. /\ Open(t) /\ tab[t] \in Page
      /\ tab' = [tab EXCEPT ![t] = connectSocket(tab[t])]
      /\ UNCHANGED <<server, ghosts, notice, valid>>
  BY OpenPage DEF Send, OpenConversation, PresenceInv, PresenceTypeOK
<1>2. PICK page : page = connectSocket(tab[t])
  OBVIOUS
<1>3. page \in Page /\ (page.socket = "open" => page = tab[t])
  BY <1>1, <1>2, SocketTaken
<1> QED BY <1>1, <1>2, <1>3, PageKeeps DEF PresenceInv, PresenceTypeOK, Connected, Attached

LEMMA ChangeAvatarKeeps ==
  ASSUME PresenceInv, NEW t \in Tabs, ChangeAvatar(t)
  PROVE  PresenceInv'
<1>1. PICK page \in Page : page = tab[t]
  BY OpenPage DEF ChangeAvatar, PresenceInv
<1>2. PICK after \in Page : after = [page EXCEPT !.socket = "none", !.hooks = {},
                                             !.buffer = "empty", !.isAfk = FALSE]
  BY <1>1 DEF Page
<1>3. /\ LeaveEntry(t) /\ tab' = [tab EXCEPT ![t] = after] /\ UNCHANGED <<notice, valid>>
  BY <1>1, <1>2 DEF ChangeAvatar, PresenceInv, PresenceTypeOK
<1> QED BY <1>3, SocketEnds DEF PresenceInv, PresenceTypeOK

LEMMA LeaveKeeps ==
  ASSUME PresenceInv, NEW t \in Tabs, Leave(t)
  PROVE  PresenceInv'
<1>1. /\ LeaveEntry(t) /\ tab' = [tab EXCEPT ![t] = Closed]
      /\ notice' \in [Tabs -> BOOLEAN] /\ valid' = valid
  BY DEF Leave, PresenceInv, PresenceTypeOK
<1> QED BY <1>1, SocketEnds DEF PresenceInv, PresenceTypeOK

LEMMA ActKeeps ==
  ASSUME PresenceInv, NEW t \in Tabs, bumpLocalActivity(t) \/ ReceiveNotice(t)
  PROVE  PresenceInv'
<1>1. /\ Open(t) /\ applyGlobalActivity(t)
      /\ notice' \in [Tabs -> BOOLEAN] /\ valid' = valid
  BY DEF bumpLocalActivity, ReceiveNotice, NotifyOthers, PresenceInv, PresenceTypeOK
<1> QED BY <1>1, ActivityKeeps DEF PresenceInv, PresenceTypeOK

----------------------------------------------------------------------------
(* The steps of the timers, the sockets and the gateway *)

LEMMA GoIdleKeeps ==
  ASSUME PresenceInv, NEW t \in Tabs, GoIdle(t)
  PROVE  PresenceInv'
<1>1. /\ Open(t) /\ Emit(t, [tab[t] EXCEPT !.isAfk = TRUE], "afk")
      /\ UNCHANGED <<notice, valid>>
  BY DEF GoIdle
<1> QED BY <1>1, EmitKeeps DEF PresenceInv, PresenceTypeOK, States

LEMMA ConnectKeeps ==
  ASSUME PresenceInv, NEW t \in Tabs, Connect(t)
  PROVE  PresenceInv'
<1>1. PICK page \in Page : page = tab[t]
  BY OpenPage DEF Connect, PresenceInv
<1>2. PICK after \in Page : after = [OnConnect(page) EXCEPT !.socket = "open", !.buffer = "empty"]
  BY <1>1 DEF Page, OnConnect
<1>3. "activity" \in after.hooks => ~after.isAfk
  BY <1>1, <1>2 DEF OnConnect, Page
<1> DEFINE status == IF page.buffer = "empty" THEN "online" ELSE page.buffer
           pages == [tab EXCEPT ![t] = after]
           srv == [server EXCEPT ![t] = status]
<1>4. Broadcast(pages, srv, ghosts)
  BY <1>1, <1>2 DEF Connect, PresenceInv, PresenceTypeOK
<1>5. status \in States
  BY <1>1 DEF Page, States
<1>6. /\ pages \in [Tabs -> Page \union {Closed}] /\ srv \in [Tabs -> States \union {"none"}]
      /\ ghosts \in SUBSET States
  BY <1>5 DEF PresenceInv, PresenceTypeOK
<1>7. \A u \in Tabs : pages[u] # Closed /\ pages[u].socket = "open" /\ srv[u] # "none"
                        /\ "activity" \in pages[u].hooks /\ pages[u].isAfk => srv[u] = "afk"
  BY <1>3 DEF PresenceInv, PresenceTypeOK, AwayIsReported, Connected, Open, Attached
<1>8. notice' \in [Tabs -> BOOLEAN] /\ valid' = valid
  BY DEF Connect, NotifyOthers, PresenceInv, PresenceTypeOK
<1> HIDE DEF pages, srv, status
<1> QED BY <1>4, <1>6, <1>7, <1>8, BroadcastKeeps DEF PresenceInv, PresenceTypeOK

LEMMA RefuseKeeps ==
  ASSUME PresenceInv, NEW t \in Tabs, RefuseConnection(t)
  PROVE  PresenceInv'
<1>1. PICK page \in Page : page = tab[t]
  BY OpenPage DEF RefuseConnection, PresenceInv
<1>2. PICK after \in Page :
        after = [OnConnect(page) EXCEPT !.socket = "refused", !.buffer = "empty"]
  BY <1>1 DEF Page, OnConnect
<1>3. after.socket = "refused"
  BY <1>1, <1>2 DEF OnConnect, Page
<1>4. /\ tab' = [tab EXCEPT ![t] = after] /\ UNCHANGED <<server, ghosts>>
      /\ notice' \in [Tabs -> BOOLEAN] /\ valid' = valid
  BY <1>1, <1>2 DEF RefuseConnection, NotifyOthers, PresenceInv, PresenceTypeOK
<1> QED BY <1>3, <1>4, PageKeeps DEF PresenceInv, PresenceTypeOK

LEMMA DropKeeps ==
  ASSUME PresenceInv, NEW t \in Tabs, Drop(t)
  PROVE  PresenceInv'
<1>1. PICK page \in Page : page = tab[t]
  BY OpenPage DEF Drop, PresenceInv
<1>2. PICK after \in Page : after = [page EXCEPT !.socket = "connecting"]
  BY <1>1 DEF Page
<1>3. /\ LeaveEntry(t) /\ tab' = [tab EXCEPT ![t] = after] /\ UNCHANGED <<notice, valid>>
  BY <1>1, <1>2 DEF Drop, PresenceInv, PresenceTypeOK
<1> QED BY <1>3, SocketEnds DEF PresenceInv, PresenceTypeOK

LEMMA NoticeDropKeeps ==
  ASSUME PresenceInv, NEW t \in Tabs, NoticeDrop(t)
  PROVE  PresenceInv'
<1>1. PICK page \in Page : page = tab[t]
  BY OpenPage DEF NoticeDrop, PresenceInv
<1>2. PICK after \in Page : after = [page EXCEPT !.socket = "connecting"]
  BY <1>1 DEF Page
<1>3. after.socket = "connecting"
  BY <1>1, <1>2 DEF Page
<1>4. /\ tab' = [tab EXCEPT ![t] = after] /\ UNCHANGED <<server, ghosts, notice, valid>>
  BY <1>1, <1>2 DEF NoticeDrop, PresenceInv, PresenceTypeOK
<1> QED BY <1>3, <1>4, PageKeeps DEF PresenceInv, PresenceTypeOK

LEMMA DisconnectKeeps ==
  ASSUME PresenceInv, DropGhost \/ \E t \in Tabs : handleDisconnect(t)
  PROVE  PresenceInv'
<1>1. PICK srv \in [Tabs -> States \union {"none"}], left \in SUBSET States :
        /\ Broadcast(tab, srv, left) /\ UNCHANGED <<notice, valid>>
        /\ \A t \in Tabs : srv[t] \in {server[t], "none"}
  <2>1. CASE DropGhost
    <3>1. PICK s \in ghosts : Broadcast(tab, server, ghosts \ {s}) /\ UNCHANGED <<notice, valid>>
      BY <2>1 DEF DropGhost
    <3> QED BY <3>1 DEF PresenceInv, PresenceTypeOK
  <2>2. CASE \E t \in Tabs : handleDisconnect(t)
    <3>1. PICK t \in Tabs : /\ Broadcast(tab, [server EXCEPT ![t] = "none"], ghosts)
                            /\ UNCHANGED <<notice, valid>>
      BY <2>2 DEF handleDisconnect
    <3>2. /\ [server EXCEPT ![t] = "none"] \in [Tabs -> States \union {"none"}]
          /\ \A u \in Tabs : [server EXCEPT ![t] = "none"][u] \in {server[u], "none"}
          /\ ghosts \in SUBSET States
      BY DEF PresenceInv, PresenceTypeOK
    <3> QED BY <3>1, <3>2
  <2> QED BY <2>1, <2>2
<1>2. tab \in [Tabs -> Page \union {Closed}]
  BY DEF PresenceInv, PresenceTypeOK
<1>3. \A t \in Tabs : tab[t] # Closed /\ tab[t].socket = "open" /\ srv[t] # "none"
                        /\ "activity" \in tab[t].hooks /\ tab[t].isAfk => srv[t] = "afk"
  BY <1>1 DEF PresenceInv, AwayIsReported, Connected, Open, Attached
<1> QED BY <1>1, <1>2, <1>3, BroadcastKeeps DEF PresenceInv, PresenceTypeOK

LEMMA RestartKeeps ==
  ASSUME PresenceInv, Restart
  PROVE  PresenceInv'
BY DEF Restart, PresenceInv, PresenceTypeOK, AwayIsReported, ViewCurrent, Connected, Open

----------------------------------------------------------------------------
LEMMA PresenceInvInit == PresenceInit => PresenceInv
BY DEF PresenceInit, PresenceInv, PresenceTypeOK, AwayIsReported, ViewCurrent, Connected, Open

LEMMA PresenceInvStep == PresenceInv /\ [PresenceNext]_presenceVars => PresenceInv'
<1> SUFFICES ASSUME PresenceInv, [PresenceNext]_presenceVars PROVE PresenceInv'
  OBVIOUS
<1>1. ASSUME NEW t \in Tabs, User(t) PROVE PresenceInv'
  BY <1>1, MountShellKeeps, OpenChatKeeps, LeaveChatKeeps, SendKeeps, ChangeAvatarKeeps,
     LeaveKeeps, ActKeeps DEF User
<1>2. CASE System
  BY <1>2, DisconnectKeeps, ActKeeps, GoIdleKeeps, ConnectKeeps, RefuseKeeps, NoticeDropKeeps
     DEF System
<1>3. CASE Expire \/ SignInAgain \/ UNCHANGED presenceVars
  BY <1>3 DEF Expire, SignInAgain, presenceVars, PresenceInv, PresenceTypeOK, AwayIsReported, ViewCurrent,
     Connected, Open, Attached, Shown
<1>4. CASE Failure
  BY <1>3, <1>4, RestartKeeps, DropKeeps, DisconnectKeeps DEF Failure
<1> QED BY <1>1, <1>2, <1>3, <1>4 DEF PresenceNext

LEMMA PresenceInvHolds == PresenceSpec => []PresenceInv
BY PresenceInvInit, PresenceInvStep, PTL DEF PresenceSpec

\* The type invariant.
THEOREM PresenceTypeCorrect == PresenceSpec => []PresenceTypeOK
<1>1. PresenceInv => PresenceTypeOK
  BY DEF PresenceInv
<1> QED BY <1>1, PresenceInvHolds, PTL

\* A tab whose activity hook holds the user to be away, on a socket that both ends have
\* open, has the entry `afk` at the gateway: neither a buffered report, a reconnection nor a
\* restart parts the two.
THEOREM AwayReachesTheGateway == PresenceSpec => []AwayIsReported
<1>1. PresenceInv => AwayIsReported
  BY DEF PresenceInv
<1> QED BY <1>1, PresenceInvHolds, PTL

\* The presence that a connected chat page shows, once it has been told one, is what the
\* gateway's entries of all the user's sockets add up to, those of dead sockets included.
THEOREM ConnectedPagesAreCurrent == PresenceSpec => []ViewCurrent
<1>1. PresenceInv => ViewCurrent
  BY DEF PresenceInv
<1> QED BY <1>1, PresenceInvHolds, PTL
=============================================================================
