----------------------------- MODULE Conversation -----------------------------
(***************************************************************************)
(* One conversation open in one tab: the list of messages it shows, with   *)
(* pages of history fetched on demand, and the composer below it.          *)
(* ActiveRoomChat.tsx and ActiveChat.tsx (the same code for a room and for *)
(* a friend), ChatThread.tsx, MessageComposer.tsx, chatMessages.ts and     *)
(* emitWithAck.  Answers over HTTP are ordered neither with each other nor *)
(* with the socket's packets, which are ordered among themselves.          *)
(*                                                                         *)
(* The server is that of RoomThread and DirectMessages; here it stores a   *)
(* message and sends its events in one step.                               *)
(***************************************************************************)
EXTENDS FiniteSets, Naturals, Sequences, SequencesExt

CONSTANTS
  MaxMessages,  \* bounds the messages; their ids are numbers in order of creation
  History,      \* the messages there are when the conversation is opened, the user's own
  PageSize,     \* clampMessageLimit
  MaxFiles,     \* bounds the files that the user attaches
  MaxWire,      \* bounds the packets on their way to the tab
  Requests      \* slots for requests in flight (bounds concurrency)

ASSUME HistoryAssumption == History \in Nat /\ MaxMessages \in Nat /\ History <= MaxMessages
ASSUME PageAssumption == PageSize \in Nat \ {0}
ASSUME BoundsAssumption == MaxFiles \in Nat /\ MaxWire \in Nat
ASSUME SlotsAssumption == "all" \notin Requests  \* as the addressee of a packet

VARIABLES
  row,        \* row[i]: the message of id i: "none", "mine", "theirs" or "deleted"
  conn,       \* the socket is connected
  wire,       \* the packets on their way to the tab, in order
  late,       \* sends on their way to the server for which nobody waits any more
  live,       \* history: the socket has been the same since the conversation was opened
  direct,     \* the conversation is with a friend, and not of a room
  channel,    \* what its events are sent to: "asked" (the server has yet to let the socket
              \* join), "in" or "out"
  listening,  \* the conversation's listeners are on the socket
  view,       \* the messages shown, in order
  phase,      \* of the first page: "loading", "loaded" or "failed" (loadError)
  hasMore, loadingOlder, uploading, editSaving,  \* as in the component
  editing,    \* editingMessage, 0 when null
  text,       \* the draft: Empty, New, or the id of the message whose edit it is
  file,       \* a file is attached (pendingFile)
  req,        \* req[q]: the request in slot q, or Idle
  attached,   \* history: how many files have been attached
  stored,     \* history: how many uploads have been stored
  paged,      \* history: the last message when the first page was read, or a file stored first
  unheard     \* history: the last message when the channel was joined

server == <<row, late, stored, paged>>
link == <<conn, live, listening, direct, channel, unheard>>
socket == <<link, wire>>
thread == <<view, phase, hasMore, loadingOlder>>
composer == <<uploading, editSaving, editing, text, file, attached>>
vars == <<server, socket, thread, composer, req>>

----------------------------------------------------------------------------
Ids == 1..MaxMessages
Empty == 0
New == MaxMessages + 1

Present(i) == row[i] \in {"mine", "theirs"}
PresentIds == {i \in Ids : Present(i)}

\* The next id, as a set: empty when the bound is reached.
NextId == {i \in Ids : row[i] = "none" /\ \A j \in 1..(i - 1) : row[j] # "none"}

\* asked: on its way to the server.  done, failed: the answer is on its way back.  A send:
\* connecting, the socket is not there yet; answered, its acknowledgement is on the wire;
\* stranded, only its timer will end it.
Stages == {"connecting", "asked", "done", "failed", "answered", "stranded"}
Ops == {"latest", "older", "upload", "edit", "delete", "send"}
Request == [op : Ops, stage : Stages, id : 0..MaxMessages, text : 0..New,
            page : SUBSET Ids, more : BOOLEAN]
Idle == [op |-> "idle", stage |-> "idle"]
Ask(op, id) == [op |-> op, stage |-> "asked", id |-> id, text |-> Empty, page |-> {},
                more |-> FALSE]

Packet == [kind : {"message", "deleted", "ack"}, id : 0..MaxMessages,
           to : Requests \union {"all"}]

Busy(q) == req[q] # Idle
Waiting(op) == \E q \in Requests : req[q].op = op
At(q, op, stage) == req[q].op = op /\ req[q].stage = stage
Begin(q, request) == ~Busy(q) /\ req' = [req EXCEPT ![q] = request]
Finish(q) == req' = [req EXCEPT ![q] = Idle]
Become(q, stage) == req' = [req EXCEPT ![q].stage = stage]

----------------------------------------------------------------------------
\* sortMessagesChronologically
Ascending(S) ==
  CHOOSE s \in [1..Cardinality(S) -> S] :
    \A m, n \in 1..Cardinality(S) : m < n => s[m] < s[n]

\* mergeLatestPageWithExisting, appendIncomingMessage
Merge(shown, page) == Ascending(ToSet(shown) \union page)
Append1(shown, i) == IF i \in ToSet(shown) THEN shown ELSE Merge(shown, {i})

\* (mutant: what is shown already is not left out)
MergeOlderAll(shown, page) == Ascending(page) \o shown

\* mergeOlderMessages: in front, and not sorted with what is there.
mergeOlder(shown, page) == Ascending(page \ ToSet(shown)) \o shown

\* What s holds at the positions in S, in order.
Keep(s, S) == LET order == Ascending(S) IN [n \in 1..Cardinality(S) |-> s[order[n]]]

Without(shown, i) == Keep(shown, {n \in DOMAIN shown : shown[n] # i})

\* The last PageSize of S.
LastOf(S) == {i \in S : Cardinality({j \in S : j > i}) < PageSize}

\* (mutant: no row is read beyond the page, so that there never seem to be more)
PageWithoutExtra(q, S) ==
  req' = [req EXCEPT ![q].stage = "done", ![q].page = LastOf(S), ![q].more = FALSE]

\* The page and hasMore, of the messages in S.
ReadPage(q, S) ==
  req' = [req EXCEPT ![q].stage = "done", ![q].page = LastOf(S),
                     ![q].more = Cardinality(S) > PageSize]

\* The messages that there are now are 1 to n.
Now(n) == \A i \in Ids : row[i] # "none" <=> i <= n
Lower(m, n) == IF m < n THEN m ELSE n

\* An event goes to the sockets on the channel.
Event(kind, i) == [kind |-> kind, id |-> i, to |-> "all"]
Told(kind, i) == IF channel = "in" THEN <<Event(kind, i)>> ELSE <<>>

\* Packets go out to the tab, while it is connected.
Send(packets) ==
  /\ ~conn \/ Len(wire) + Len(packets) <= MaxWire
  /\ wire' = IF conn THEN wire \o packets ELSE wire

----------------------------------------------------------------------------
\* Someone else, or the user elsewhere, posts a message; somebody deletes one.
Post ==
  /\ \E i \in NextId :
       /\ row' = [row EXCEPT ![i] = "theirs"]
       /\ Send(Told("message", i))
  /\ UNCHANGED <<late, stored, paged, link, thread, composer, req>>

Withdraw(i) ==
  /\ Present(i)
  /\ row' = [row EXCEPT ![i] = "deleted"]
  /\ Send(Told("deleted", i))
  /\ UNCHANGED <<late, stored, paged, link, thread, composer, req>>

ServeLatest(q) ==
  /\ At(q, "latest", "asked")
  /\ ReadPage(q, PresentIds)
  /\ \E n \in 0..MaxMessages : Now(n) /\ paged' = Lower(paged, n)
  /\ UNCHANGED <<row, late, stored, socket, thread, composer>>

\* A page before `id`, which must not be deleted ("Invalid before cursor").
ServeOlder(q) ==
  /\ At(q, "older", "asked")
  /\ IF Present(req[q].id) THEN ReadPage(q, {i \in PresentIds : i < req[q].id})
     ELSE Become(q, "failed")
  /\ UNCHANGED <<server, socket, thread, composer>>

\* The file is stored and its message sent to everyone before the answer; or refused.
ServeUpload(q) ==
  /\ At(q, "upload", "asked")
  /\ \E i \in NextId :
       /\ row' = [row EXCEPT ![i] = "mine"]
       /\ Send(Told("message", i))
       /\ req' = [req EXCEPT ![q].stage = "done", ![q].id = i]
       /\ paged' = Lower(paged, i)
  /\ stored' = stored + 1
  /\ UNCHANGED <<late, link, thread, composer>>

\* updateMessage, of one's own message that is not deleted.  (No text is shown here, so
\* its event changes nothing.)
ServeEdit(q) ==
  /\ At(q, "edit", "asked")
  /\ Become(q, IF row[req[q].id] = "mine" THEN "done" ELSE "failed")
  /\ UNCHANGED <<server, socket, thread, composer>>

ServeDelete(q) ==
  /\ At(q, "delete", "asked")
  /\ IF row[req[q].id] = "mine"
     THEN /\ row' = [row EXCEPT ![req[q].id] = "deleted"]
          /\ Send(Told("deleted", req[q].id))
          /\ Become(q, "done")
     ELSE Become(q, "failed") /\ UNCHANGED <<row, wire>>
  /\ UNCHANGED <<late, stored, paged, link, thread, composer>>

\* (mutant: the acknowledgement goes out first)
AckFirst(q) ==
  /\ At(q, "send", "asked") /\ conn
  /\ \E i \in NextId :
       /\ row' = [row EXCEPT ![i] = "mine"]
       /\ Send(<<[kind |-> "ack", id |-> i, to |-> q]>> \o Told("message", i))
  /\ Become(q, "answered")
  /\ UNCHANGED <<late, stored, paged, link, thread, composer>>

\* handleRoomSend, handleChatSend: the message goes out to everyone, the sender included,
\* and then the acknowledgement.
ServeSend(q) ==
  /\ At(q, "send", "asked") /\ conn
  /\ \E i \in NextId :
       /\ row' = [row EXCEPT ![i] = "mine"]
       /\ Send(Told("message", i) \o <<[kind |-> "ack", id |-> i, to |-> q]>>)
  /\ Become(q, "answered")
  /\ UNCHANGED <<late, stored, paged, link, thread, composer>>

\* The error goes back in the acknowledgement.
RefuseSend(q) ==
  /\ At(q, "send", "asked") /\ conn
  /\ Send(<<[kind |-> "ack", id |-> 0, to |-> q]>>)
  /\ Become(q, "answered")
  /\ UNCHANGED <<server, link, thread, composer>>

\* A send arrives that the tab has given up.
ServeLate ==
  /\ late > 0 /\ late' = late - 1
  /\ \E i \in NextId :
       /\ row' = [row EXCEPT ![i] = "mine"]
       /\ Send(Told("message", i))
  /\ UNCHANGED <<stored, paged, link, thread, composer, req>>

\* An HTTP request is refused, or fails before or after it is served.
Fail(q) ==
  /\ req[q].op \in Ops \ {"send"} /\ req[q].stage \in {"asked", "done"}
  /\ Become(q, "failed")
  /\ UNCHANGED <<server, socket, thread, composer>>

\* The user's own channel is joined once the token of the socket has been verified, a room's
\* once the membership has; or the room's is not.
JoinChannel ==
  /\ conn /\ channel = "asked" /\ channel' = "in"
  /\ \E n \in 0..MaxMessages : Now(n) /\ unheard' = Lower(unheard, n)
  /\ UNCHANGED <<server, conn, wire, live, listening, direct, thread, composer, req>>

RefuseJoin ==
  /\ conn /\ ~direct /\ channel = "asked" /\ channel' = "out"
  /\ UNCHANGED <<server, conn, wire, live, listening, direct, unheard, thread, composer, req>>

\* Of a new connection: the own channel is joined as before, a room's is not asked for again.
Left == IF direct THEN "asked" ELSE "out"

\* The connection is lost with the packets on it.
Drop ==
  /\ conn /\ conn' = FALSE
  /\ live' = FALSE /\ wire' = <<>> /\ late' = 0 /\ channel' = Left
  /\ req' = [q \in Requests |->
       IF req[q].op = "send" THEN [req[q] EXCEPT !.stage = "stranded"] ELSE req[q]]
  /\ UNCHANGED <<row, stored, paged, listening, direct, unheard, thread, composer>>

\* The client connects, or does so again; sends that have waited for it go out.
Reconnect ==
  /\ ~conn /\ conn' = TRUE
  /\ req' = [q \in Requests |->
       IF At(q, "send", "connecting") THEN [req[q] EXCEPT !.stage = "asked"] ELSE req[q]]
  /\ UNCHANGED <<server, wire, live, listening, direct, channel, unheard, thread, composer>>

----------------------------------------------------------------------------
\* The first page, or loadError.
ShowLatest(q) ==
  /\ At(q, "latest", "done")
  /\ view' = Merge(view, req[q].page) /\ hasMore' = req[q].more /\ phase' = "loaded"
  /\ Finish(q)
  /\ UNCHANGED <<server, socket, loadingOlder, composer>>

LatestFailed(q) ==
  /\ At(q, "latest", "failed")
  /\ phase' = "failed"
  /\ Finish(q)
  /\ UNCHANGED <<server, socket, view, hasMore, loadingOlder, composer>>

\* loadOlderMessages
LoadOlder(q) ==
  /\ hasMore /\ ~loadingOlder /\ view # <<>>
  /\ Begin(q, Ask("older", Head(view)))
  /\ loadingOlder' = TRUE
  /\ UNCHANGED <<server, socket, view, phase, hasMore, composer>>

ShowOlder(q) ==
  /\ At(q, "older", "done")
  /\ view' = mergeOlder(view, req[q].page) /\ hasMore' = req[q].more
  /\ loadingOlder' = FALSE
  /\ Finish(q)
  /\ UNCHANGED <<server, socket, phase, composer>>

OlderFailed(q) ==
  /\ At(q, "older", "failed")
  /\ loadingOlder' = FALSE
  /\ Finish(q)
  /\ UNCHANGED <<server, socket, view, phase, hasMore, composer>>

----------------------------------------------------------------------------
\* What the user does: types; clicks Edit on a message, which replaces the draft; cancels;
\* clicks Reply, which ends an edit and leaves its text; attaches a file.
Type ==
  /\ text = Empty
  /\ text' = IF editing # 0 THEN editing ELSE New
  /\ UNCHANGED <<server, socket, thread, uploading, editSaving, editing, file, attached, req>>

\* (mutant: the effect does not run when one edit follows another)
StartEditKeepingText(i) ==
  /\ phase # "failed" /\ i \in ToSet(view) /\ row[i] # "theirs" /\ i # editing
  /\ editing' = i /\ text' = IF editing = 0 THEN i ELSE text
  /\ file' = FALSE
  /\ UNCHANGED <<server, socket, thread, uploading, editSaving, attached, req>>

StartEdit(i) ==
  /\ phase # "failed" /\ i \in ToSet(view) /\ row[i] # "theirs" /\ i # editing
  /\ editing' = i /\ text' = i
  /\ file' = FALSE
  /\ UNCHANGED <<server, socket, thread, uploading, editSaving, attached, req>>

CancelEdit ==
  /\ editing # 0
  /\ editing' = 0 /\ text' = Empty
  /\ UNCHANGED <<server, socket, thread, uploading, editSaving, file, attached, req>>

Reply ==
  /\ phase # "failed" /\ view # <<>> /\ editing # 0
  /\ editing' = 0
  /\ UNCHANGED <<server, socket, thread, uploading, editSaving, text, file, attached, req>>

\* The composer of a room is disabled when the first page has failed.
Enabled == (direct \/ phase # "failed") /\ ~uploading /\ ~editSaving

AttachFile ==
  /\ Enabled /\ editing = 0 /\ ~file /\ attached < MaxFiles
  /\ file' = TRUE /\ attached' = attached + 1
  /\ UNCHANGED <<server, socket, thread, uploading, editSaving, editing, text, req>>

\* submit, by its three cases.
SubmitEdit(q) ==
  /\ Enabled /\ editing # 0 /\ text # Empty
  /\ Begin(q, [Ask("edit", editing) EXCEPT !.text = text])
  /\ editSaving' = TRUE
  /\ UNCHANGED <<server, socket, thread, uploading, editing, text, file, attached>>

SubmitFile(q) ==
  /\ Enabled /\ editing = 0 /\ file
  /\ Begin(q, Ask("upload", 0))
  /\ uploading' = TRUE
  /\ UNCHANGED <<server, socket, thread, editSaving, editing, text, file, attached>>

\* emitWithAck: on the socket there is, if it is connected; if not, connectSocket replaces
\* it, with all its listeners, the conversation's and those of a send that is waiting.
SubmitText(q) ==
  /\ Enabled /\ editing = 0 /\ ~file /\ text # Empty
  /\ ~Busy(q)
  /\ IF conn
     THEN /\ req' = [req EXCEPT ![q] = [Ask("send", 0) EXCEPT !.text = text]]
          /\ UNCHANGED <<live, listening, channel>>
     ELSE /\ req' = [p \in Requests |->
               CASE p = q -> [Ask("send", 0) EXCEPT !.text = text, !.stage = "connecting"]
                 [] p # q /\ At(p, "send", "connecting") -> [req[p] EXCEPT !.stage = "stranded"]
                 [] OTHER -> req[p]]
          /\ live' = FALSE /\ listening' = FALSE /\ channel' = Left
  /\ UNCHANGED <<server, conn, wire, direct, unheard, thread, composer>>

\* The confirmed deletion of a message; one at a time (deleteBusy).
SubmitDelete(q, i) ==
  /\ phase # "failed" /\ i \in ToSet(view) /\ row[i] # "theirs" /\ ~Waiting("delete")
  /\ Begin(q, Ask("delete", i))
  /\ UNCHANGED <<server, socket, thread, composer>>

----------------------------------------------------------------------------
\* saveEditedMessage
EditSaved(q) ==
  /\ At(q, "edit", "done")
  /\ editing' = 0 /\ editSaving' = FALSE /\ text' = Empty
  /\ Finish(q)
  /\ UNCHANGED <<server, socket, thread, uploading, file, attached>>

EditFailed(q) ==
  /\ At(q, "edit", "failed")
  /\ editSaving' = FALSE
  /\ Finish(q)
  /\ UNCHANGED <<server, socket, thread, uploading, editing, text, file, attached>>

\* (mutant: the file stays attached)
UploadedKeepingFile(q) ==
  /\ At(q, "upload", "done") \/ At(q, "upload", "failed")
  /\ view' = IF req[q].stage = "done" THEN Append1(view, req[q].id) ELSE view
  /\ uploading' = FALSE /\ text' = Empty
  /\ Finish(q)
  /\ UNCHANGED <<server, socket, phase, hasMore, loadingOlder, editSaving, editing, file, attached>>

\* sendMessage, of a file: its message is shown; the draft is cleared in any case.
Uploaded(q) ==
  /\ At(q, "upload", "done") \/ At(q, "upload", "failed")
  /\ view' = IF req[q].stage = "done" THEN Append1(view, req[q].id) ELSE view
  /\ uploading' = FALSE /\ text' = Empty /\ file' = FALSE
  /\ Finish(q)
  /\ UNCHANGED <<server, socket, phase, hasMore, loadingOlder, editSaving, editing, attached>>

\* handleDeleteMessage
Deleted(q) ==
  /\ At(q, "delete", "done") \/ At(q, "delete", "failed")
  /\ view' = IF req[q].stage = "done" THEN Without(view, req[q].id) ELSE view
  /\ Finish(q)
  /\ UNCHANGED <<server, socket, phase, hasMore, loadingOlder, composer>>

\* emitWithAck gives up, while it connects or later; its packets may still arrive.
GiveUp(q) ==
  /\ req[q].op = "send"
  /\ late' = IF req[q].stage = "asked" THEN late + 1 ELSE late
  /\ late' <= 1
  /\ wire' = Keep(wire, {n \in DOMAIN wire : wire[n].to # q})
  /\ text' = Empty
  /\ Finish(q)
  /\ UNCHANGED <<row, stored, paged, link, thread, uploading, editSaving, editing, file,
                 attached>>

OnDeleted(i) == view' = Without(view, i) /\ editing' = IF editing = i THEN 0 ELSE editing

\* A packet arrives.
Deliver ==
  /\ wire # <<>> /\ wire' = Tail(wire)
  /\ LET p == Head(wire) IN
     \/ /\ p.kind = "message" /\ listening
        /\ view' = Append1(view, p.id)
        /\ UNCHANGED <<editing, text, req>>
     \/ /\ p.kind = "deleted" /\ listening
        /\ OnDeleted(p.id)
        /\ UNCHANGED <<text, req>>
     \/ /\ p.kind # "ack" /\ ~listening
        /\ UNCHANGED <<view, editing, text, req>>
     \/ /\ p.kind = "ack"
        /\ text' = Empty /\ Finish(p.to)
        /\ UNCHANGED <<view, editing>>
  /\ UNCHANGED <<server, link, phase, hasMore, loadingOlder, uploading, editSaving, file,
                 attached>>

----------------------------------------------------------------------------
\* Mounted: the listeners are on the socket, which may be connecting still, a room's channel
\* is asked for, and so is the first page.
Init ==
  /\ row = [i \in Ids |-> IF i <= History THEN "mine" ELSE "none"]
  /\ conn \in BOOLEAN /\ wire = <<>> /\ late = 0 /\ live = TRUE /\ listening = TRUE
  /\ direct \in BOOLEAN
  /\ \/ channel = "asked" /\ unheard = MaxMessages
     \/ channel = "in" /\ unheard = History /\ direct /\ conn
  /\ paged = MaxMessages
  /\ view = <<>> /\ phase = "loading" /\ hasMore = FALSE /\ loadingOlder = FALSE
  /\ uploading = FALSE /\ editSaving = FALSE /\ editing = 0 /\ text = Empty /\ file = FALSE
  /\ \E q \in Requests : req = [[p \in Requests |-> Idle] EXCEPT ![q] = Ask("latest", 0)]
  /\ attached = 0 /\ stored = 0

Environment ==
  \/ Post \/ \E i \in Ids : Withdraw(i)
  \/ ServeLate \/ JoinChannel \/ RefuseJoin \/ Drop \/ Reconnect

Serve(q) ==
  \/ ServeLatest(q) \/ ServeOlder(q) \/ ServeUpload(q) \/ ServeEdit(q) \/ ServeDelete(q)
  \/ ServeSend(q) \/ RefuseSend(q) \/ Fail(q)

User(q) ==
  \/ LoadOlder(q) \/ SubmitEdit(q) \/ SubmitFile(q) \/ SubmitText(q)
  \/ \E i \in Ids : SubmitDelete(q, i)

Answer(q) ==
  \/ ShowLatest(q) \/ LatestFailed(q) \/ ShowOlder(q) \/ OlderFailed(q)
  \/ EditSaved(q) \/ EditFailed(q) \/ Uploaded(q) \/ Deleted(q) \/ GiveUp(q)

Next ==
  \/ Environment
  \/ Type \/ CancelEdit \/ Reply \/ AttachFile \/ \E i \in Ids : StartEdit(i)
  \/ Deliver
  \/ \E q \in Requests : Serve(q) \/ User(q) \/ Answer(q)

Spec == Init /\ [][Next]_vars

----------------------------------------------------------------------------
\* The shape of the state.
TypeOK ==
  /\ row \in [Ids -> {"none", "mine", "theirs", "deleted"}]
  /\ wire \in Seq(Packet) /\ late \in 0..1
  /\ view \in Seq(Ids)
  /\ phase \in {"loading", "loaded", "failed"}
  /\ {conn, live, listening, direct, hasMore, loadingOlder, uploading, editSaving, file}
       \subseteq BOOLEAN
  /\ channel \in {"asked", "in", "out"}
  /\ editing \in 0..MaxMessages /\ text \in 0..New
  /\ req \in [Requests -> Request \union {Idle}]
  /\ attached \in 0..MaxFiles /\ stored \in Nat
  /\ paged \in 0..MaxMessages /\ unheard \in 0..MaxMessages

\* The page has come and nothing is on its way.
AtRest == phase = "loaded" /\ live /\ wire = <<>> /\ \A q \in Requests : ~Busy(q)

\* A page brings the messages there were when the first one was read, and events those since
\* the channel was joined; what was posted between the two comes in no other way.
Reached == {i \in PresentIds : i <= paged \/ i > unheard}

\* Once nothing is on its way, what pages and events have brought, in whatever order they came,
\* has no gap above the oldest message shown; and when the last page said that there are no
\* more, all of it is shown.
HistoryReachable ==
  AtRest => /\ \A i \in Reached : (\E m \in ToSet(view) : m <= i) => i \in ToSet(view)
            /\ ~hasMore => Reached \subseteq ToSet(view)

\* No message is shown twice, though pages and events overlap.
ShownOnce == \A m, n \in DOMAIN view : view[m] = view[n] => m = n

\* The composer adds nothing to the list itself: it counts on the message's coming back
\* before the acknowledgement.  So a send that is acknowledged is in the list, as long as the
\* channel had been joined when it was stored.
AckedIsShown ==
  [][\A q \in Requests :
       wire # <<>> /\ live /\ Deliver /\ Head(wire).to = q /\ Head(wire).id # 0
         => \/ Head(wire).id \in ToSet(view') \/ row[Head(wire).id] = "deleted"
            \/ Head(wire).id <= unheard]_vars

\* A file that is attached is stored at most once, with Enter pressed at any moment.
UploadedOnce == stored <= attached

\* The text saved for a message was typed as an edit of that message, however edits are
\* begun, cancelled, overtaken by other answers and by deletions.
EditsKeepToTheirMessage ==
  \A q \in Requests : req[q].op = "edit" => req[q].text = req[q].id

----------------------------------------------------------------------------
\* What the proofs carry.  Packets and requests name what their kind calls for.
WellNamed ==
  /\ \A n \in DOMAIN wire :
       IF wire[n].kind = "ack" THEN wire[n].to \in Requests
       ELSE wire[n].to = "all" /\ wire[n].id \in Ids
  /\ \A q \in Requests :
       /\ req[q].op \in {"older", "edit", "delete"} => req[q].id \in Ids
       /\ At(q, "upload", "done") => req[q].id \in Ids

\* An edit's draft is its message's.
DraftsKept == editing # 0 => text \in {Empty, editing}

\* One upload at a time; whoever may still be stored has been attached.
UploadsCounted ==
  /\ \A p, q \in Requests : req[p].op = "upload" /\ req[q].op = "upload" => p = q
  /\ (\E q \in Requests : req[q].op = "upload") => uploading
  /\ (file /\ ~uploading) \/ (\E q \in Requests : At(q, "upload", "asked")) =>
       stored < attached

\* What is told to be deleted is, and what is acknowledged is there, or was.
AnswersTrue ==
  /\ \A n \in DOMAIN wire :
       /\ wire[n].kind = "deleted" => row[wire[n].id] = "deleted"
       /\ wire[n].kind = "ack" /\ wire[n].id # 0 => row[wire[n].id] # "none"
  /\ \A q \in Requests : At(q, "delete", "done") => row[req[q].id] = "deleted"

\* On a socket that stayed, every message since the channel was joined is shown or its event
\* on the way, and the event is ahead of the acknowledgement.
Announced(i, n) == \E m \in 1..n : wire[m].kind = "message" /\ wire[m].id = i
Accounted(i, n) == i \in ToSet(view) \/ row[i] = "deleted" \/ Announced(i, n)

NewOnesCome ==
  /\ channel = "in" => \A i \in Ids : i <= unheard => row[i] # "none"
  /\ live => /\ listening /\ ((conn /\ channel = "in") \/ unheard = MaxMessages)
             /\ \A i \in Ids : Present(i) /\ i > unheard => Accounted(i, Len(wire))
             /\ \A n \in DOMAIN wire :
                  wire[n].kind = "ack" /\ wire[n].id > unheard => Accounted(wire[n].id, n)

\* What was there when the first page was read and the channel not yet joined comes in pages:
\* what is shown of it, with the page that is on its way, has no gap above its oldest; and a
\* page that is said to be the last completes it.  (What comes otherwise is newer, and the
\* first page one.)
Old == {i \in PresentIds : i <= paged /\ i <= unheard}
Newer(i) == i >= paged \/ i > unheard
UpTo(S) == \A m \in S, i \in Old : m <= i => i \in S
PageReaches(q) ==
  LET all == ToSet(view) \union req[q].page
  IN UpTo(all) /\ (~req[q].more => Old \subseteq all)

PagesReach ==
  /\ \A n \in DOMAIN wire : wire[n].kind = "message" => wire[n].id > unheard
  /\ \A q \in Requests : At(q, "upload", "done") => req[q].id >= paged
  /\ \A p, q \in Requests : req[p].op = "latest" /\ req[q].op = "latest" => p = q
  /\ UpTo(ToSet(view))
  /\ phase = "loaded" /\ ~hasMore => Old \subseteq ToSet(view)
  /\ phase # "loaded" => ~hasMore /\ \A m \in ToSet(view) : Newer(m)
  /\ phase = "loaded" \/ (\E q \in Requests : At(q, "latest", "done")) =>
       \A i \in Ids : i <= paged => row[i] # "none"
  /\ \A q \in Requests :
       /\ req[q].op = "latest" => phase = "loading"
       /\ req[q].op = "older" =>
            phase = "loaded" /\ \A i \in Old : i >= req[q].id => i \in ToSet(view)
       /\ At(q, "latest", "done") \/ At(q, "older", "done") => PageReaches(q)

ConversationInv ==
  /\ WellNamed /\ DraftsKept /\ UploadsCounted /\ AnswersTrue /\ NewOnesCome /\ PagesReach
  /\ ShownOnce /\ UploadedOnce /\ EditsKeepToTheirMessage
=============================================================================
