------------------------------- MODULE Presence -------------------------------
(***************************************************************************)
(* A user's presence: the tabs of the user's browser, each with the socket *)
(* of socketClient.ts and the idle timer of usePresenceActivity.ts, and    *)
(* the entries that ChatGateway keeps for the sockets it knows.  Every     *)
(* tab shows the presence it was last sent (usePresenceMap.ts).            *)
(*                                                                         *)
(* The connection may drop with either side noticing first, the server may *)
(* restart, the token may expire.  What the machinery does by itself is    *)
(* fair; the user, the network's failures and the clock of the token are   *)
(* not.                                                                    *)
(*                                                                         *)
(* No name here is one of RoomPages: TabProofs extends both.               *)
(***************************************************************************)
EXTENDS Naturals

CONSTANT Tabs

VARIABLES
  tab,     \* tab[t]: the state of the page in tab t, or Closed
  server,  \* server[t]: the gateway's entry for t's socket: "none", "online" or "afk"
  ghosts,  \* the states of entries whose sockets have ended without its noticing
  notice,  \* notice[t]: an activity notice (BroadcastChannel, storage) is under way to t
  valid    \* the stored token has not expired

presenceVars == <<tab, server, ghosts, notice, valid>>

----------------------------------------------------------------------------
States == {"online", "afk"}
Hooks == {"map", "unread", "activity"}

\* socket: "none"; "connecting", also when it retries after a drop; "open", as far as the
\* page knows; "refused", by the server, after which it does not retry.
\* hooks: which hooks have their listeners on it.  The activity hook emits on the socket
\* that it found when it was mounted, so once that is replaced it reports to nobody, and its
\* flag (kept FALSE here) no longer matters.
\* buffer: the last status emitted while it was not connected.  isAfk is the hook's flag;
\* its timer is set whenever the flag is not.  view is what usePresenceMap shows.
Page == [socket : {"none", "connecting", "open", "refused"}, hooks : SUBSET Hooks,
         buffer : States \union {"empty"}, isAfk : BOOLEAN,
         view : States \union {"none", "unknown"}]
Closed == [socket |-> "closed"]

Open(t) == tab[t] # Closed
Attached(t) == "activity" \in tab[t].hooks
Connected(t) == Open(t) /\ tab[t].socket = "open" /\ server[t] # "none"

\* (mutant: a tab that is away counts as online)
aggregateAnyTab(states) == IF states = {} THEN "none" ELSE "online"

\* aggregateForUser
aggregateForUser(states) ==
  IF states = {} THEN "none" ELSE IF "online" \in states THEN "online" ELSE "afk"

Entries(srv, left) ==
  aggregateForUser({srv[t] : t \in {u \in Tabs : srv[u] # "none"}}
                   \union left)

Shown == Entries(server, ghosts)

\* broadcastPresence, of the entries there are from now on: to every socket the gateway
\* knows, where the page listens.
Broadcast(pages, srv, left) ==
  /\ server' = srv /\ ghosts' = left
  /\ tab' = [t \in Tabs |->
       IF pages[t] # Closed /\ "map" \in pages[t].hooks
          /\ pages[t].socket = "open" /\ srv[t] # "none"
       THEN [pages[t] EXCEPT !.view = Entries(srv, left)] ELSE pages[t]]

\* The entry of t's socket is left behind: the gateway learns of its end later.
LeaveEntry(t) ==
  /\ ghosts' = IF server[t] = "none" THEN ghosts
               ELSE ghosts \union {server[t]}
  /\ server' = [server EXCEPT ![t] = "none"]

----------------------------------------------------------------------------
\* connectSocket: a socket that is not connected is replaced, and its listeners with it.
connectSocket(page) ==
  IF page.socket = "open" THEN page
  ELSE [page EXCEPT !.socket = "connecting", !.hooks = {}, !.buffer = "empty",
                    !.isAfk = FALSE]

Listen(page, hook) == [connectSocket(page) EXCEPT !.hooks = @ \union {hook}]

\* The shell is mounted after a sign-in or in a new tab: effects run from the inside
\* out, the page's (only the chat page has the presence map), UnreadSummaryProvider's,
\* ProtectedLayout's.
MountShell(t) ==
  /\ ~Open(t)
  /\ \E chat \in BOOLEAN :
       LET fresh == [socket |-> "none", hooks |-> {}, buffer |-> "empty",
                     isAfk |-> FALSE, view |-> "unknown"]
           page == IF chat THEN Listen(fresh, "map") ELSE fresh
       IN  tab' = [tab EXCEPT ![t] = Listen(Listen(page, "unread"), "activity")]
  /\ UNCHANGED <<server, ghosts, notice, valid>>

\* The user goes to the chat page, with a new and empty map; or leaves it.
OpenChat(t) ==
  /\ Open(t) /\ "map" \notin tab[t].hooks
  /\ tab' = [tab EXCEPT ![t] = [Listen(@, "map") EXCEPT !.view = "unknown"]]
  /\ UNCHANGED <<server, ghosts, notice, valid>>

LeaveChat(t) ==
  /\ Open(t) /\ "map" \in tab[t].hooks
  /\ tab' = [tab EXCEPT ![t].hooks = @ \ {"map"}, ![t].view = "unknown"]
  /\ UNCHANGED <<server, ghosts, notice, valid>>

\* emitWithAck, by ensureSocketConnected; a conversation that is opened only takes a new
\* socket when there is none.
Send(t) ==
  /\ Open(t)
  /\ tab' = [tab EXCEPT ![t] = connectSocket(@)]
  /\ UNCHANGED <<server, ghosts, notice, valid>>

OpenConversation(t) ==
  /\ Open(t) /\ tab[t].socket = "none"
  /\ tab' = [tab EXCEPT ![t] = connectSocket(@)]
  /\ UNCHANGED <<server, ghosts, notice, valid>>

\* A new profile picture: mergeSession signs in again, which disconnects the socket; the
\* shell stays mounted.
ChangeAvatar(t) ==
  /\ Open(t) /\ valid
  /\ LeaveEntry(t)
  /\ tab' = [tab EXCEPT ![t].socket = "none", ![t].hooks = {}, ![t].buffer = "empty",
                      ![t].isAfk = FALSE]
  /\ UNCHANGED <<notice, valid>>

\* The tab is closed, or signed out: disconnectSocket.
Leave(t) ==
  /\ Open(t)
  /\ LeaveEntry(t)
  /\ tab' = [tab EXCEPT ![t] = Closed]
  /\ notice' = [notice EXCEPT ![t] = FALSE]
  /\ UNCHANGED valid

----------------------------------------------------------------------------
\* emit: to the gateway (presence:set, which broadcasts), or into the buffer.
Emit(t, page, status) ==
  IF Connected(t)
  THEN Broadcast([tab EXCEPT ![t] = page], [server EXCEPT ![t] = status], ghosts)
  ELSE /\ tab' = [tab EXCEPT ![t] =
            IF page.socket = "open" THEN page ELSE [page EXCEPT !.buffer = status]]
       /\ UNCHANGED <<server, ghosts>>

\* applyGlobalActivity
applyGlobalActivity(t) ==
  IF Attached(t) /\ tab[t].isAfk THEN Emit(t, [tab[t] EXCEPT !.isAfk = FALSE], "online")
  ELSE UNCHANGED <<tab, server, ghosts>>

NotifyOthers(t) == notice' = [u \in Tabs |-> notice[u] \/ (u # t /\ Open(u))]

\* By a key, the mouse or the wheel.
bumpLocalActivity(t) ==
  /\ Open(t)
  /\ applyGlobalActivity(t)
  /\ NotifyOthers(t)
  /\ UNCHANGED valid

\* onBcMessage, onStorage
ReceiveNotice(t) ==
  /\ Open(t) /\ notice[t]
  /\ notice' = [notice EXCEPT ![t] = FALSE]
  /\ applyGlobalActivity(t)
  /\ UNCHANGED valid

\* The idle timer: a minute has passed since the last activity.
GoIdle(t) ==
  /\ Open(t) /\ Attached(t) /\ ~tab[t].isAfk
  /\ Emit(t, [tab[t] EXCEPT !.isAfk = TRUE], "afk")
  /\ UNCHANGED <<notice, valid>>

----------------------------------------------------------------------------
\* (mutant: the flag survives a reconnection)
OnConnectKeepingFlag(page) == page

\* The activity hook's connect handler (its own bump emits nothing then).
OnConnect(page) ==
  IF "activity" \in page.hooks THEN [page EXCEPT !.isAfk = FALSE] ELSE page

\* handleConnection, with a valid token: online.  The client flushes its buffer before
\* the connect handlers run.
Connect(t) ==
  /\ Open(t) /\ tab[t].socket = "connecting" /\ valid
  /\ Broadcast(
       [tab EXCEPT ![t] = [OnConnect(@) EXCEPT !.socket = "open", !.buffer = "empty"]],
       [server EXCEPT ![t] = IF tab[t].buffer = "empty" THEN "online" ELSE tab[t].buffer],
       ghosts)
  /\ IF Attached(t) THEN NotifyOthers(t) ELSE UNCHANGED notice
  /\ UNCHANGED valid

\* handleConnection, with an expired token: the server disconnects.  (The page's own
\* handlers have run: the namespace was connected for a moment.)
RefuseConnection(t) ==
  /\ Open(t) /\ tab[t].socket = "connecting" /\ ~valid
  /\ tab' = [tab EXCEPT ![t] = [OnConnect(@) EXCEPT !.socket = "refused", !.buffer = "empty"]]
  /\ IF Attached(t) THEN NotifyOthers(t) ELSE UNCHANGED notice
  /\ UNCHANGED <<server, ghosts, valid>>

\* The connection is lost: the page notices first, and will retry; or the gateway does
\* (ping timeout), and the page later.
Drop(t) ==
  /\ Open(t) /\ tab[t].socket = "open"
  /\ LeaveEntry(t)
  /\ tab' = [tab EXCEPT ![t].socket = "connecting"]
  /\ UNCHANGED <<notice, valid>>

\* (mutant: nobody is told of a disconnection)
handleDisconnectSilently(t) ==
  /\ Connected(t)
  /\ server' = [server EXCEPT ![t] = "none"]
  /\ UNCHANGED <<tab, ghosts, notice, valid>>

handleDisconnect(t) ==
  /\ Connected(t)
  /\ Broadcast(tab, [server EXCEPT ![t] = "none"], ghosts)
  /\ UNCHANGED <<notice, valid>>

\* (mutant: only the activity hook finds out)
NoticeDropByHook(t) ==
  /\ Open(t) /\ tab[t].socket = "open" /\ server[t] = "none" /\ Attached(t)
  /\ tab' = [tab EXCEPT ![t].socket = "connecting"]
  /\ UNCHANGED <<server, ghosts, notice, valid>>

NoticeDrop(t) ==
  /\ Open(t) /\ tab[t].socket = "open" /\ server[t] = "none"
  /\ tab' = [tab EXCEPT ![t].socket = "connecting"]
  /\ UNCHANGED <<server, ghosts, notice, valid>>

\* handleDisconnect of a socket whose page is gone or has another.
DropGhost ==
  /\ \E s \in ghosts : Broadcast(tab, server, ghosts \ {s})
  /\ UNCHANGED <<notice, valid>>

\* The gateway's map is lost with the process.
Restart ==
  /\ server' = [t \in Tabs |-> "none"]
  /\ ghosts' = {}
  /\ UNCHANGED <<tab, notice, valid>>

\* Fifteen minutes after the sign-in; signing in again closes every tab's page first.
Expire == valid /\ valid' = FALSE /\ UNCHANGED <<tab, server, ghosts, notice>>

SignInAgain ==
  /\ ~valid /\ \A t \in Tabs : ~Open(t)
  /\ valid' = TRUE
  /\ UNCHANGED <<tab, server, ghosts, notice>>

----------------------------------------------------------------------------
PresenceInit ==
  /\ tab = [t \in Tabs |-> Closed]
  /\ server = [t \in Tabs |-> "none"]
  /\ ghosts = {}
  /\ notice = [t \in Tabs |-> FALSE]
  /\ valid = TRUE

\* What goes on without the user and without a failure.
System ==
  \/ DropGhost
  \/ \E t \in Tabs : \/ ReceiveNotice(t) \/ GoIdle(t)
                     \/ Connect(t) \/ RefuseConnection(t) \/ NoticeDrop(t)

User(t) ==
  \/ MountShell(t) \/ OpenChat(t) \/ LeaveChat(t)
  \/ Send(t) \/ OpenConversation(t) \/ ChangeAvatar(t) \/ Leave(t)
  \/ bumpLocalActivity(t)

Failure == Restart \/ Expire \/ SignInAgain \/ \E t \in Tabs : Drop(t) \/ handleDisconnect(t)

PresenceNext == Failure \/ System \/ \E t \in Tabs : User(t)

\* Timers fire, notices arrive, both ends find out that a connection is lost (ping
\* timeouts), and the client retries for ever.
Fairness ==
  /\ WF_presenceVars(DropGhost)
  /\ \A t \in Tabs :
       /\ WF_presenceVars(ReceiveNotice(t)) /\ WF_presenceVars(GoIdle(t))
       /\ WF_presenceVars(Connect(t)) /\ WF_presenceVars(RefuseConnection(t))
       /\ WF_presenceVars(NoticeDrop(t))

PresenceSpec == PresenceInit /\ [][PresenceNext]_presenceVars /\ Fairness

----------------------------------------------------------------------------
\* The shape of the state.
PresenceTypeOK ==
  /\ tab \in [Tabs -> Page \union {Closed}]
  /\ server \in [Tabs -> States \union {"none"}]
  /\ ghosts \subseteq States
  /\ notice \in [Tabs -> BOOLEAN]
  /\ valid \in BOOLEAN

\* A page that holds the tab to be away has told the gateway so, through drops,
\* reconnections and restarts: the flag and the entry never part that way round.
AwayIsReported ==
  \A t \in Tabs : Connected(t) /\ Attached(t) /\ tab[t].isAfk => server[t] = "afk"

\* The presence shown in a connected tab is the present one, whichever socket changed it
\* and however (or nothing, between opening the chat page and the next change).
ViewCurrent ==
  \A t \in Tabs :
    Connected(t) /\ "map" \in tab[t].hooks => tab[t].view \in {"unknown", Shown}

\* Once the user and the failures stop, the user is no longer shown as online, unless a
\* tab has taken another socket than the one its activity hook reports on.
EventuallyAway ==
  <>[][System]_presenceVars
    => <>[](Shown = "online" => \E t \in Tabs : Connected(t) /\ ~Attached(t))

\* Once the failures stop, every page that holds a socket is connected, unless its token
\* had expired.
Recovers ==
  <>[][System]_presenceVars
    => <>[](\A t \in Tabs : Open(t) => Connected(t) \/ tab[t].socket \in {"none", "refused"})
=============================================================================
