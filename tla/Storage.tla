------------------------------- MODULE Storage -------------------------------
(***************************************************************************)
(* The upload directory and the rows that refer to its files: attachments  *)
(* (messages.controller.ts, messages.service.ts), avatars and the deletion *)
(* of accounts (users.controller.ts, users.service.ts), the deletion of    *)
(* rooms (rooms.service.ts).  No transaction spans the two: multer writes  *)
(* a file before its handler runs, and files are unlinked by calls of      *)
(* their own, with other requests, an error or the end of the process in   *)
(* between.                                                                *)
(***************************************************************************)
EXTENDS FiniteSets, Naturals

CONSTANTS
  Users,      \* the accounts, registered at the start
  Rooms,      \* ids of group rooms and direct-message rooms
  Files,      \* names of files: random, so each is drawn once
  Requests,   \* slots for requests in flight (bounds concurrency)
  Nobody,     \* the creator of a room that does not exist
  NoFile      \* the avatar path of an account that has none

ASSUME NobodyAssumption == Nobody \notin Users
ASSUME NoFileAssumption == NoFile \notin Files

VARIABLES
  alive,      \* the accounts there are
  avatar,     \* avatar[u]: the file the path of u's row names, or NoFile
  creator,    \* creator[m]: who created room m, Nobody when there is no such room
  row,        \* row[f]: the attachment row that names f, or NoRow
  disk,       \* the files on disk
  drawn,      \* the names drawn so far
  req,        \* req[r]: the request in slot r, or Idle
  removed,    \* history: files unlinked by removeAvatar
  abandoned   \* history: files whose rows went with a room, in a purge that stopped, or
              \* after the purge had listed its files

vars == <<alive, avatar, creator, row, disk, drawn, req, removed, abandoned>>
tables == <<alive, avatar, creator, row>>
history == <<removed, abandoned>>

----------------------------------------------------------------------------
\* A file a request is about, or none; what it has read: a path, rooms, a list of files.
\* mine: for the deletion of an account, the files that were the caller's when it began
\* (history).
Row == [uploader : Users, room : Rooms]
NoRow == [uploader |-> Nobody]

Stages == {"check", "create", "readPrevious", "update", "unlink",
           "listRooms", "listFiles", "transaction"}
Ops == {"attach", "avatar", "removeAvatar", "deleteAccount", "deleteRoom"}
Idle == [stage |-> "idle"]
Request == [stage : Stages, op : Ops, user : Users, file : Files \union {NoFile},
            prev : Files \union {NoFile}, rooms : SUBSET Rooms,
            files : SUBSET Files, mine : SUBSET Files]

Busy(r) == req[r] # Idle
At(r, stage, op) == Busy(r) /\ req[r].stage = stage /\ req[r].op = op

Begin(stage, op, u) ==
  [stage |-> stage, op |-> op, user |-> u, file |-> NoFile, prev |-> NoFile,
   rooms |-> {}, files |-> {}, mine |-> {}]
Proceed(r, stage) == req' = [req EXCEPT ![r].stage = stage]
Finish(r) == req' = [req EXCEPT ![r] = Idle]

HasRow(f) == row[f] # NoRow
Avatars == {avatar[u] : u \in Users} \ {NoFile}
FilesOf(u) ==
  {f \in Files : HasRow(f) /\ (row[f].uploader = u \/ creator[row[f].room] = u)}

----------------------------------------------------------------------------
\* FileInterceptor: the upload is written under a new name before the handler runs.
Upload(r, op, u, m) ==
  /\ ~Busy(r)
  /\ \E f \in Files \ drawn :
       /\ drawn' = drawn \union {f} /\ disk' = disk \union {f}
       /\ req' = [req EXCEPT ![r] = [Begin("check", op, u) EXCEPT !.file = f, !.rooms = m]]
  /\ UNCHANGED <<tables, history>>

\* sendRoomFileAttachment, sendDmFileAttachment: the checks on the size, the caption, the
\* membership or the friendship, the message replied to.  The file stays when one fails.
Check(r) ==
  /\ At(r, "check", "attach")
  /\ Proceed(r, "create") \/ Finish(r)
  /\ UNCHANGED <<tables, disk, drawn, history>>

\* The message and its attachment; the foreign keys fail when the sender or the room is
\* gone.
Create(r) ==
  /\ At(r, "create", "attach")
  /\ \E m \in req[r].rooms :
       row' = IF req[r].user \in alive /\ creator[m] # Nobody
              THEN [row EXCEPT ![req[r].file] = [uploader |-> req[r].user, room |-> m]]
              ELSE row
  /\ Finish(r)
  /\ UNCHANGED <<alive, avatar, creator, disk, drawn, history>>

\* getOrCreateDmRoom, createRoom.
CreateRoom(u, m) ==
  /\ u \in alive /\ creator[m] = Nobody
  /\ creator' = [creator EXCEPT ![m] = u]
  /\ UNCHANGED <<alive, avatar, row, disk, drawn, req, history>>

----------------------------------------------------------------------------
\* saveAvatarFromUpload: the size, the type and the path of the file, which is unlinked
\* when it fails.
CheckAvatar(r) ==
  /\ At(r, "check", "avatar")
  /\ \/ Proceed(r, "readPrevious") /\ UNCHANGED disk
     \/ Finish(r) /\ disk' = disk \ {req[r].file}
  /\ UNCHANGED <<tables, drawn, history>>

ReadPreviousAvatar(r) ==
  /\ At(r, "readPrevious", "avatar")
  /\ IF req[r].user \in alive
     THEN /\ req' = [req EXCEPT ![r].stage = "update", ![r].prev = avatar[req[r].user]]
          /\ UNCHANGED disk
     ELSE Finish(r) /\ disk' = disk \ {req[r].file}
  /\ UNCHANGED <<tables, drawn, history>>

UpdateAvatar(r) ==
  /\ At(r, "update", "avatar")
  /\ IF req[r].user \in alive
     THEN Proceed(r, "unlink") /\ avatar' = [avatar EXCEPT ![req[r].user] = req[r].file]
     ELSE Finish(r) /\ UNCHANGED avatar
  /\ UNCHANGED <<alive, creator, row, disk, drawn, history>>

\* (mutant: the path is read again, and what it names by then is unlinked)
UnlinkCurrent(r) ==
  /\ At(r, "unlink", "avatar")
  /\ disk' = disk \ ({avatar[req[r].user]} \ {req[r].prev})
  /\ Finish(r)
  /\ UNCHANGED <<tables, drawn, history>>

UnlinkPrevious(r) ==
  /\ At(r, "unlink", "avatar")
  /\ disk' = disk \ {req[r].prev}
  /\ Finish(r)
  /\ UNCHANGED <<tables, drawn, history>>

\* removeAvatar: read the path, unlink the file, clear the path.
StartRemoveAvatar(r, u) ==
  /\ ~Busy(r) /\ u \in alive /\ avatar[u] # NoFile
  /\ req' = [req EXCEPT ![r] =
       [Begin("unlink", "removeAvatar", u) EXCEPT !.prev = avatar[u]]]
  /\ UNCHANGED <<tables, disk, drawn, history>>

UnlinkAvatar(r) ==
  /\ At(r, "unlink", "removeAvatar")
  /\ disk' = disk \ {req[r].prev} /\ removed' = removed \union {req[r].prev}
  /\ Proceed(r, "update")
  /\ UNCHANGED <<tables, drawn, abandoned>>

ClearAvatar(r) ==
  /\ At(r, "update", "removeAvatar")
  /\ avatar' = IF req[r].user \in alive THEN [avatar EXCEPT ![req[r].user] = NoFile]
               ELSE avatar
  /\ Finish(r)
  /\ UNCHANGED <<alive, creator, row, disk, drawn, history>>

----------------------------------------------------------------------------
\* deleteAccount: the account, whose password is the one given.
StartDeleteAccount(r, u) ==
  /\ ~Busy(r) /\ u \in alive
  /\ req' = [req EXCEPT ![r] =
       [Begin("listRooms", "deleteAccount", u) EXCEPT
          !.prev = avatar[u], !.mine = FilesOf(u) \union ({avatar[u]} \ {NoFile})]]
  /\ UNCHANGED <<tables, disk, drawn, history>>

ListRooms(r) ==
  /\ At(r, "listRooms", "deleteAccount")
  /\ req' = [req EXCEPT ![r].stage = "listFiles",
                        ![r].rooms = {m \in Rooms : creator[m] = req[r].user}]
  /\ UNCHANGED <<tables, disk, drawn, history>>

\* (mutant: only the files of the rooms the user created are listed)
ToPurgeOfRooms(r) == {f \in Files : HasRow(f) /\ row[f].room \in req[r].rooms}

\* The attachments to purge: those the user sent, and those in the rooms listed.
ToPurge(r) ==
  {f \in Files : HasRow(f) /\ (row[f].uploader = req[r].user \/ row[f].room \in req[r].rooms)}

\* (mutant: the files are unlinked as they are listed, before the transaction)
UnlinkAsListed(r) ==
  /\ At(r, "listFiles", "deleteAccount")
  /\ req' = [req EXCEPT ![r].stage = "transaction", ![r].files = ToPurge(r)]
  /\ disk' = disk \ ToPurge(r)
  /\ UNCHANGED <<tables, drawn, history>>

ListFiles(r) ==
  /\ At(r, "listFiles", "deleteAccount")
  /\ req' = [req EXCEPT ![r].stage = "transaction",
       ![r].files = ToPurge(r) \union ({req[r].prev} \ {NoFile})]
  /\ UNCHANGED <<tables, disk, drawn, history>>

\* The message of every file in `gone` is deleted, and its attachment with it.
RowsWithout(gone) == [f \in Files |-> IF f \in gone THEN NoRow ELSE row[f]]

\* (mutant: the rooms that are left keep the user's attachments)
DeletedRowsInRooms(r) == {f \in Files : HasRow(f) /\ row[f].room \in req[r].rooms}

DeletedRows(r) ==
  {f \in Files : HasRow(f) /\ (row[f].uploader = req[r].user \/ row[f].room \in req[r].rooms)}

\* The transaction fails when the account is gone or has created a room that was not
\* listed (its foreign key restricts).
DeleteAccount(r) ==
  /\ At(r, "transaction", "deleteAccount")
  /\ LET u == req[r].user
         kept == [m \in Rooms |-> IF m \in req[r].rooms THEN Nobody ELSE creator[m]] IN
     IF u \in alive /\ \A m \in Rooms : kept[m] # u
     THEN /\ alive' = alive \ {u}
          /\ creator' = kept
          /\ row' = RowsWithout(DeletedRows(r))
          /\ avatar' = [avatar EXCEPT ![u] = NoFile]
          /\ abandoned' = abandoned \union (DeletedRows(r) \ (req[r].files \union req[r].mine))
          /\ Proceed(r, "unlink")
     ELSE Finish(r) /\ UNCHANGED <<tables, abandoned>>
  /\ UNCHANGED <<disk, drawn, removed>>

UnlinkPurged(r) ==
  /\ At(r, "unlink", "deleteAccount")
  /\ disk' = disk \ req[r].files
  /\ Finish(r)
  /\ UNCHANGED <<tables, drawn, history>>

----------------------------------------------------------------------------
\* deleteRoom, by the owner: the room is there; the list of files; the transaction.
StartDeleteRoom(r, m) ==
  /\ ~Busy(r) /\ creator[m] \in alive
  /\ req' = [req EXCEPT ![r] =
       [Begin("transaction", "deleteRoom", creator[m]) EXCEPT !.rooms = {m},
          !.files = {f \in Files : HasRow(f) /\ row[f].room = m}]]
  /\ UNCHANGED <<tables, disk, drawn, history>>

DeleteRoom(r) ==
  /\ At(r, "transaction", "deleteRoom")
  /\ LET gone == {f \in Files : HasRow(f) /\ row[f].room \in req[r].rooms} IN
     IF \E m \in req[r].rooms : creator[m] # Nobody
     THEN /\ creator' = [m \in Rooms |-> IF m \in req[r].rooms THEN Nobody ELSE creator[m]]
          /\ row' = RowsWithout(gone)
          /\ abandoned' = abandoned \union gone
          /\ Proceed(r, "unlink")
     ELSE Finish(r) /\ UNCHANGED <<creator, row, abandoned>>
  /\ UNCHANGED <<alive, avatar, disk, drawn, removed>>

\* resolveSafeUploadFile puts the upload directory before a path that begins with it
\* already, so that every unlink fails, silently.
UnlinkElsewhere(r) ==
  /\ At(r, "unlink", "deleteRoom")
  /\ Finish(r)
  /\ UNCHANGED <<tables, disk, drawn, history>>

\* The process stops or a call fails between two steps.
Abort(r) ==
  /\ Busy(r)
  /\ abandoned' = IF At(r, "unlink", "deleteAccount") THEN abandoned \union req[r].files
                  ELSE abandoned
  /\ Finish(r)
  /\ UNCHANGED <<tables, disk, drawn, removed>>

----------------------------------------------------------------------------
Init ==
  /\ alive = Users
  /\ avatar = [u \in Users |-> NoFile]
  /\ creator = [m \in Rooms |-> Nobody]
  /\ row = [f \in Files |-> NoRow]
  /\ disk = {} /\ drawn = {}
  /\ req = [r \in Requests |-> Idle]
  /\ removed = {} /\ abandoned = {}

Start(r) ==
  \/ \E u \in alive :
       \/ Upload(r, "avatar", u, {})
       \/ \E m \in Rooms : creator[m] # Nobody /\ Upload(r, "attach", u, {m})
       \/ StartRemoveAvatar(r, u)
       \/ StartDeleteAccount(r, u)
  \/ \E m \in Rooms : StartDeleteRoom(r, m)

Handle(r) ==
  \/ Check(r) \/ Create(r)
  \/ CheckAvatar(r) \/ ReadPreviousAvatar(r) \/ UpdateAvatar(r) \/ UnlinkPrevious(r)
  \/ UnlinkAvatar(r) \/ ClearAvatar(r)
  \/ ListRooms(r) \/ ListFiles(r) \/ DeleteAccount(r) \/ UnlinkPurged(r)
  \/ DeleteRoom(r) \/ UnlinkElsewhere(r)
  \/ Abort(r)

Next ==
  \/ \E r \in Requests : Start(r) \/ Handle(r)
  \/ \E u \in Users, m \in Rooms : CreateRoom(u, m)

Spec == Init /\ [][Next]_vars

----------------------------------------------------------------------------
\* The shape of the state.
TypeOK ==
  /\ alive \subseteq Users
  /\ avatar \in [Users -> Files \union {NoFile}]
  /\ creator \in [Rooms -> Users \union {Nobody}]
  /\ row \in [Files -> Row \union {NoRow}]
  /\ disk \subseteq Files /\ drawn \subseteq Files
  /\ req \in [Requests -> Request \union {Idle}]
  /\ removed \subseteq Files /\ abandoned \subseteq Files

\* An attachment that is listed can be downloaded: whatever deletions and uploads run
\* together and wherever one of them stops, no file goes before its row.
RowsHaveFiles == \A f \in Files : HasRow(f) => f \in disk

\* The same for profile pictures, with one exception: removeAvatar unlinks the file
\* first, so a removal that stops there leaves the path of a file that is gone.
AvatarsHaveFiles == \A u \in Users : avatar[u] \in disk \union removed \union {NoFile}

\* Rows refer to accounts and rooms that exist, however a deletion overlaps the uploads
\* that passed their checks before it.
NothingOfTheGone ==
  \A f \in Files : HasRow(f) =>
    row[f].uploader \in alive /\ creator[row[f].room] \in alive

\* When the deletion of an account is done, every file that was the user's when it began
\* (the picture, files sent, files in rooms created) has left the disk, except those whose
\* rows another deletion had taken: of a room, or of another account, whose own purge
\* unlinks the files it had listed and no other.
BeingPurged(r) ==
  UNION {req[q].files : q \in {x \in Requests \ {r} : At(x, "unlink", "deleteAccount")}}

PurgeComplete ==
  [][\A r \in Requests :
       At(r, "unlink", "deleteAccount") /\ UnlinkPurged(r)
         => req[r].mine \intersect disk' \subseteq abandoned \union BeingPurged(r)]_vars
=============================================================================
