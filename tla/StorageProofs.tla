---------------------------- MODULE StorageProofs ----------------------------
(***************************************************************************)
(* Theorems about Storage for every set of accounts, rooms, files and      *)
(* requests.                                                               *)
(***************************************************************************)
EXTENDS Storage, TLAPS

----------------------------------------------------------------------------
(* The invariant *)

\* The request has a file that nothing refers to yet: multer has written it, and neither an
\* attachment nor an account has it so far.
Carries(r) ==
  /\ Busy(r)
  /\ \/ req[r].op = "attach"
     \/ req[r].op = "avatar" /\ req[r].stage \in {"check", "readPrevious", "update"}

\* Whatever is stored or remembered was drawn.
AllDrawn ==
  /\ disk \subseteq drawn
  /\ \A f \in Files : HasRow(f) => f \in drawn
  /\ \A u \in Users : avatar[u] \in drawn \union {NoFile}
  /\ \A r \in Requests : Busy(r) =>
       /\ {req[r].file, req[r].prev} \subseteq drawn \union {NoFile}
       /\ req[r].files \subseteq drawn /\ req[r].mine \subseteq drawn

\* Nobody else refers to a file that is being carried, or deletes it.
CarriedApart ==
  \A r \in Requests : Carries(r) =>
    /\ req[r].file \in disk /\ ~HasRow(req[r].file)
    /\ \A u \in Users : avatar[u] # req[r].file
    /\ \A q \in Requests : Busy(q) =>
         /\ req[q].prev # req[r].file /\ req[r].file \notin req[q].files
         /\ q # r /\ Carries(q) => req[q].file # req[r].file

\* Pictures are no attachments, and a picture, present or remembered, is one user's.
PicturesApart ==
  /\ \A u \in Users : avatar[u] # NoFile =>
       ~HasRow(avatar[u]) /\ \A v \in Users \ {u} : avatar[v] # avatar[u]
  /\ \A r \in Requests : Busy(r) /\ req[r].prev # NoFile =>
       ~HasRow(req[r].prev) /\ \A v \in Users \ {req[r].user} : avatar[v] # req[r].prev
  /\ \A r \in Requests : Busy(r) /\ req[r].op = "removeAvatar" => req[r].prev # NoFile

\* The picture that a change replaced is no longer the user's.
Replaced ==
  \A r \in Requests : At(r, "unlink", "avatar") =>
    req[r].prev = NoFile \/ avatar[req[r].user] # req[r].prev

\* The files that a deletion has listed lose their rows in its transaction, and those whose
\* deletion remains have no row; none is a picture but the one that was the user's.
ListedForPurge ==
  \A r \in Requests : Busy(r) =>
    /\ \A f \in req[r].files, v \in Users : avatar[v] = f => f = req[r].prev
    /\ req[r].op = "deleteAccount" /\ req[r].stage \in {"transaction", "unlink"} =>
         req[r].prev \in req[r].files \union {NoFile}
    /\ At(r, "transaction", "deleteAccount") =>
         \A f \in req[r].files : HasRow(f) =>
           row[f].uploader = req[r].user \/ row[f].room \in req[r].rooms
    /\ At(r, "unlink", "deleteAccount") =>
         req[r].user \notin alive /\ \A f \in req[r].files : ~HasRow(f)

\* Deleted accounts have neither picture nor room.
GoneHaveNothing ==
  /\ \A u \in Users \ alive : avatar[u] = NoFile
  /\ \A m \in Rooms : creator[m] \in alive \union {Nobody}

\* A file that was the user's when the deletion of the account began is going to be listed,
\* or is listed, unless another deletion had it.
Due(r, f) ==
  \/ f = req[r].prev
  \/ /\ req[r].stage = "listRooms" /\ HasRow(f)
     /\ row[f].uploader = req[r].user \/ creator[row[f].room] = req[r].user
  \/ /\ req[r].stage = "listFiles" /\ HasRow(f)
     /\ row[f].uploader = req[r].user \/ row[f].room \in req[r].rooms
  \/ req[r].stage \in {"transaction", "unlink"} /\ f \in req[r].files

MineAccounted ==
  \A r \in Requests : Busy(r) /\ req[r].op = "deleteAccount" =>
    \A f \in req[r].mine : \/ f \notin disk
                           \/ f \in abandoned \union BeingPurged(r)
                           \/ Due(r, f)

StorageInv ==
  /\ TypeOK
  /\ AllDrawn
  /\ CarriedApart
  /\ PicturesApart
  /\ Replaced
  /\ ListedForPurge
  /\ GoneHaveNothing
  /\ RowsHaveFiles
  /\ AvatarsHaveFiles
  /\ NothingOfTheGone
  /\ MineAccounted

----------------------------------------------------------------------------
(* Facts about requests *)

LEMMA BusyRequest ==
  ASSUME TypeOK, NEW r \in Requests, Busy(r)
  PROVE  /\ req[r] \in Request
         /\ req[r].user \in Users
         /\ req[r].file \in Files \union {NoFile}
         /\ req[r].prev \in Files \union {NoFile}
         /\ req[r].rooms \subseteq Rooms
         /\ req[r].files \subseteq Files
         /\ req[r].mine \subseteq Files
BY DEF TypeOK, Busy, Request

\* The slot of a request that is answered is free, and the others are as they were.
LEMMA Finished ==
  ASSUME TypeOK, NEW r \in Requests, Finish(r)
  PROVE  /\ req' \in [Requests -> Request \union {Idle}]
         /\ ~Busy(r)'
         /\ \A q \in Requests \ {r} : req'[q] = req[q] /\ (Busy(q)' <=> Busy(q))
BY DEF TypeOK, Finish, Busy

\* A request that proceeds keeps what it knows.
LEMMA Proceeded ==
  ASSUME TypeOK, NEW r \in Requests, Busy(r), NEW s \in Stages, Proceed(r, s)
  PROVE  /\ req' \in [Requests -> Request \union {Idle}]
         /\ Busy(r)'
         /\ req'[r] = [req[r] EXCEPT !.stage = s]
         /\ req'[r].stage = s /\ req'[r].op = req[r].op /\ req'[r].user = req[r].user
         /\ req'[r].file = req[r].file /\ req'[r].prev = req[r].prev
         /\ req'[r].rooms = req[r].rooms /\ req'[r].files = req[r].files
         /\ req'[r].mine = req[r].mine
         /\ \A q \in Requests \ {r} : req'[q] = req[q] /\ (Busy(q)' <=> Busy(q))
<1>1. req[r] \in Request
  BY BusyRequest
<1>2. [req[r] EXCEPT !.stage = s] \in Request
  BY <1>1 DEF Request
<1>3. [req[r] EXCEPT !.stage = s] # Idle
  BY <1>2 DEF Request, Idle, Stages
<1> QED BY <1>1, <1>2, <1>3 DEF TypeOK, Proceed, Busy, Request

\* A request that begins.
LEMMA Begun ==
  ASSUME TypeOK, NEW r \in Requests, ~Busy(r), NEW new \in Request,
         req' = [req EXCEPT ![r] = new]
  PROVE  /\ req' \in [Requests -> Request \union {Idle}]
         /\ Busy(r)' /\ req'[r] = new
         /\ \A q \in Requests \ {r} : req'[q] = req[q] /\ (Busy(q)' <=> Busy(q))
<1>1. new # Idle
  BY DEF Request, Idle, Stages
<1> QED BY <1>1 DEF TypeOK, Busy

LEMMA InvInit == Init => StorageInv
<1> SUFFICES ASSUME Init PROVE StorageInv
  OBVIOUS
<1>1. TypeOK
  BY DEF Init, TypeOK
<1>2. \A r \in Requests : ~Busy(r)
  BY DEF Init, Busy
<1>3. \A f \in Files : ~HasRow(f)
  BY DEF Init, HasRow
<1>4. AllDrawn /\ CarriedApart /\ Replaced /\ ListedForPurge /\ MineAccounted
  BY <1>2, <1>3 DEF Init, AllDrawn, CarriedApart, Replaced, ListedForPurge, MineAccounted,
     Carries, At
<1>5. PicturesApart /\ GoneHaveNothing
  BY <1>2, <1>3 DEF Init, PicturesApart, GoneHaveNothing
<1>6. RowsHaveFiles /\ AvatarsHaveFiles /\ NothingOfTheGone
  BY <1>3 DEF Init, RowsHaveFiles, AvatarsHaveFiles, NothingOfTheGone
<1> QED BY <1>1, <1>4, <1>5, <1>6 DEF StorageInv

----------------------------------------------------------------------------
(* A request that ends *)

\* Ending a request costs nothing, except that the files of a deletion that stops before it
\* has unlinked them are abandoned; the files on disk that go may be any that nobody refers
\* to, and that others carry.
LEMMA FinishKeeps ==
  ASSUME StorageInv, NEW r \in Requests, Busy(r), Finish(r), UNCHANGED <<tables, drawn, removed>>,
         disk' \subseteq disk,
         abandoned \subseteq abandoned', abandoned' \subseteq Files,
         \A f \in Files : HasRow(f) => f \in disk',
         \A u \in Users : avatar[u] \in disk => avatar[u] \in disk',
         \A q \in Requests \ {r} : Carries(q) => req[q].file \in disk',
         At(r, "unlink", "deleteAccount") =>
           \A f \in req[r].files : f \notin disk' \/ f \in abandoned'
  PROVE  StorageInv'
<1> USE DEF StorageInv, tables
<1>1. /\ req' \in [Requests -> Request \union {Idle}]
      /\ ~Busy(r)'
      /\ \A q \in Requests \ {r} : req'[q] = req[q] /\ (Busy(q)' <=> Busy(q))
  BY Finished
<1>2. TypeOK'
  BY <1>1 DEF TypeOK
<1>3. \A f \in Files : HasRow(f)' <=> HasRow(f)
  BY DEF HasRow
<1>4. \A q \in Requests : Carries(q)' => Carries(q) /\ q # r
  BY <1>1 DEF Carries
<1>5. AllDrawn'
  BY <1>1, <1>3 DEF AllDrawn
<1>6. CarriedApart'
  BY <1>1, <1>3, <1>4 DEF CarriedApart, HasRow
<1>7. PicturesApart'
  BY <1>1, <1>3 DEF PicturesApart, HasRow
<1>8. Replaced' /\ ListedForPurge' /\ GoneHaveNothing'
  BY <1>1, <1>3 DEF Replaced, ListedForPurge, GoneHaveNothing, At, HasRow
<1>9. RowsHaveFiles' /\ AvatarsHaveFiles' /\ NothingOfTheGone'
  BY <1>3 DEF RowsHaveFiles, AvatarsHaveFiles, NothingOfTheGone
<1>10. MineAccounted'
  <2> SUFFICES ASSUME NEW q \in Requests, Busy(q)', req'[q].op = "deleteAccount",
                      NEW f \in req'[q].mine, f \in disk'
               PROVE  f \in (abandoned \union BeingPurged(q))' \/ Due(q, f)'
    BY DEF MineAccounted
  <2>1. q # r /\ Busy(q) /\ req'[q] = req[q] /\ f \in Files
    BY <1>1, BusyRequest
  <2>2. f \in abandoned \union BeingPurged(q) \/ Due(q, f)
    BY <2>1 DEF MineAccounted
  <2>3. CASE f \in BeingPurged(q)
    <3>1. PICK x \in Requests \ {q} : At(x, "unlink", "deleteAccount") /\ f \in req[x].files
      BY <2>3 DEF BeingPurged
    <3>2. CASE x = r
      BY <3>1, <3>2
    <3>3. CASE x # r
      BY <1>1, <3>1, <3>3 DEF BeingPurged, At
    <3> QED BY <3>2, <3>3
  <2>4. CASE Due(q, f)
    BY <2>1, <2>4, <1>3 DEF Due, HasRow
  <2> QED BY <2>2, <2>3, <2>4
<1> QED BY <1>2, <1>5, <1>6, <1>7, <1>8, <1>9, <1>10

----------------------------------------------------------------------------
(* A request that begins, or goes on *)

\* The deletions of the other requests remain accounted for by a step that takes a file's row
\* only for a purge of its own, or counts it as abandoned.
LEMMA MineKeeps ==
  ASSUME StorageInv, NEW r \in Requests,
         \A q \in Requests \ {r} : req'[q] = req[q] /\ (Busy(q)' <=> Busy(q)),
         ~At(r, "unlink", "deleteAccount"),
         disk' \intersect drawn \subseteq disk,
         abandoned \subseteq abandoned',
         \A f \in Files : HasRow(f) /\ f \notin abandoned' =>
           \/ /\ HasRow(f)' /\ row'[f] = row[f]
              /\ creator'[row[f].room] = creator[row[f].room]
           \/ At(r, "unlink", "deleteAccount")' /\ f \in req'[r].files,
         Busy(r)' /\ req'[r].op = "deleteAccount" =>
           \A f \in req'[r].mine : \/ f \notin disk'
                                   \/ f \in (abandoned \union BeingPurged(r))'
                                   \/ Due(r, f)'
  PROVE  MineAccounted'
<1> USE DEF StorageInv
<1> SUFFICES ASSUME NEW q \in Requests \ {r}, Busy(q)', req'[q].op = "deleteAccount",
                    NEW f \in req'[q].mine, f \in disk', f \notin abandoned'
             PROVE  f \in BeingPurged(q)' \/ Due(q, f)'
  BY DEF MineAccounted
<1>1. Busy(q) /\ req'[q] = req[q] /\ f \in Files /\ f \in drawn /\ f \in disk
  BY BusyRequest DEF AllDrawn
<1>2. f \in BeingPurged(q) \/ Due(q, f)
  BY <1>1 DEF MineAccounted
<1>3. CASE f \in BeingPurged(q)
  <2>1. PICK x \in Requests \ {q} : At(x, "unlink", "deleteAccount") /\ f \in req[x].files
    BY <1>3 DEF BeingPurged
  <2> QED BY <2>1 DEF BeingPurged, At
<1>4. CASE Due(q, f)
  <2>1. CASE HasRow(f) /\ ~(HasRow(f)' /\ row'[f] = row[f]
                            /\ creator'[row[f].room] = creator[row[f].room])
    BY <1>1, <2>1 DEF BeingPurged
  <2>2. CASE HasRow(f) => HasRow(f)' /\ row'[f] = row[f]
                            /\ creator'[row[f].room] = creator[row[f].room]
    BY <1>1, <1>4, <2>2 DEF Due
  <2> QED BY <2>1, <2>2
<1> QED BY <1>2, <1>3, <1>4

LEMMA UploadKeeps ==
  ASSUME StorageInv, NEW r \in Requests, NEW op \in {"attach", "avatar"}, NEW u \in Users,
         NEW m \in SUBSET Rooms, Upload(r, op, u, m)
  PROVE  StorageInv'
<1> USE DEF StorageInv
<1>1. PICK f \in Files \ drawn :
        /\ drawn' = drawn \union {f} /\ disk' = disk \union {f}
        /\ req' = [req EXCEPT ![r] = [Begin("check", op, u) EXCEPT !.file = f, !.rooms = m]]
  BY DEF Upload
<1> DEFINE new == [stage |-> "check", op |-> op, user |-> u, file |-> f, prev |-> NoFile,
                   rooms |-> m, files |-> {}, mine |-> {}]
<1>2. /\ ~Busy(r) /\ alive' = alive /\ avatar' = avatar /\ creator' = creator /\ row' = row
      /\ removed' = removed /\ abandoned' = abandoned
      /\ req' = [req EXCEPT ![r] = new] /\ new \in Request
  BY <1>1 DEF Upload, Begin, Request, Stages, Ops, tables, history
<1>3. /\ req' \in [Requests -> Request \union {Idle}]
      /\ Busy(r)' /\ req'[r].stage = "check" /\ req'[r].op = op /\ req'[r].file = f
      /\ req'[r].prev = NoFile /\ req'[r].files = {} /\ req'[r].mine = {}
      /\ \A q \in Requests \ {r} : req'[q] = req[q] /\ (Busy(q)' <=> Busy(q))
  BY <1>2, Begun
<1>4. \A x \in Files : (HasRow(x)' <=> HasRow(x)) /\ (HasRow(x) => x # f)
  BY <1>2 DEF HasRow, AllDrawn
<1>5. TypeOK'
  BY <1>1, <1>2, <1>3 DEF TypeOK
<1>6. AllDrawn'
  BY <1>1, <1>2, <1>3, <1>4 DEF AllDrawn
<1>7. CarriedApart'
  <2>1. /\ \A x \in Users : avatar'[x] # f
        /\ \A q \in Requests : Busy(q)' => req'[q].prev # f /\ f \notin req'[q].files
        /\ \A q \in Requests \ {r} : Busy(q)' => req'[q].file # f
    BY <1>1, <1>2, <1>3, NoFileAssumption DEF AllDrawn
  <2>2. \A q \in Requests \ {r} : Carries(q)' <=> Carries(q)
    BY <1>3 DEF Carries
  <2>3. \A q \in Requests : Carries(q) /\ Busy(q) => req[q].file \in Files
    BY NoFileAssumption DEF CarriedApart, TypeOK
  <2>4. \A q \in Requests \ {r} : Carries(q)' =>
          /\ req'[q].file \in disk' /\ ~HasRow(req[q].file)'
          /\ \A x \in Users : avatar'[x] # req'[q].file
    BY <1>1, <1>2, <1>3, <2>2 DEF CarriedApart, HasRow, Carries
  <2>5. req'[r].file = f /\ f \in disk' /\ ~HasRow(f)'
    BY <1>1, <1>3, <1>4
  <2>6. \A q \in Requests : Carries(q)' =>
          /\ req'[q].file \in disk' /\ ~HasRow(req[q].file)'
          /\ \A x \in Users : avatar'[x] # req'[q].file
    BY <2>1, <2>4, <2>5 DEF HasRow
  <2>7. \A q \in Requests, x \in Requests : Carries(q)' /\ Busy(x)' =>
          /\ req'[x].prev # req'[q].file /\ req'[q].file \notin req'[x].files
          /\ x # q /\ Carries(x)' => req'[x].file # req'[q].file
    BY <1>3, <2>1, <2>2, <2>3, <2>5, NoFileAssumption DEF CarriedApart, Carries
  <2> SUFFICES ASSUME NEW q \in Requests, Carries(q)'
               PROVE  \A x \in Requests : Busy(x)' =>
                        /\ req'[x].prev # req'[q].file /\ req'[q].file \notin req'[x].files
                        /\ x # q /\ Carries(x)' => req'[x].file # req'[q].file
    BY <2>6 DEF CarriedApart
  <2> QED BY <2>7
<1>8. PicturesApart'
  BY <1>2, <1>3 DEF PicturesApart, HasRow
<1>9. Replaced' /\ ListedForPurge' /\ GoneHaveNothing'
  BY <1>2, <1>3, <1>4 DEF Replaced, ListedForPurge, GoneHaveNothing, At, HasRow
<1>10. RowsHaveFiles' /\ AvatarsHaveFiles' /\ NothingOfTheGone'
  BY <1>1, <1>2, <1>4 DEF RowsHaveFiles, AvatarsHaveFiles, NothingOfTheGone
<1>11. MineAccounted'
  BY <1>1, <1>2, <1>3, <1>4, MineKeeps DEF At
<1> QED BY <1>5, <1>6, <1>7, <1>8, <1>9, <1>10, <1>11

\* A step of one request that touches neither tables nor files.
LEMMA ReadKeeps ==
  ASSUME StorageInv, NEW r \in Requests, UNCHANGED <<tables, disk, drawn, history>>,
         req' \in [Requests -> Request \union {Idle}], Busy(r)',
         ~At(r, "unlink", "deleteAccount"),
         \A q \in Requests \ {r} : req'[q] = req[q] /\ (Busy(q)' <=> Busy(q)),
         Carries(r)' => Carries(r) /\ req'[r].file = req[r].file,
         {req'[r].file, req'[r].prev} \subseteq drawn \union {NoFile},
         req'[r].files \subseteq drawn, req'[r].mine \subseteq drawn,
         req'[r].prev # NoFile =>
           /\ \/ Busy(r) /\ req'[r].prev = req[r].prev
              \/ \E u \in Users : req'[r].prev = avatar[u]
           /\ ~HasRow(req'[r].prev)
           /\ \A v \in Users \ {req'[r].user} : avatar[v] # req'[r].prev,
         \A f \in req'[r].files :
           \/ Busy(r) /\ f \in req[r].files
           \/ f = req'[r].prev
           \/ HasRow(f),
         \A f \in req'[r].files, v \in Users : avatar[v] = f => f = req'[r].prev,
         req'[r].op = "removeAvatar" => req'[r].prev # NoFile,
         ~At(r, "unlink", "avatar")', ~At(r, "unlink", "deleteAccount")',
         At(r, "transaction", "deleteAccount")' =>
           /\ req'[r].prev \in req'[r].files \union {NoFile}
           /\ \A f \in req'[r].files : HasRow(f) =>
                row[f].uploader = req'[r].user \/ row[f].room \in req'[r].rooms,
         req'[r].op = "deleteAccount" =>
           \A f \in req'[r].mine : \/ f \notin disk
                                   \/ f \in abandoned \union BeingPurged(r)
                                   \/ Due(r, f)'
  PROVE  StorageInv'
<1> USE DEF StorageInv
<1>0. /\ alive' = alive /\ avatar' = avatar /\ creator' = creator /\ row' = row
      /\ disk' = disk /\ drawn' = drawn /\ removed' = removed /\ abandoned' = abandoned
  BY DEF tables, history
<1>1. \A f \in Files : HasRow(f)' <=> HasRow(f)
  BY <1>0 DEF HasRow
<1>2. TypeOK'
  BY <1>0 DEF TypeOK
<1>3. AllDrawn'
  BY <1>0, <1>1 DEF AllDrawn
<1>4. CarriedApart'
  <2>1. \A q \in Requests : Carries(q)' => Carries(q) /\ Busy(q) /\ req'[q].file = req[q].file
    BY DEF Carries
  <2>2. \A q \in Requests : Carries(q)' =>
          /\ req'[q].file \in disk' /\ ~HasRow(req[q].file)'
          /\ \A x \in Users : avatar'[x] # req'[q].file
    BY <1>0, <2>1 DEF CarriedApart, HasRow
  <2>3. \A q \in Requests, x \in Requests \ {r} : Carries(q)' /\ Busy(x)' =>
          /\ req'[x].prev # req'[q].file /\ req'[q].file \notin req'[x].files
          /\ x # q /\ Carries(x)' => req'[x].file # req'[q].file
    BY <2>1 DEF CarriedApart
  <2>4. \A q \in Requests : Carries(q)' =>
          /\ req'[r].prev # req'[q].file /\ req'[q].file \notin req'[r].files
          /\ r # q /\ Carries(r)' => req'[r].file # req'[q].file
    <3> SUFFICES ASSUME NEW q \in Requests, Carries(q)'
                 PROVE  /\ req'[r].prev # req'[q].file /\ req'[q].file \notin req'[r].files
                        /\ r # q /\ Carries(r)' => req'[r].file # req'[q].file
      OBVIOUS
    <3>1. Carries(q) /\ Busy(q) /\ req'[q].file = req[q].file /\ req[q].file \in Files
          /\ req[q].file # NoFile
      BY <2>1, NoFileAssumption DEF CarriedApart, TypeOK
    <3>2. req'[r].prev # req'[q].file
      BY <3>1 DEF CarriedApart
    <3>3. req'[q].file \notin req'[r].files
      BY <3>1, <3>2 DEF CarriedApart
    <3>4. r # q /\ Carries(r)' => req'[r].file # req'[q].file
      BY <2>1, <3>1 DEF CarriedApart
    <3> QED BY <3>2, <3>3, <3>4
  <2> SUFFICES ASSUME NEW q \in Requests, Carries(q)'
               PROVE  \A x \in Requests : Busy(x)' =>
                        /\ req'[x].prev # req'[q].file /\ req'[q].file \notin req'[x].files
                        /\ x # q /\ Carries(x)' => req'[x].file # req'[q].file
    BY <2>2 DEF CarriedApart
  <2> QED BY <2>3, <2>4
<1>5. PicturesApart'
  BY <1>0 DEF PicturesApart, HasRow
<1>6. Replaced' /\ GoneHaveNothing'
  BY <1>0 DEF Replaced, GoneHaveNothing, At
<1>7. ListedForPurge'
  BY <1>0, <1>1 DEF ListedForPurge, At, HasRow
<1>8. RowsHaveFiles' /\ AvatarsHaveFiles' /\ NothingOfTheGone'
  BY <1>0, <1>1 DEF RowsHaveFiles, AvatarsHaveFiles, NothingOfTheGone
<1>9. BeingPurged(r)' = BeingPurged(r)
  BY DEF BeingPurged, At
<1>10. MineAccounted'
  BY <1>0, <1>1, <1>9, MineKeeps
<1> QED BY <1>2, <1>3, <1>4, <1>5, <1>6, <1>7, <1>8, <1>10

----------------------------------------------------------------------------
(* Attachments and rooms *)

LEMMA CheckKeeps ==
  ASSUME StorageInv, NEW r \in Requests, Check(r)
  PROVE  StorageInv'
<1> USE DEF StorageInv
<1>1. Busy(r) /\ req[r].op = "attach" /\ req[r].stage = "check"
  BY DEF Check, At
<1>2. CASE Finish(r)
  BY <1>1, <1>2, FinishKeeps
     DEF Check, tables, history, RowsHaveFiles, CarriedApart, TypeOK, At
<1>3. CASE Proceed(r, "create")
  <2>1. "create" \in Stages
    BY DEF Stages
  <2>2. /\ req' \in [Requests -> Request \union {Idle}]
        /\ Busy(r)' /\ req'[r].stage = "create" /\ req'[r].op = "attach"
        /\ req'[r].file = req[r].file /\ req'[r].prev = req[r].prev
        /\ req'[r].user = req[r].user
        /\ req'[r].files = req[r].files /\ req'[r].mine = req[r].mine
        /\ \A q \in Requests \ {r} : req'[q] = req[q] /\ (Busy(q)' <=> Busy(q))
    BY <1>1, <1>3, <2>1, Proceeded
  <2>3. UNCHANGED <<tables, disk, drawn, history>>
    BY DEF Check
  <2> QED BY <1>1, <2>2, <2>3, ReadKeeps
          DEF Carries, At, AllDrawn, PicturesApart, ListedForPurge
<1> QED BY <1>2, <1>3 DEF Check

LEMMA CreateKeeps ==
  ASSUME StorageInv, NEW r \in Requests, Create(r)
  PROVE  StorageInv'
<1> USE DEF StorageInv
<1>1. /\ Busy(r) /\ req[r].op = "attach" /\ req[r].stage = "create" /\ Finish(r)
      /\ Carries(r)
      /\ alive' = alive /\ avatar' = avatar /\ creator' = creator /\ disk' = disk
      /\ drawn' = drawn /\ removed' = removed /\ abandoned' = abandoned
  BY DEF Create, At, Carries, history
<1>2. PICK m \in Rooms :
        row' = IF req[r].user \in alive /\ creator[m] # Nobody
               THEN [row EXCEPT ![req[r].file] = [uploader |-> req[r].user, room |-> m]]
               ELSE row
  BY <1>1, BusyRequest DEF Create
<1>3. CASE row' = row
  BY <1>1, <1>3, FinishKeeps DEF tables, RowsHaveFiles, CarriedApart, TypeOK, At
<1>4. CASE /\ req[r].user \in alive /\ creator[m] # Nobody
           /\ row' = [row EXCEPT ![req[r].file] = [uploader |-> req[r].user, room |-> m]]
  <2>1. PICK f \in Files, u \in Users : f = req[r].file /\ u = req[r].user
    BY <1>1, BusyRequest DEF CarriedApart, TypeOK
  <2> DEFINE new == [uploader |-> u, room |-> m]
  <2>2. /\ f \in disk /\ f \in drawn /\ ~HasRow(f)
        /\ \A x \in Users : avatar[x] # f
        /\ \A q \in Requests : Busy(q) =>
             /\ req[q].prev # f /\ f \notin req[q].files
             /\ q # r /\ Carries(q) => req[q].file # f
    BY <1>1, <2>1 DEF CarriedApart, AllDrawn
  <2>3. /\ new \in Row
        /\ new # NoRow
    BY <2>1, NobodyAssumption DEF Row, NoRow
  <2>4. /\ row' \in [Files -> Row \union {NoRow}]
        /\ row'[f] = new
        /\ \A x \in Files \ {f} : row'[x] = row[x]
    BY <1>4, <2>1, <2>3 DEF TypeOK
  <2>5. /\ req' \in [Requests -> Request \union {Idle}]
        /\ ~Busy(r)'
        /\ \A q \in Requests \ {r} : req'[q] = req[q] /\ (Busy(q)' <=> Busy(q))
    BY <1>1, Finished
  <2>6. \A x \in Files : HasRow(x)' <=> HasRow(x) \/ x = f
    BY <2>3, <2>4 DEF HasRow
  <2>7. TypeOK'
    BY <1>1, <2>4, <2>5 DEF TypeOK
  <2>8. AllDrawn'
    BY <1>1, <2>2, <2>5, <2>6 DEF AllDrawn
  <2>9. CarriedApart'
    <3>1. \A q \in Requests : Carries(q)' => /\ Carries(q) /\ Busy(q) /\ q # r
                                            /\ req'[q].file = req[q].file
                                            /\ req[q].file \in Files \ {f}
      BY <2>2, <2>5 DEF Carries, CarriedApart, TypeOK
    <3> QED BY <1>1, <2>4, <2>5, <3>1 DEF CarriedApart, HasRow
  <2>10. PicturesApart'
    BY <1>1, <2>2, <2>4, <2>5, BusyRequest DEF PicturesApart, HasRow, TypeOK
  <2>11. Replaced' /\ GoneHaveNothing'
    BY <1>1, <2>5 DEF Replaced, GoneHaveNothing, At
  <2>12. ListedForPurge'
    BY <1>1, <2>2, <2>4, <2>5, BusyRequest DEF ListedForPurge, At, HasRow
  <2>13. RowsHaveFiles' /\ AvatarsHaveFiles'
    BY <1>1, <2>2, <2>6 DEF RowsHaveFiles, AvatarsHaveFiles
  <2>14. NothingOfTheGone'
    BY <1>1, <1>4, <2>1, <2>4, <2>6 DEF NothingOfTheGone, GoneHaveNothing
  <2>15. MineAccounted'
    BY <1>1, <2>2, <2>4, <2>5, <2>6, MineKeeps DEF At, HasRow
  <2> QED BY <2>7, <2>8, <2>9, <2>10, <2>11, <2>12, <2>13, <2>14, <2>15
<1> QED BY <1>2, <1>3, <1>4

LEMMA CreateRoomKeeps ==
  ASSUME StorageInv, NEW u \in Users, NEW m \in Rooms, CreateRoom(u, m)
  PROVE  StorageInv'
<1> USE DEF StorageInv
<1>1. /\ u \in alive /\ creator[m] = Nobody
      /\ creator' = [creator EXCEPT ![m] = u]
      /\ alive' = alive /\ avatar' = avatar /\ row' = row /\ disk' = disk /\ drawn' = drawn
      /\ req' = req /\ removed' = removed /\ abandoned' = abandoned
  BY DEF CreateRoom, history
<1>2. \A f \in Files : /\ HasRow(f)' <=> HasRow(f)
                       /\ HasRow(f) => /\ row[f].room \in Rooms
                                       /\ creator'[row[f].room] = creator[row[f].room]
  BY <1>1, NobodyAssumption DEF HasRow, NothingOfTheGone, TypeOK, Row
<1>3. TypeOK' /\ AllDrawn' /\ CarriedApart'
  BY <1>1, <1>2 DEF TypeOK, AllDrawn, CarriedApart, Carries, Busy, HasRow
<1>4. PicturesApart' /\ Replaced' /\ ListedForPurge' /\ GoneHaveNothing'
  BY <1>1, <1>2 DEF PicturesApart, Replaced, ListedForPurge, GoneHaveNothing, Busy, At, HasRow,
     TypeOK
<1>5. RowsHaveFiles' /\ AvatarsHaveFiles' /\ NothingOfTheGone'
  BY <1>1, <1>2 DEF RowsHaveFiles, AvatarsHaveFiles, NothingOfTheGone
<1>6. MineAccounted'
  <2> SUFFICES ASSUME NEW q \in Requests, Busy(q), req[q].op = "deleteAccount",
                      NEW f \in req[q].mine, f \in disk, f \notin abandoned
               PROVE  f \in BeingPurged(q)' \/ Due(q, f)'
    BY <1>1 DEF MineAccounted, Busy
  <2>1. f \in BeingPurged(q) \/ Due(q, f)
    BY DEF MineAccounted
  <2>2. f \in Files
    BY BusyRequest
  <2>3. BeingPurged(q)' = BeingPurged(q)
    BY <1>1 DEF BeingPurged, At, Busy
  <2>4. Due(q, f) => Due(q, f)'
    BY <1>1, <1>2, <2>2 DEF Due, HasRow
  <2> QED BY <2>1, <2>3, <2>4
<1> QED BY <1>3, <1>4, <1>5, <1>6

----------------------------------------------------------------------------
(* Profile pictures *)

LEMMA CheckAvatarKeeps ==
  ASSUME StorageInv, NEW r \in Requests, CheckAvatar(r)
  PROVE  StorageInv'
<1> USE DEF StorageInv
<1>1. /\ Busy(r) /\ req[r].op = "avatar" /\ req[r].stage = "check" /\ Carries(r)
      /\ UNCHANGED <<tables, drawn, history>>
  BY DEF CheckAvatar, At, Carries
<1>2. CASE Finish(r) /\ disk' = disk \ {req[r].file}
  BY <1>1, <1>2, FinishKeeps
     DEF tables, history, RowsHaveFiles, CarriedApart, TypeOK, At, Carries
<1>3. CASE Proceed(r, "readPrevious") /\ UNCHANGED disk
  <2>1. "readPrevious" \in Stages
    BY DEF Stages
  <2>2. /\ req' \in [Requests -> Request \union {Idle}]
        /\ Busy(r)' /\ req'[r].stage = "readPrevious" /\ req'[r].op = "avatar"
        /\ req'[r].file = req[r].file /\ req'[r].prev = req[r].prev
        /\ req'[r].user = req[r].user
        /\ req'[r].files = req[r].files /\ req'[r].mine = req[r].mine
        /\ \A q \in Requests \ {r} : req'[q] = req[q] /\ (Busy(q)' <=> Busy(q))
    BY <1>1, <1>3, <2>1, Proceeded
  <2> QED BY <1>1, <1>3, <2>2, ReadKeeps
          DEF Carries, At, AllDrawn, PicturesApart, ListedForPurge
<1> QED BY <1>2, <1>3 DEF CheckAvatar

\* The picture of a user, when it is read.
LEMMA PictureRead ==
  ASSUME StorageInv, NEW u \in Users, avatar[u] # NoFile
  PROVE  /\ avatar[u] \in Files /\ avatar[u] \in drawn
         /\ ~HasRow(avatar[u])
         /\ \A v \in Users \ {u} : avatar[v] # avatar[u]
BY DEF StorageInv, TypeOK, AllDrawn, PicturesApart

LEMMA ReadPreviousKeeps ==
  ASSUME StorageInv, NEW r \in Requests, ReadPreviousAvatar(r)
  PROVE  StorageInv'
<1> USE DEF StorageInv
<1>1. /\ Busy(r) /\ req[r].op = "avatar" /\ req[r].stage = "readPrevious" /\ Carries(r)
      /\ UNCHANGED <<tables, drawn, history>>
  BY DEF ReadPreviousAvatar, At, Carries
<1>2. CASE Finish(r) /\ disk' = disk \ {req[r].file}
  BY <1>1, <1>2, FinishKeeps
     DEF tables, history, RowsHaveFiles, CarriedApart, TypeOK, At, Carries
<1>3. CASE /\ req' = [req EXCEPT ![r].stage = "update", ![r].prev = avatar[req[r].user]]
           /\ UNCHANGED disk
  <2>1. PICK u \in Users : u = req[r].user /\ req[r] \in Request
    BY <1>1, BusyRequest
  <2> DEFINE new == [req[r] EXCEPT !.stage = "update", !.prev = avatar[u]]
  <2>2. /\ new \in Request /\ new.stage = "update" /\ new.op = "avatar" /\ new.user = u
        /\ new.file = req[r].file /\ new.prev = avatar[u]
        /\ new.files = req[r].files /\ new.mine = req[r].mine
    BY <1>1, <2>1 DEF TypeOK, Request, Stages
  <2>3. new # Idle
    BY <2>2 DEF Idle
  <2>4. /\ req' \in [Requests -> Request \union {Idle}]
        /\ Busy(r)' /\ req'[r] = new
        /\ \A q \in Requests \ {r} : req'[q] = req[q] /\ (Busy(q)' <=> Busy(q))
    BY <1>3, <2>1, <2>2, <2>3 DEF TypeOK, Busy
  <2>5. \A f \in new.files, v \in Users : avatar[v] = f => f = new.prev
    BY <1>1, <2>1, <2>2, BusyRequest, NoFileAssumption DEF ListedForPurge, PicturesApart
  <2>6. avatar[u] \in drawn \union {NoFile}
    BY DEF AllDrawn
  <2>7. /\ req'[r].stage = "update" /\ req'[r].op = "avatar" /\ req'[r].user = u
        /\ req'[r].file = req[r].file /\ req'[r].prev = avatar[u]
        /\ req'[r].files = req[r].files /\ req'[r].mine = req[r].mine
    BY <2>2, <2>4
  <2> HIDE DEF new
  <2>8. /\ {req'[r].file, req'[r].prev} \subseteq drawn \union {NoFile}
        /\ req'[r].files \subseteq drawn /\ req'[r].mine \subseteq drawn
    BY <1>1, <2>6, <2>7 DEF AllDrawn
  <2>9. /\ Carries(r)' => Carries(r) /\ req'[r].file = req[r].file
        /\ ~At(r, "unlink", "deleteAccount") /\ ~At(r, "unlink", "deleteAccount")'
        /\ ~At(r, "unlink", "avatar")' /\ ~At(r, "transaction", "deleteAccount")'
    BY <1>1, <2>7 DEF At
  <2> QED BY <1>1, <1>3, <2>4, <2>5, <2>7, <2>8, <2>9, PictureRead, ReadKeeps
<1> QED BY <1>2, <1>3 DEF ReadPreviousAvatar

LEMMA UpdateAvatarKeeps ==
  ASSUME StorageInv, NEW r \in Requests, UpdateAvatar(r)
  PROVE  StorageInv'
<1> USE DEF StorageInv
<1>1. /\ Busy(r) /\ req[r].op = "avatar" /\ req[r].stage = "update" /\ Carries(r)
      /\ alive' = alive /\ creator' = creator /\ row' = row /\ disk' = disk
      /\ drawn' = drawn /\ removed' = removed /\ abandoned' = abandoned
  BY DEF UpdateAvatar, At, Carries, history
<1>2. CASE Finish(r) /\ UNCHANGED avatar
  BY <1>1, <1>2, FinishKeeps DEF tables, RowsHaveFiles, CarriedApart, TypeOK, At
<1>3. CASE /\ req[r].user \in alive
           /\ Proceed(r, "unlink") /\ avatar' = [avatar EXCEPT ![req[r].user] = req[r].file]
  <2>1. PICK f \in Files, u \in Users : f = req[r].file /\ u = req[r].user
    BY <1>1, BusyRequest DEF CarriedApart, TypeOK
  <2>2. /\ f \in disk /\ f \in drawn /\ ~HasRow(f) /\ f # NoFile
        /\ \A x \in Users : avatar[x] # f
        /\ \A q \in Requests : Busy(q) =>
             /\ req[q].prev # f /\ f \notin req[q].files
             /\ q # r /\ Carries(q) => req[q].file # f
    BY <1>1, <2>1, NoFileAssumption DEF CarriedApart, AllDrawn
  <2>3. /\ avatar' \in [Users -> Files \union {NoFile}]
        /\ avatar'[u] = f
        /\ \A v \in Users \ {u} : avatar'[v] = avatar[v]
    BY <1>3, <2>1 DEF TypeOK
  <2>4. "unlink" \in Stages
    BY DEF Stages
  <2>5. /\ req' \in [Requests -> Request \union {Idle}]
        /\ Busy(r)' /\ req'[r].stage = "unlink" /\ req'[r].op = "avatar"
        /\ req'[r].file = req[r].file /\ req'[r].prev = req[r].prev
        /\ req'[r].user = req[r].user
        /\ req'[r].files = req[r].files /\ req'[r].mine = req[r].mine
        /\ \A q \in Requests \ {r} : req'[q] = req[q] /\ (Busy(q)' <=> Busy(q))
    BY <1>1, <1>3, <2>4, Proceeded
  <2>6. \A q \in Requests : Busy(q)' => /\ Busy(q) /\ req'[q].file = req[q].file
                                        /\ req'[q].prev = req[q].prev
                                        /\ req'[q].user = req[q].user
                                        /\ req'[q].files = req[q].files
                                        /\ req'[q].mine = req[q].mine
                                        /\ req'[q].op = req[q].op
    BY <1>1, <2>5
  <2>7. \A q \in Requests : Carries(q)' => Carries(q) /\ q # r /\ req[q].file # f
    BY <2>2, <2>5 DEF Carries
  <2>8. TypeOK' /\ AllDrawn'
    BY <1>1, <2>2, <2>3, <2>5, <2>6 DEF TypeOK, AllDrawn, HasRow
  <2>9. CarriedApart'
    <3> SUFFICES ASSUME NEW q \in Requests, Carries(q)'
                 PROVE  /\ req'[q].file \in disk' /\ ~HasRow(req[q].file)'
                        /\ \A x \in Users : avatar'[x] # req'[q].file
                        /\ \A x \in Requests : Busy(x)' =>
                             /\ req'[x].prev # req'[q].file
                             /\ req'[q].file \notin req'[x].files
                             /\ x # q /\ Carries(x)' => req'[x].file # req'[q].file
      BY DEF CarriedApart
    <3>1. Carries(q) /\ Busy(q) /\ req'[q].file = req[q].file /\ req[q].file # f
      BY <2>6, <2>7 DEF Carries
    <3>2. /\ req[q].file \in disk' /\ ~HasRow(req[q].file)'
          /\ \A x \in Users : avatar'[x] # req[q].file
      BY <1>1, <2>3, <3>1 DEF CarriedApart, HasRow
    <3> QED BY <2>6, <2>7, <3>1, <3>2 DEF CarriedApart, HasRow
  <2>10. PicturesApart'
    BY <1>1, <2>2, <2>3, <2>6 DEF PicturesApart, HasRow
  <2>11. Replaced'
    <3> SUFFICES ASSUME NEW q \in Requests, At(q, "unlink", "avatar")'
                 PROVE  req'[q].prev = NoFile \/ avatar'[req'[q].user] # req'[q].prev
      BY DEF Replaced
    <3>1. Busy(q) /\ req'[q].user \in Users /\ req'[q].prev # f
      BY <2>2, <2>6, BusyRequest DEF At
    <3>2. CASE req'[q].user = u
      BY <2>3, <3>1, <3>2
    <3>3. CASE req'[q].user # u
      BY <2>1, <2>3, <2>5, <3>1, <3>3 DEF Replaced, At
    <3> QED BY <3>2, <3>3
  <2>12. GoneHaveNothing'
    BY <1>1, <1>3, <2>1, <2>3 DEF GoneHaveNothing
  <2>13. ListedForPurge'
    <3>1. \A q \in Requests : Busy(q)' =>
            \A x \in req'[q].files, v \in Users : avatar'[v] = x => x = req'[q].prev
      BY <2>2, <2>3, <2>6 DEF ListedForPurge
    <3> QED BY <1>1, <2>5, <3>1 DEF ListedForPurge, At, HasRow
  <2>14. RowsHaveFiles' /\ AvatarsHaveFiles' /\ NothingOfTheGone'
    BY <1>1, <2>2, <2>3 DEF RowsHaveFiles, AvatarsHaveFiles, NothingOfTheGone, HasRow
  <2>15. MineAccounted'
    BY <1>1, <2>5, MineKeeps DEF At, HasRow
  <2> QED BY <2>8, <2>9, <2>10, <2>11, <2>12, <2>13, <2>14, <2>15
<1> QED BY <1>2, <1>3 DEF UpdateAvatar

LEMMA UnlinkPreviousKeeps ==
  ASSUME StorageInv, NEW r \in Requests, UnlinkPrevious(r)
  PROVE  StorageInv'
<1> USE DEF StorageInv
<1>1. /\ Busy(r) /\ req[r].op = "avatar" /\ req[r].stage = "unlink" /\ Finish(r)
      /\ disk' = disk \ {req[r].prev} /\ UNCHANGED <<tables, drawn, history>>
  BY DEF UnlinkPrevious, At
<1>2. req[r].prev # NoFile => /\ ~HasRow(req[r].prev)
                              /\ \A u \in Users : avatar[u] # req[r].prev
  BY <1>1 DEF PicturesApart, Replaced, At
<1>3. \A f \in Files : HasRow(f) => f \in disk'
  BY <1>1, <1>2, NoFileAssumption DEF RowsHaveFiles
<1>4. \A u \in Users : avatar[u] \in disk => avatar[u] \in disk'
  BY <1>1, <1>2, NoFileAssumption DEF TypeOK
<1>5. \A q \in Requests \ {r} : Carries(q) => req[q].file \in disk'
  BY <1>1 DEF CarriedApart
<1> QED BY <1>1, <1>3, <1>4, <1>5, FinishKeeps DEF history, TypeOK, At

LEMMA StartRemoveAvatarKeeps ==
  ASSUME StorageInv, NEW r \in Requests, NEW u \in Users, StartRemoveAvatar(r, u)
  PROVE  StorageInv'
<1> USE DEF StorageInv
<1> DEFINE new == [stage |-> "unlink", op |-> "removeAvatar", user |-> u, file |-> NoFile,
                   prev |-> avatar[u], rooms |-> {}, files |-> {}, mine |-> {}]
<1>1. /\ ~Busy(r) /\ avatar[u] # NoFile
      /\ UNCHANGED <<tables, disk, drawn, history>>
      /\ req' = [req EXCEPT ![r] = new]
  <2>1. [Begin("unlink", "removeAvatar", u) EXCEPT !.prev = avatar[u]] = new
    BY DEF Begin
  <2> QED BY <2>1 DEF StartRemoveAvatar
<1>a. new \in Request
  BY DEF Request, Stages, Ops, TypeOK
<1>2. /\ req' \in [Requests -> Request \union {Idle}]
      /\ Busy(r)' /\ req'[r] = new
      /\ \A q \in Requests \ {r} : req'[q] = req[q] /\ (Busy(q)' <=> Busy(q))
  BY <1>1, <1>a, Begun
<1> QED BY <1>1, <1>2, PictureRead, ReadKeeps DEF At, Carries

LEMMA UnlinkAvatarKeeps ==
  ASSUME StorageInv, NEW r \in Requests, UnlinkAvatar(r)
  PROVE  StorageInv'
<1> USE DEF StorageInv
<1>1. /\ Busy(r) /\ req[r].op = "removeAvatar" /\ req[r].stage = "unlink"
      /\ Proceed(r, "update")
      /\ alive' = alive /\ avatar' = avatar /\ creator' = creator /\ row' = row
      /\ disk' = disk \ {req[r].prev} /\ drawn' = drawn
      /\ removed' = removed \union {req[r].prev} /\ abandoned' = abandoned
  BY DEF UnlinkAvatar, At, tables
<1>2. "update" \in Stages
  BY DEF Stages
<1>3. /\ req' \in [Requests -> Request \union {Idle}]
      /\ Busy(r)' /\ req'[r].stage = "update" /\ req'[r].op = "removeAvatar"
      /\ req'[r].file = req[r].file /\ req'[r].prev = req[r].prev
      /\ req'[r].user = req[r].user
      /\ req'[r].files = req[r].files /\ req'[r].mine = req[r].mine
      /\ \A q \in Requests \ {r} : req'[q] = req[q] /\ (Busy(q)' <=> Busy(q))
  BY <1>1, <1>2, Proceeded
<1>4. req[r].prev # NoFile => ~HasRow(req[r].prev)
  BY <1>1 DEF PicturesApart
<1>5. \A q \in Requests : Carries(q)' => Carries(q) /\ Busy(q) /\ q # r
  BY <1>3 DEF Carries
<1>6. TypeOK'
  <2>1. req[r].prev \in Files
    BY <1>1, BusyRequest DEF PicturesApart
  <2> QED BY <1>1, <1>3, <2>1 DEF TypeOK
<1>7. AllDrawn'
  BY <1>1, <1>3 DEF AllDrawn, HasRow
<1>8. CarriedApart'
  <2> SUFFICES ASSUME NEW q \in Requests, Carries(q)'
               PROVE  /\ req'[q].file \in disk' /\ ~HasRow(req[q].file)'
                      /\ \A x \in Users : avatar'[x] # req'[q].file
                      /\ \A x \in Requests : Busy(x)' =>
                           /\ req'[x].prev # req'[q].file
                           /\ req'[q].file \notin req'[x].files
                           /\ x # q /\ Carries(x)' => req'[x].file # req'[q].file
    BY DEF CarriedApart
  <2>1. Carries(q) /\ Busy(q) /\ q # r /\ req'[q] = req[q] /\ req[q].file # req[r].prev
    BY <1>1, <1>3, <1>5 DEF CarriedApart
  <2>2. /\ req[q].file \in disk' /\ ~HasRow(req[q].file)'
        /\ \A x \in Users : avatar'[x] # req[q].file
    BY <1>1, <2>1 DEF CarriedApart, HasRow
  <2> QED BY <1>1, <1>3, <1>5, <2>1, <2>2 DEF CarriedApart, HasRow
<1>9. PicturesApart' /\ GoneHaveNothing'
  BY <1>1, <1>3 DEF PicturesApart, GoneHaveNothing, HasRow
<1>10. Replaced' /\ ListedForPurge'
  BY <1>1, <1>3 DEF Replaced, ListedForPurge, At, HasRow
<1>11. RowsHaveFiles' /\ AvatarsHaveFiles' /\ NothingOfTheGone'
  BY <1>1, <1>4 DEF RowsHaveFiles, AvatarsHaveFiles, NothingOfTheGone, HasRow, PicturesApart
<1>12. MineAccounted'
  BY <1>1, <1>3, MineKeeps DEF At, HasRow
<1> QED BY <1>6, <1>7, <1>8, <1>9, <1>10, <1>11, <1>12

LEMMA ClearAvatarKeeps ==
  ASSUME StorageInv, NEW r \in Requests, ClearAvatar(r)
  PROVE  StorageInv'
<1> USE DEF StorageInv
<1>1. /\ Busy(r) /\ req[r].op = "removeAvatar" /\ req[r].stage = "update" /\ Finish(r)
      /\ alive' = alive /\ creator' = creator /\ row' = row /\ disk' = disk /\ drawn' = drawn
      /\ removed' = removed /\ abandoned' = abandoned
  BY DEF ClearAvatar, At, history
<1>2. /\ avatar' \in [Users -> Files \union {NoFile}]
      /\ \A u \in Users : avatar'[u] \in {avatar[u], NoFile}
  BY <1>1, BusyRequest DEF ClearAvatar, TypeOK
<1>3. /\ req' \in [Requests -> Request \union {Idle}]
      /\ ~Busy(r)'
      /\ \A q \in Requests \ {r} : req'[q] = req[q] /\ (Busy(q)' <=> Busy(q))
  BY <1>1, Finished
<1>4. TypeOK' /\ AllDrawn'
  BY <1>1, <1>2, <1>3 DEF TypeOK, AllDrawn, HasRow
<1>5. CarriedApart'
  <2> SUFFICES ASSUME NEW q \in Requests, Carries(q)'
               PROVE  /\ req'[q].file \in disk' /\ ~HasRow(req[q].file)'
                      /\ \A x \in Users : avatar'[x] # req'[q].file
                      /\ \A x \in Requests : Busy(x)' =>
                           /\ req'[x].prev # req'[q].file
                           /\ req'[q].file \notin req'[x].files
                           /\ x # q /\ Carries(x)' => req'[x].file # req'[q].file
    BY DEF CarriedApart
  <2>1. Carries(q) /\ Busy(q) /\ q # r /\ req'[q] = req[q] /\ req[q].file \in Files
    BY <1>3 DEF Carries, CarriedApart, TypeOK
  <2>2. /\ req[q].file \in disk' /\ ~HasRow(req[q].file)'
        /\ \A x \in Users : avatar'[x] # req[q].file
    BY <1>1, <1>2, <2>1, NoFileAssumption DEF CarriedApart, HasRow
  <2> QED BY <1>3, <2>1, <2>2 DEF CarriedApart, Carries
<1>6. PicturesApart'
  <2>1. \A u \in Users : avatar'[u] # NoFile =>
          ~HasRow(avatar[u])' /\ avatar'[u] = avatar[u]
          /\ \A v \in Users \ {u} : avatar'[v] # avatar'[u]
    BY <1>1, <1>2 DEF PicturesApart, HasRow
  <2> QED BY <1>1, <1>2, <1>3, <2>1 DEF PicturesApart, HasRow
<1>7. Replaced'
  <2> SUFFICES ASSUME NEW q \in Requests, At(q, "unlink", "avatar")', req'[q].prev # NoFile
               PROVE  avatar'[req'[q].user] # req'[q].prev
    BY DEF Replaced
  <2>1. At(q, "unlink", "avatar") /\ req'[q] = req[q] /\ req[q].user \in Users
    BY <1>3, BusyRequest DEF At
  <2> QED BY <1>2, <2>1 DEF Replaced
<1>8. ListedForPurge'
  <2> SUFFICES ASSUME NEW q \in Requests, Busy(q)'
               PROVE  \A f \in req'[q].files, v \in Users : avatar'[v] = f => f = req'[q].prev
    BY <1>1, <1>3 DEF ListedForPurge, At, HasRow
  <2>1. Busy(q) /\ req'[q] = req[q] /\ req[q].files \subseteq Files
    BY <1>3, BusyRequest
  <2> QED BY <1>2, <2>1, NoFileAssumption DEF ListedForPurge
<1>9. GoneHaveNothing'
  BY <1>1, <1>2 DEF GoneHaveNothing
<1>10. RowsHaveFiles' /\ AvatarsHaveFiles' /\ NothingOfTheGone'
  BY <1>1, <1>2 DEF RowsHaveFiles, AvatarsHaveFiles, NothingOfTheGone, HasRow
<1>11. MineAccounted'
  BY <1>1, <1>3, MineKeeps DEF At, HasRow
<1> QED BY <1>4, <1>5, <1>6, <1>7, <1>8, <1>9, <1>10, <1>11

----------------------------------------------------------------------------
(* The deletion of an account *)

LEMMA StartDeleteAccountKeeps ==
  ASSUME StorageInv, NEW r \in Requests, NEW u \in Users, StartDeleteAccount(r, u)
  PROVE  StorageInv'
<1> USE DEF StorageInv
<1> DEFINE had == FilesOf(u) \union ({avatar[u]} \ {NoFile})
           new == [Begin("listRooms", "deleteAccount", u) EXCEPT
                     !.prev = avatar[u], !.mine = had]
<1>1. /\ ~Busy(r) /\ UNCHANGED <<tables, disk, drawn, history>>
      /\ req' = [req EXCEPT ![r] = new]
  BY DEF StartDeleteAccount
<1>2. had \subseteq drawn /\ had \subseteq Files
  BY PictureRead DEF FilesOf, AllDrawn
<1>3. /\ new.stage = "listRooms" /\ new.op = "deleteAccount" /\ new.user = u
      /\ new.file = NoFile /\ new.prev = avatar[u] /\ new.files = {} /\ new.mine = had
      /\ new \in Request
  BY <1>2 DEF Begin, Request, Stages, Ops, TypeOK
<1>4. /\ req' \in [Requests -> Request \union {Idle}]
      /\ Busy(r)' /\ req'[r] = new
      /\ \A q \in Requests \ {r} : req'[q] = req[q] /\ (Busy(q)' <=> Busy(q))
  BY <1>1, <1>3, Begun
<1>5. /\ req'[r].stage = "listRooms" /\ req'[r].op = "deleteAccount" /\ req'[r].user = u
      /\ req'[r].file = NoFile /\ req'[r].prev = avatar[u]
      /\ req'[r].files = {} /\ req'[r].mine = had
  BY <1>3, <1>4
<1> HIDE DEF new
<1>6. \A f \in had : f = avatar[u] \/ /\ HasRow(f)
                                      /\ row[f].uploader = u \/ creator[row[f].room] = u
  BY DEF FilesOf
<1>7. \A f \in had : Due(r, f)'
  BY <1>1, <1>5, <1>6 DEF Due, HasRow, tables
<1>8. /\ {req'[r].file, req'[r].prev} \subseteq drawn \union {NoFile}
      /\ req'[r].files \subseteq drawn /\ req'[r].mine \subseteq drawn
  BY <1>2, <1>5 DEF AllDrawn
<1>9. /\ ~Carries(r)' /\ ~At(r, "unlink", "deleteAccount")
      /\ ~At(r, "unlink", "deleteAccount")'
      /\ ~At(r, "unlink", "avatar")' /\ ~At(r, "transaction", "deleteAccount")'
  BY <1>1, <1>5 DEF Carries, At
<1> HIDE DEF had
<1> QED BY <1>1, <1>4, <1>5, <1>7, <1>8, <1>9, PictureRead, ReadKeeps

LEMMA ListRoomsKeeps ==
  ASSUME StorageInv, NEW r \in Requests, ListRooms(r)
  PROVE  StorageInv'
<1> USE DEF StorageInv
<1>1. PICK u \in Users : u = req[r].user /\ req[r] \in Request /\ Busy(r)
  BY BusyRequest DEF ListRooms, At
<1> DEFINE created == {m \in Rooms : creator[m] = u}
           new == [req[r] EXCEPT !.stage = "listFiles", !.rooms = created]
<1>2. /\ req[r].stage = "listRooms" /\ req[r].op = "deleteAccount"
      /\ UNCHANGED <<tables, disk, drawn, history>>
      /\ req' = [req EXCEPT ![r] = new]
  BY <1>1 DEF ListRooms, At
<1>3. /\ new \in Request /\ new.stage = "listFiles" /\ new.op = "deleteAccount"
      /\ new.user = u /\ new.file = req[r].file /\ new.prev = req[r].prev
      /\ new.rooms = created /\ new.files = req[r].files /\ new.mine = req[r].mine
  BY <1>1, <1>2 DEF Request, Stages
<1>4. new # Idle
  BY <1>3 DEF Idle
<1>5. /\ req' \in [Requests -> Request \union {Idle}]
      /\ Busy(r)' /\ req'[r] = new
      /\ \A q \in Requests \ {r} : req'[q] = req[q] /\ (Busy(q)' <=> Busy(q))
  BY <1>2, <1>3, <1>4 DEF TypeOK, Busy
<1>6. /\ req'[r].stage = "listFiles" /\ req'[r].op = "deleteAccount" /\ req'[r].user = u
      /\ req'[r].file = req[r].file /\ req'[r].prev = req[r].prev
      /\ req'[r].rooms = created
      /\ req'[r].files = req[r].files /\ req'[r].mine = req[r].mine
  BY <1>3, <1>5
<1> HIDE DEF new
<1>7. /\ {req'[r].file, req'[r].prev} \subseteq drawn \union {NoFile}
      /\ req'[r].files \subseteq drawn /\ req'[r].mine \subseteq drawn
  BY <1>1, <1>6 DEF AllDrawn
<1>8. /\ ~Carries(r)' /\ ~At(r, "unlink", "deleteAccount")
      /\ ~At(r, "unlink", "deleteAccount")'
      /\ ~At(r, "unlink", "avatar")' /\ ~At(r, "transaction", "deleteAccount")'
  BY <1>2, <1>6 DEF Carries, At
<1>9. \A f \in Files : Due(r, f) => Due(r, f)'
  <2> SUFFICES ASSUME NEW f \in Files, Due(r, f) PROVE Due(r, f)'
    OBVIOUS
  <2>1. CASE f = req[r].prev
    BY <1>6, <2>1 DEF Due
  <2>2. CASE HasRow(f) /\ (row[f].uploader = u \/ creator[row[f].room] = u)
    <3>1. row[f].room \in Rooms
      BY <2>2 DEF TypeOK, HasRow, Row
    <3> QED BY <1>2, <1>6, <2>2, <3>1 DEF Due, HasRow, tables
  <2> QED BY <1>1, <1>2, <2>1, <2>2 DEF Due
<1>10. \A f \in req'[r].mine : \/ f \notin disk
                               \/ f \in abandoned \union BeingPurged(r)
                               \/ Due(r, f)'
  BY <1>1, <1>2, <1>6, <1>9, BusyRequest DEF MineAccounted
<1>11. /\ req[r].prev # NoFile =>
            /\ ~HasRow(req[r].prev)
            /\ \A v \in Users \ {u} : avatar[v] # req[r].prev
       /\ \A f \in req[r].files, v \in Users : avatar[v] = f => f = req[r].prev
  BY <1>1 DEF PicturesApart, ListedForPurge
<1> HIDE DEF created
<1> QED BY <1>1, <1>2, <1>5, <1>6, <1>7, <1>8, <1>10, <1>11, ReadKeeps

LEMMA ListFilesKeeps ==
  ASSUME StorageInv, NEW r \in Requests, ListFiles(r)
  PROVE  StorageInv'
<1> USE DEF StorageInv
<1>1. PICK u \in Users : u = req[r].user /\ req[r] \in Request /\ Busy(r)
  BY BusyRequest DEF ListFiles, At
<1> DEFINE listed == ToPurge(r) \union ({req[r].prev} \ {NoFile})
           new == [req[r] EXCEPT !.stage = "transaction", !.files = listed]
<1>2. /\ req[r].stage = "listFiles" /\ req[r].op = "deleteAccount"
      /\ UNCHANGED <<tables, disk, drawn, history>>
      /\ req' = [req EXCEPT ![r] = new]
  BY <1>1 DEF ListFiles, At
<1>3. /\ listed \subseteq Files /\ listed \subseteq drawn
      /\ \A f \in listed : f = req[r].prev \/ HasRow(f)
      /\ \A f \in listed : HasRow(f) => row[f].uploader = u \/ row[f].room \in req[r].rooms
      /\ req[r].prev \in listed \union {NoFile}
  BY <1>1, BusyRequest DEF ToPurge, AllDrawn, PicturesApart
<1>4. /\ new \in Request /\ new.stage = "transaction" /\ new.op = "deleteAccount"
      /\ new.user = u /\ new.file = req[r].file /\ new.prev = req[r].prev
      /\ new.rooms = req[r].rooms /\ new.files = listed /\ new.mine = req[r].mine
  BY <1>1, <1>2, <1>3 DEF Request, Stages
<1>5. new # Idle
  BY <1>4 DEF Idle
<1>6. /\ req' \in [Requests -> Request \union {Idle}]
      /\ Busy(r)' /\ req'[r] = new
      /\ \A q \in Requests \ {r} : req'[q] = req[q] /\ (Busy(q)' <=> Busy(q))
  BY <1>2, <1>4, <1>5 DEF TypeOK, Busy
<1>7. /\ req'[r].stage = "transaction" /\ req'[r].op = "deleteAccount" /\ req'[r].user = u
      /\ req'[r].file = req[r].file /\ req'[r].prev = req[r].prev
      /\ req'[r].rooms = req[r].rooms
      /\ req'[r].files = listed /\ req'[r].mine = req[r].mine
  BY <1>4, <1>6
<1> HIDE DEF new
<1>8. /\ {req'[r].file, req'[r].prev} \subseteq drawn \union {NoFile}
      /\ req'[r].files \subseteq drawn /\ req'[r].mine \subseteq drawn
  BY <1>1, <1>3, <1>7 DEF AllDrawn
<1>9. /\ ~Carries(r)' /\ ~At(r, "unlink", "deleteAccount")
      /\ ~At(r, "unlink", "deleteAccount")' /\ ~At(r, "unlink", "avatar")'
  BY <1>2, <1>7 DEF Carries, At
<1>10. \A f \in Files : Due(r, f) => Due(r, f)'
  BY <1>1, <1>2, <1>7 DEF Due, ToPurge
<1>11. \A f \in req'[r].mine : \/ f \notin disk
                               \/ f \in abandoned \union BeingPurged(r)
                               \/ Due(r, f)'
  BY <1>1, <1>2, <1>7, <1>10, BusyRequest DEF MineAccounted
<1>12. /\ req[r].prev # NoFile =>
            /\ ~HasRow(req[r].prev)
            /\ \A v \in Users \ {u} : avatar[v] # req[r].prev
       /\ \A f \in listed, v \in Users : avatar[v] = f => f = req[r].prev
  BY <1>1, <1>3, NoFileAssumption DEF PicturesApart
<1> HIDE DEF listed
<1> QED BY <1>1, <1>2, <1>3, <1>6, <1>7, <1>8, <1>9, <1>11, <1>12, ReadKeeps

LEMMA UnlinkPurgedKeeps ==
  ASSUME StorageInv, NEW r \in Requests, UnlinkPurged(r)
  PROVE  StorageInv'
<1> USE DEF StorageInv
<1>1. /\ Busy(r) /\ req[r].op = "deleteAccount" /\ req[r].stage = "unlink" /\ Finish(r)
      /\ disk' = disk \ req[r].files /\ UNCHANGED <<tables, drawn, history>>
      /\ At(r, "unlink", "deleteAccount")
  BY DEF UnlinkPurged, At
<1>2. /\ req[r].user \in Users \ alive
      /\ \A f \in req[r].files : ~HasRow(f)
  BY <1>1, BusyRequest DEF ListedForPurge
<1>3. \A f \in req[r].files, v \in Users : avatar[v] # f
  <2> SUFFICES ASSUME NEW f \in req[r].files, NEW v \in Users, avatar[v] = f PROVE FALSE
    OBVIOUS
  <2>1. f = req[r].prev /\ f \in Files /\ f # NoFile
    BY <1>1, BusyRequest, NoFileAssumption DEF ListedForPurge
  <2>2. v = req[r].user
    BY <1>1, <2>1 DEF PicturesApart
  <2> QED BY <1>2, <2>1, <2>2 DEF GoneHaveNothing
<1>4. \A f \in Files : HasRow(f) => f \in disk'
  BY <1>1, <1>2 DEF RowsHaveFiles
<1>5. \A u \in Users : avatar[u] \in disk => avatar[u] \in disk'
  BY <1>1, <1>3
<1>6. \A q \in Requests \ {r} : Carries(q) => req[q].file \in disk'
  BY <1>1 DEF CarriedApart
<1> QED BY <1>1, <1>4, <1>5, <1>6, FinishKeeps DEF history, TypeOK

\* A deletion that has its rows deleted, of an account or of a room: the rows in `gone` go,
\* and with them the rooms listed.
LEMMA RowsGone ==
  ASSUME StorageInv, NEW gone \in SUBSET Files, row' = RowsWithout(gone)
  PROVE  /\ row' \in [Files -> Row \union {NoRow}]
         /\ \A f \in Files : HasRow(f)' <=> HasRow(f) /\ f \notin gone
         /\ \A f \in Files : HasRow(f)' => row'[f] = row[f]
         /\ \A f \in Files : HasRow(f) => /\ row[f].room \in Rooms
                                         /\ row[f].uploader \in Users
BY DEF RowsWithout, StorageInv, TypeOK, HasRow, Row

LEMMA PurgeKeeps ==
  ASSUME StorageInv, NEW r \in Requests, Busy(r), Proceed(r, "unlink"),
         req[r].stage = "transaction", req[r].op \in {"deleteAccount", "deleteRoom"},
         NEW gone \in SUBSET Files,
         row' = RowsWithout(gone), \A f \in gone : HasRow(f),
         \A f \in Files \ gone : HasRow(f) =>
           /\ row[f].uploader \in alive' /\ row[f].room \notin req[r].rooms,
         alive' \subseteq alive,
         creator' = [m \in Rooms |-> IF m \in req[r].rooms THEN Nobody ELSE creator[m]],
         \A m \in Rooms : creator'[m] \in alive' \union {Nobody},
         avatar' \in [Users -> Files \union {NoFile}],
         \A u \in Users : avatar'[u] \in {avatar[u], NoFile},
         \A u \in Users \ alive' : avatar'[u] = NoFile,
         UNCHANGED <<disk, drawn, removed>>,
         abandoned \subseteq abandoned', abandoned' \subseteq Files,
         req[r].op = "deleteRoom" => gone \subseteq abandoned',
         req[r].op = "deleteAccount" =>
           /\ req[r].user \notin alive'
           /\ \A f \in req[r].files : HasRow(f) => f \in gone
           /\ gone \ (req[r].files \union req[r].mine) \subseteq abandoned'
  PROVE  StorageInv'
<1> USE DEF StorageInv
<1>1. /\ row' \in [Files -> Row \union {NoRow}]
      /\ \A f \in Files : HasRow(f)' <=> HasRow(f) /\ f \notin gone
      /\ \A f \in Files : HasRow(f)' => row'[f] = row[f]
      /\ \A f \in Files : HasRow(f) => /\ row[f].room \in Rooms
                                      /\ row[f].uploader \in Users
  BY RowsGone
<1>2. "unlink" \in Stages
  BY DEF Stages
<1>3. /\ req' \in [Requests -> Request \union {Idle}]
      /\ Busy(r)' /\ req'[r].stage = "unlink" /\ req'[r].op = req[r].op
      /\ req'[r].file = req[r].file /\ req'[r].prev = req[r].prev
      /\ req'[r].user = req[r].user /\ req'[r].rooms = req[r].rooms
      /\ req'[r].files = req[r].files /\ req'[r].mine = req[r].mine
      /\ \A q \in Requests \ {r} : req'[q] = req[q] /\ (Busy(q)' <=> Busy(q))
  BY <1>2, Proceeded
<1>4. creator' \in [Rooms -> Users \union {Nobody}]
  BY DEF TypeOK
<1>5. \A q \in Requests : Carries(q)' => Carries(q) /\ Busy(q) /\ q # r
  BY <1>3 DEF Carries
<1>6. TypeOK'
  BY <1>1, <1>3, <1>4 DEF TypeOK
<1>7. AllDrawn'
  BY <1>1, <1>3 DEF AllDrawn
<1>8. CarriedApart'
  <2> SUFFICES ASSUME NEW q \in Requests, Carries(q)'
               PROVE  /\ req'[q].file \in disk' /\ ~HasRow(req[q].file)'
                      /\ \A x \in Users : avatar'[x] # req'[q].file
                      /\ \A x \in Requests : Busy(x)' =>
                           /\ req'[x].prev # req'[q].file
                           /\ req'[q].file \notin req'[x].files
                           /\ x # q /\ Carries(x)' => req'[x].file # req'[q].file
    BY <1>3, <1>5 DEF CarriedApart
  <2>1. Carries(q) /\ Busy(q) /\ q # r /\ req'[q] = req[q] /\ req[q].file \in Files
    BY <1>3, <1>5 DEF CarriedApart, TypeOK
  <2>2. /\ req[q].file \in disk' /\ ~HasRow(req[q].file)'
        /\ \A x \in Users : avatar'[x] # req[q].file
    BY <1>1, <2>1, NoFileAssumption DEF CarriedApart
  <2> QED BY <1>3, <1>5, <2>1, <2>2 DEF CarriedApart
<1>9. PicturesApart'
  <2>1. \A f \in Files : ~HasRow(f) => ~HasRow(f)'
    BY <1>1
  <2>2. \A u \in Users : avatar'[u] # NoFile =>
          ~HasRow(avatar[u])' /\ avatar'[u] = avatar[u]
          /\ \A v \in Users \ {u} : avatar'[v] # avatar'[u]
    BY <2>1, PictureRead
  <2>3. \A q \in Requests : Busy(q)' => /\ Busy(q) /\ req'[q].prev = req[q].prev
                                        /\ req'[q].user = req[q].user
                                        /\ req'[q].op = req[q].op
    BY <1>3
  <2>4. \A q \in Requests : Busy(q) /\ req[q].prev # NoFile =>
          /\ row'[req[q].prev] = NoRow
          /\ \A v \in Users \ {req[q].user} : avatar'[v] # req[q].prev
    <3> SUFFICES ASSUME NEW q \in Requests, Busy(q), req[q].prev # NoFile
                 PROVE  /\ row'[req[q].prev] = NoRow
                        /\ \A v \in Users \ {req[q].user} : avatar'[v] # req[q].prev
      OBVIOUS
    <3>1. PICK f \in Files : f = req[q].prev /\ ~HasRow(f)
      BY BusyRequest DEF PicturesApart
    <3>2. row'[f] = NoRow
      BY <2>1, <3>1 DEF HasRow
    <3>3. \A v \in Users \ {req[q].user} : avatar[v] # f /\ NoFile # f
      BY <3>1 DEF PicturesApart
    <3> QED BY <3>1, <3>2, <3>3
  <2>5. \A q \in Requests : Busy(q) /\ req[q].op = "removeAvatar" => req[q].prev # NoFile
    BY DEF PicturesApart
  <2> QED BY <2>2, <2>3, <2>4, <2>5 DEF PicturesApart, HasRow
<1>10. Replaced'
  <2> SUFFICES ASSUME NEW q \in Requests, At(q, "unlink", "avatar")', req'[q].prev # NoFile
               PROVE  avatar'[req'[q].user] # req'[q].prev
    BY DEF Replaced
  <2>1. At(q, "unlink", "avatar") /\ req'[q] = req[q] /\ req[q].user \in Users
    BY <1>3, BusyRequest DEF At
  <2> QED BY <2>1 DEF Replaced
<1>11. ListedForPurge'
  <2> SUFFICES ASSUME NEW q \in Requests, Busy(q)'
               PROVE  /\ \A f \in req'[q].files, v \in Users : avatar'[v] = f => f = req'[q].prev
                      /\ req'[q].op = "deleteAccount"
                           /\ req'[q].stage \in {"transaction", "unlink"} =>
                           req'[q].prev \in req'[q].files \union {NoFile}
                      /\ At(q, "transaction", "deleteAccount")' =>
                           \A f \in req'[q].files : HasRow(f)' =>
                             \/ row'[f].uploader = req'[q].user
                             \/ row'[f].room \in req'[q].rooms
                      /\ At(q, "unlink", "deleteAccount")' =>
                           /\ req'[q].user \notin alive'
                           /\ \A f \in req'[q].files : ~HasRow(f)'
    BY DEF ListedForPurge
  <2>1. /\ Busy(q) /\ req'[q].files = req[q].files /\ req'[q].prev = req[q].prev
        /\ req'[q].op = req[q].op /\ req'[q].user = req[q].user
        /\ req'[q].rooms = req[q].rooms /\ req[q].files \subseteq Files
    BY <1>3, BusyRequest
  <2>2. \A f \in req'[q].files, v \in Users : avatar'[v] = f => f = req'[q].prev
    BY <2>1, NoFileAssumption DEF ListedForPurge
  <2>3. CASE q # r
    BY <1>1, <1>3, <2>1, <2>2, <2>3 DEF ListedForPurge, At
  <2>4. CASE q = r
    BY <1>1, <1>3, <2>1, <2>2, <2>4 DEF ListedForPurge, At
  <2> QED BY <2>3, <2>4
<1>12. GoneHaveNothing'
  BY DEF GoneHaveNothing
<1>13. RowsHaveFiles' /\ AvatarsHaveFiles'
  BY <1>1 DEF RowsHaveFiles, AvatarsHaveFiles
<1>14. NothingOfTheGone'
  <2> SUFFICES ASSUME NEW f \in Files, HasRow(f)'
               PROVE  row'[f].uploader \in alive' /\ creator'[row'[f].room] \in alive'
    BY DEF NothingOfTheGone
  <2>1. /\ HasRow(f) /\ f \notin gone /\ row'[f] = row[f] /\ row[f].room \in Rooms
    BY <1>1
  <2>2. /\ row[f].uploader \in alive' /\ row[f].room \notin req[r].rooms
        /\ creator[row[f].room] \in alive
    BY <2>1 DEF NothingOfTheGone
  <2>3. creator'[row[f].room] = creator[row[f].room]
    BY <2>1, <2>2
  <2>4. creator'[row[f].room] # Nobody
    BY <2>2, <2>3, NobodyAssumption DEF TypeOK
  <2> QED BY <2>1, <2>2, <2>4
<1>15. MineAccounted'
  <2>1. \A f \in Files : HasRow(f) /\ f \notin abandoned' =>
           \/ /\ HasRow(f)' /\ row'[f] = row[f]
              /\ creator'[row[f].room] = creator[row[f].room]
           \/ At(r, "unlink", "deleteAccount")' /\ f \in req'[r].files
           \/ \E x \in Requests \ {r} : /\ At(x, "unlink", "deleteAccount")
                                        /\ f \in req[x].files
    <3> SUFFICES ASSUME NEW f \in Files, HasRow(f), f \notin abandoned'
                 PROVE  \/ /\ HasRow(f)' /\ row'[f] = row[f]
                           /\ creator'[row[f].room] = creator[row[f].room]
                        \/ At(r, "unlink", "deleteAccount")' /\ f \in req'[r].files
                        \/ \E x \in Requests \ {r} : /\ At(x, "unlink", "deleteAccount")
                                                     /\ f \in req[x].files
      OBVIOUS
    <3>1. CASE f \notin gone
      BY <1>1, <3>1
    <3>2. CASE f \in gone
      <4>1. req[r].op = "deleteAccount" /\ f \in req[r].files \union req[r].mine
        BY <3>2
      <4>2. CASE f \in req[r].files
        BY <1>3, <4>1, <4>2 DEF At
      <4>3. CASE f \in req[r].mine
        <5>1. f \in disk /\ f # req[r].prev
          BY <4>1, NoFileAssumption DEF RowsHaveFiles, PicturesApart
        <5>2. f \in BeingPurged(r) \/ Due(r, f)
          BY <4>1, <4>3, <5>1 DEF MineAccounted
        <5> QED BY <1>3, <4>1, <4>2, <5>1, <5>2 DEF BeingPurged, Due, At
      <4> QED BY <4>1, <4>2, <4>3
    <3> QED BY <3>1, <3>2
  <2>2. \A f \in Files : HasRow(f) => \A x \in Requests : At(x, "unlink", "deleteAccount") =>
          f \notin req[x].files
    BY DEF ListedForPurge, At
  <2>3. \A f \in Files : Due(r, f) /\ req[r].op = "deleteAccount" => Due(r, f)'
    BY <1>3 DEF Due
  <2>4. BeingPurged(r)' = BeingPurged(r)
    BY <1>3 DEF BeingPurged, At
  <2>5. Busy(r)' /\ req'[r].op = "deleteAccount" =>
          \A f \in req'[r].mine : \/ f \notin disk'
                                  \/ f \in (abandoned \union BeingPurged(r))'
                                  \/ Due(r, f)'
    BY <1>3, <2>3, <2>4, BusyRequest DEF MineAccounted
  <2> QED BY <1>3, <2>1, <2>2, <2>5, MineKeeps DEF At
<1> QED BY <1>6, <1>7, <1>8, <1>9, <1>10, <1>11, <1>12, <1>13, <1>14, <1>15

LEMMA DeleteAccountKeeps ==
  ASSUME StorageInv, NEW r \in Requests, DeleteAccount(r)
  PROVE  StorageInv'
<1> USE DEF StorageInv
<1>1. PICK u \in Users : u = req[r].user /\ req[r] \in Request /\ Busy(r)
  BY BusyRequest DEF DeleteAccount, At
<1> DEFINE kept == [m \in Rooms |-> IF m \in req[r].rooms THEN Nobody ELSE creator[m]]
           gone == DeletedRows(r)
<1>2. /\ req[r].stage = "transaction" /\ req[r].op = "deleteAccount"
      /\ At(r, "transaction", "deleteAccount") /\ ~At(r, "unlink", "deleteAccount")
      /\ disk' = disk /\ drawn' = drawn /\ removed' = removed
  BY <1>1 DEF DeleteAccount, At
<1>3. CASE u \in alive /\ \A m \in Rooms : kept[m] # u
  <2>1. /\ alive' = alive \ {u} /\ creator' = kept /\ row' = RowsWithout(gone)
        /\ avatar' = [avatar EXCEPT ![u] = NoFile]
        /\ abandoned' = abandoned \union (gone \ (req[r].files \union req[r].mine))
        /\ Proceed(r, "unlink")
    BY <1>1, <1>3 DEF DeleteAccount
  <2>2. /\ gone \in SUBSET Files
        /\ \A f \in gone : HasRow(f)
        /\ \A f \in Files \ gone : HasRow(f) =>
             row[f].uploader # u /\ row[f].room \notin req[r].rooms
        /\ \A f \in req[r].files : HasRow(f) => f \in gone
    BY <1>1, <1>2, BusyRequest DEF DeletedRows, ListedForPurge
  <2>3. \A f \in Files \ gone : HasRow(f) =>
          row[f].uploader \in alive' /\ row[f].room \notin req[r].rooms
    BY <2>1, <2>2 DEF NothingOfTheGone
  <2>4. \A m \in Rooms : creator'[m] \in alive' \union {Nobody}
    BY <1>3, <2>1 DEF GoneHaveNothing
  <2>5. /\ avatar' \in [Users -> Files \union {NoFile}]
        /\ \A v \in Users : avatar'[v] \in {avatar[v], NoFile}
        /\ \A v \in Users \ alive' : avatar'[v] = NoFile
    BY <2>1 DEF TypeOK, GoneHaveNothing
  <2>6. abandoned \subseteq abandoned' /\ abandoned' \subseteq Files
    BY <2>1, <2>2 DEF TypeOK
  <2>7. /\ req[r].user \notin alive' /\ alive' \subseteq alive
        /\ gone \ (req[r].files \union req[r].mine) \subseteq abandoned'
    BY <1>1, <2>1
  <2> HIDE DEF gone
  <2> QED BY <1>1, <1>2, <2>1, <2>2, <2>3, <2>4, <2>5, <2>6, <2>7, PurgeKeeps
<1>4. CASE ~(u \in alive /\ \A m \in Rooms : kept[m] # u)
  <2>1. Finish(r) /\ UNCHANGED <<tables, abandoned>>
    BY <1>1, <1>4 DEF DeleteAccount
  <2> QED BY <1>1, <1>2, <2>1, FinishKeeps DEF TypeOK, RowsHaveFiles, CarriedApart
<1> QED BY <1>3, <1>4

----------------------------------------------------------------------------
(* The deletion of a room *)

LEMMA StartDeleteRoomKeeps ==
  ASSUME StorageInv, NEW r \in Requests, NEW m \in Rooms, StartDeleteRoom(r, m)
  PROVE  StorageInv'
<1> USE DEF StorageInv
<1>1. PICK u \in Users : u = creator[m]
  BY DEF StartDeleteRoom, TypeOK
<1> DEFINE listed == {f \in Files : HasRow(f) /\ row[f].room = m}
           new == [Begin("transaction", "deleteRoom", creator[m]) EXCEPT
                     !.rooms = {m}, !.files = listed]
<1>2. /\ ~Busy(r) /\ UNCHANGED <<tables, disk, drawn, history>>
      /\ req' = [req EXCEPT ![r] = new]
  BY DEF StartDeleteRoom
<1>3. listed \subseteq drawn /\ listed \subseteq Files /\ \A f \in listed : HasRow(f)
  BY DEF AllDrawn
<1>4. /\ new.stage = "transaction" /\ new.op = "deleteRoom"
      /\ new.file = NoFile /\ new.prev = NoFile /\ new.files = listed /\ new.mine = {}
      /\ new \in Request
  BY <1>1, <1>3 DEF Begin, Request, Stages, Ops
<1>5. /\ req' \in [Requests -> Request \union {Idle}]
      /\ Busy(r)' /\ req'[r] = new
      /\ \A q \in Requests \ {r} : req'[q] = req[q] /\ (Busy(q)' <=> Busy(q))
  BY <1>2, <1>4, Begun
<1>6. /\ req'[r].stage = "transaction" /\ req'[r].op = "deleteRoom"
      /\ req'[r].file = NoFile /\ req'[r].prev = NoFile
      /\ req'[r].files = listed /\ req'[r].mine = {}
  BY <1>4, <1>5
<1> HIDE DEF new
<1>7. /\ ~Carries(r)' /\ ~At(r, "unlink", "deleteAccount")
      /\ ~At(r, "unlink", "deleteAccount")'
      /\ ~At(r, "unlink", "avatar")' /\ ~At(r, "transaction", "deleteAccount")'
  BY <1>2, <1>6 DEF Carries, At
<1>8. \A f \in listed, v \in Users : avatar[v] # f
  BY <1>3, NoFileAssumption DEF PicturesApart
<1> HIDE DEF listed
<1> QED BY <1>2, <1>3, <1>5, <1>6, <1>7, <1>8, ReadKeeps

LEMMA DeleteRoomKeeps ==
  ASSUME StorageInv, NEW r \in Requests, DeleteRoom(r)
  PROVE  StorageInv'
<1> USE DEF StorageInv
<1> DEFINE gone == {f \in Files : HasRow(f) /\ row[f].room \in req[r].rooms}
<1>1. /\ Busy(r) /\ req[r].stage = "transaction" /\ req[r].op = "deleteRoom"
      /\ ~At(r, "unlink", "deleteAccount")
      /\ alive' = alive /\ avatar' = avatar /\ disk' = disk /\ drawn' = drawn
      /\ removed' = removed
  BY DEF DeleteRoom, At
<1>2. CASE \E m \in req[r].rooms : creator[m] # Nobody
  <2>1. /\ creator' = [m \in Rooms |-> IF m \in req[r].rooms THEN Nobody ELSE creator[m]]
        /\ row' = RowsWithout(gone) /\ abandoned' = abandoned \union gone
        /\ Proceed(r, "unlink")
    BY <1>2 DEF DeleteRoom
  <2>2. /\ gone \in SUBSET Files /\ \A f \in gone : HasRow(f)
        /\ \A f \in Files \ gone : HasRow(f) =>
             row[f].uploader \in alive' /\ row[f].room \notin req[r].rooms
    BY <1>1 DEF NothingOfTheGone
  <2>3. \A m \in Rooms : creator'[m] \in alive' \union {Nobody}
    BY <1>1, <2>1 DEF GoneHaveNothing
  <2>4. /\ avatar' \in [Users -> Files \union {NoFile}]
        /\ \A v \in Users : avatar'[v] \in {avatar[v], NoFile}
        /\ \A v \in Users \ alive' : avatar'[v] = NoFile
    BY <1>1 DEF TypeOK, GoneHaveNothing
  <2>5. /\ abandoned \subseteq abandoned' /\ abandoned' \subseteq Files
        /\ gone \subseteq abandoned'
    BY <2>1 DEF TypeOK
  <2> HIDE DEF gone
  <2> QED BY <1>1, <2>1, <2>2, <2>3, <2>4, <2>5, PurgeKeeps
<1>3. CASE ~\E m \in req[r].rooms : creator[m] # Nobody
  <2>1. Finish(r) /\ UNCHANGED <<creator, row, abandoned>>
    BY <1>3 DEF DeleteRoom
  <2> QED BY <1>1, <2>1, FinishKeeps DEF TypeOK, RowsHaveFiles, CarriedApart, tables
<1> QED BY <1>2, <1>3

LEMMA UnlinkElsewhereKeeps ==
  ASSUME StorageInv, NEW r \in Requests, UnlinkElsewhere(r)
  PROVE  StorageInv'
<1>1. /\ Busy(r) /\ ~At(r, "unlink", "deleteAccount") /\ Finish(r)
      /\ UNCHANGED <<tables, disk, drawn, removed, abandoned>>
  BY DEF UnlinkElsewhere, At, history
<1> QED BY <1>1, FinishKeeps DEF StorageInv, TypeOK, RowsHaveFiles, CarriedApart

LEMMA AbortKeeps ==
  ASSUME StorageInv, NEW r \in Requests, Abort(r)
  PROVE  StorageInv'
<1> USE DEF StorageInv
<1>1. /\ Busy(r) /\ Finish(r) /\ UNCHANGED <<tables, disk, drawn, removed>>
      /\ req[r].files \subseteq Files
  BY BusyRequest DEF Abort
<1>2. /\ abandoned \subseteq abandoned' /\ abandoned' \subseteq Files
      /\ At(r, "unlink", "deleteAccount") => req[r].files \subseteq abandoned'
  BY <1>1 DEF Abort, TypeOK
<1> QED BY <1>1, <1>2, FinishKeeps DEF RowsHaveFiles, CarriedApart

----------------------------------------------------------------------------
(* Every step keeps the invariant *)

LEMMA StartKeeps ==
  ASSUME StorageInv, NEW r \in Requests, Start(r)
  PROVE  StorageInv'
<1>1. alive \subseteq Users
  BY DEF StorageInv, TypeOK
<1>2. CASE \E u \in alive : Upload(r, "avatar", u, {})
  BY <1>1, <1>2, UploadKeeps
<1>3. CASE \E u \in alive, m \in Rooms : Upload(r, "attach", u, {m})
  <2>1. PICK u \in Users, m \in Rooms : Upload(r, "attach", u, {m})
    BY <1>1, <1>3
  <2> QED BY <2>1, UploadKeeps
<1>4. CASE \E u \in alive : StartRemoveAvatar(r, u)
  BY <1>1, <1>4, StartRemoveAvatarKeeps
<1>5. CASE \E u \in alive : StartDeleteAccount(r, u)
  BY <1>1, <1>5, StartDeleteAccountKeeps
<1>6. CASE \E m \in Rooms : StartDeleteRoom(r, m)
  BY <1>6, StartDeleteRoomKeeps
<1> QED BY <1>2, <1>3, <1>4, <1>5, <1>6 DEF Start

LEMMA InvStep == StorageInv /\ [Next]_vars => StorageInv'
<1> SUFFICES ASSUME StorageInv, [Next]_vars PROVE StorageInv'
  OBVIOUS
<1>1. ASSUME NEW u \in Users, NEW m \in Rooms, CreateRoom(u, m) PROVE StorageInv'
  BY <1>1, CreateRoomKeeps
<1>2. ASSUME NEW r \in Requests, Start(r) PROVE StorageInv'
  BY <1>2, StartKeeps
<1>3. ASSUME NEW r \in Requests, Handle(r) PROVE StorageInv'
  BY <1>3, CheckKeeps, CreateKeeps, CheckAvatarKeeps, ReadPreviousKeeps, UpdateAvatarKeeps,
     UnlinkPreviousKeeps, UnlinkAvatarKeeps, ClearAvatarKeeps, ListRoomsKeeps, ListFilesKeeps,
     DeleteAccountKeeps, UnlinkPurgedKeeps, DeleteRoomKeeps, UnlinkElsewhereKeeps, AbortKeeps
     DEF Handle
<1>4. CASE UNCHANGED vars
  BY <1>4 DEF vars, StorageInv, TypeOK, AllDrawn, CarriedApart, PicturesApart, Replaced,
     ListedForPurge, GoneHaveNothing, RowsHaveFiles, AvatarsHaveFiles, NothingOfTheGone,
     MineAccounted, Carries, Due, BeingPurged, HasRow, Busy, At
<1> QED BY <1>1, <1>2, <1>3, <1>4 DEF Next

LEMMA InvHolds == Spec => []StorageInv
BY InvInit, InvStep, PTL DEF Spec

----------------------------------------------------------------------------
(* What follows from the invariant *)

\* The type invariant.
THEOREM TypeCorrect == Spec => []TypeOK
<1>1. StorageInv => TypeOK
  BY DEF StorageInv
<1> QED BY <1>1, InvHolds, PTL

\* Every attachment that is listed has its file: the unlinking that follows a deletion, and
\* the one that follows a rejected upload, find files without a row only.
THEOREM ListedCanBeDownloaded == Spec => []RowsHaveFiles
<1>1. StorageInv => RowsHaveFiles
  BY DEF StorageInv
<1> QED BY <1>1, InvHolds, PTL

\* Every picture has its file, unless removeAvatar unlinked it and did not clear the path.
THEOREM PicturesCanBeShown == Spec => []AvatarsHaveFiles
<1>1. StorageInv => AvatarsHaveFiles
  BY DEF StorageInv
<1> QED BY <1>1, InvHolds, PTL

\* An attachment's uploader and the creator of its room are accounts, whatever uploads were
\* under way when one of them, or the room, was deleted.
THEOREM RowsOfTheLiving == Spec => []NothingOfTheGone
<1>1. StorageInv => NothingOfTheGone
  BY DEF StorageInv
<1> QED BY <1>1, InvHolds, PTL

\* When deleteAccount has unlinked its list, the disk has none of the files that were the
\* user's at its start, but those another deletion answers for or has left behind.
THEOREM PurgesAreComplete == Spec => PurgeComplete
<1> DEFINE Purged(r) ==
      At(r, "unlink", "deleteAccount") /\ UnlinkPurged(r)
        => req[r].mine \intersect disk' \subseteq abandoned \union BeingPurged(r)
<1>1. StorageInv /\ [Next]_vars => [\A r \in Requests : Purged(r)]_vars
  <2> SUFFICES ASSUME StorageInv, NEW r \in Requests,
                      At(r, "unlink", "deleteAccount"), UnlinkPurged(r),
                      NEW f \in req[r].mine, f \in disk'
               PROVE  f \in abandoned \union BeingPurged(r)
    OBVIOUS
  <2>1. f \in disk /\ f \notin req[r].files
    BY DEF UnlinkPurged
  <2>2. f \in Files /\ req[r].prev \in req[r].files \union {NoFile}
    BY BusyRequest DEF StorageInv, ListedForPurge, At
  <2>3. ~Due(r, f)
    BY <2>1, <2>2, NoFileAssumption DEF Due, At
  <2> QED BY <2>1, <2>3 DEF StorageInv, MineAccounted, At
<1> QED BY <1>1, InvHolds, PTL DEF Spec, PurgeComplete
=============================================================================
