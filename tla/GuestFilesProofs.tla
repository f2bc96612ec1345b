---------------------------- MODULE GuestFilesProofs ----------------------------
(***************************************************************************)
(* FILEs are neither leaked nor closed twice, and what was written and     *)
(* closed stays until an fopen empties the file, for every number of       *)
(* guests, paths, FILEs and bytes, however their opens overlap.  The first *)
(* needs, for every FILE that is open, one place that holds it, and for    *)
(* every call in progress what its handle stands for (HeldInv); the second *)
(* needs, for every FILE, that flushing it takes the file at least to the  *)
(* end of what was written through it since it was emptied (HostInv).      *)
(***************************************************************************)
EXTENDS GuestFiles, TLAPS

Stages == {"idle", "open", "create", "reopen", "handle", "publish", "use", "erase"}

FilesTyped ==
  /\ opened \in 0 .. MaxStreams
  /\ handles \in 0 .. MaxStreams
  /\ streams \subseteq 1 .. opened
  /\ table \in [FileHandles -> 0 .. MaxStreams + 1]
  /\ stage \in [FileGuests -> Stages]
  /\ stream \in [FileGuests -> 0 .. MaxStreams]
  /\ handle \in [FileGuests -> 0 .. MaxStreams]

(* What the handle and the FILE of a guest stand for at its stage.         *)
FileCallInv(g) ==
  /\ stream[g] = NoStream <=> stage[g] \notin {"handle", "publish"}
  /\ stage[g] = "publish" => handle[g] \in 1 .. handles /\ table[handle[g]] = NoStream
  /\ stage[g] = "erase" => handle[g] \in FileHandles /\ table[handle[g]] = NullStream
  /\ stage[g] = "use" => handle[g] \in FileHandles /\ table[handle[g]] \in Streams

(* No two calls publish or erase the same handle.                          *)
HandlesApart ==
  \A f, g \in FileGuests :
    stage[f] = stage[g] /\ stage[f] \in {"publish", "erase"} /\ handle[f] = handle[g] => f = g

TableInv == \A h \in FileHandles : table[h] # NoStream => h <= handles

Held(s) == (\E h \in FileHandles : table[h] = s) \/ (\E g \in FileGuests : stream[g] = s)

HeldOnce ==
  /\ \A s \in Streams : Held(s) <=> s \in streams
  /\ \A h, k \in FileHandles : table[h] \in Streams /\ table[h] = table[k] => h = k
  /\ \A f, g \in FileGuests : stream[f] \in Streams /\ stream[f] = stream[g] => f = g
  /\ \A h \in FileHandles, g \in FileGuests : stream[g] \in Streams => table[h] # stream[g]

HeldInv ==
  /\ FilesTyped
  /\ \A g \in FileGuests : FileCallInv(g)
  /\ HandlesApart
  /\ TableInv
  /\ HeldOnce

LEMMA HeldInit == FilesInit => HeldInv
BY FilesAssumption DEF FilesInit, HeldInv, FilesTyped, Stages, FileCallInv, HandlesApart, TableInv,
   HeldOnce, Held, Streams, FileHandles, NoStream, NullStream

(* A step of a call that leaves the table and the FILEs that are open as   *)
(* they are: it starts, looks at the host, uses a FILE or ends.            *)
LEMMA Neutral ==
  ASSUME HeldInv, NEW g \in FileGuests,
         stage[g] \notin {"handle", "publish", "erase"},
         NEW to \in {"idle", "open", "create", "reopen", "use"},
         stage' = [stage EXCEPT ![g] = to],
         \A f \in FileGuests : stream'[f] = stream[f],
         stream' \in [FileGuests -> 0 .. MaxStreams],
         handle' \in [FileGuests -> 0 .. MaxStreams],
         \A f \in FileGuests \ {g} : handle'[f] = handle[f],
         to = "use" => handle'[g] \in FileHandles /\ table[handle'[g]] \in Streams,
         UNCHANGED <<streams, opened, table, handles>>
  PROVE  HeldInv'
<1>1. FilesTyped'
  BY DEF HeldInv, FilesTyped, Stages
<1>2. \A f \in FileGuests : stage'[f] = IF f = g THEN to ELSE stage[f]
  BY DEF HeldInv, FilesTyped
<1>3. ASSUME NEW f \in FileGuests PROVE FileCallInv(f)'
  BY <1>2 DEF HeldInv, FileCallInv
<1>4. HandlesApart'
  BY <1>2 DEF HeldInv, HandlesApart
<1>5. TableInv' /\ HeldOnce'
  BY DEF HeldInv, TableInv, HeldOnce, Held
<1> QED
  BY <1>1, <1>3, <1>4, <1>5 DEF HeldInv

(* The same for a step that ends in Finish.                                *)
LEMMA Finishes ==
  ASSUME HeldInv, NEW g \in FileGuests, NEW from \in {"open", "create", "reopen", "use"},
         Finish(g, from), UNCHANGED <<streams, opened, table, handles>>
  PROVE  HeldInv'
<1>1. /\ stage[g] = from /\ stage' = [stage EXCEPT ![g] = "idle"]
      /\ stream' = [stream EXCEPT ![g] = NoStream]
      /\ handle' = [handle EXCEPT ![g] = 0]
  BY DEF Finish, Move
<1>2. stream[g] = NoStream
  BY <1>1 DEF HeldInv, FileCallInv
<1>3. /\ \A f \in FileGuests : stream'[f] = stream[f]
      /\ stream' \in [FileGuests -> 0 .. MaxStreams]
  BY <1>1, <1>2 DEF HeldInv, FilesTyped
<1>4. /\ handle' \in [FileGuests -> 0 .. MaxStreams]
      /\ \A f \in FileGuests \ {g} : handle'[f] = handle[f]
  BY <1>1, FilesAssumption DEF HeldInv, FilesTyped
<1> QED
  BY <1>1, <1>3, <1>4, Neutral

(* fopen: the new FILE is held by the call that opened it.                 *)
LEMMA OpenHeld ==
  ASSUME HeldInv, NEW g \in FileGuests, Open(g)
  PROVE  HeldInv'
<1> DEFINE s == opened + 1
<1>1. /\ stage[g] \in {"open", "reopen"} /\ stage' = [stage EXCEPT ![g] = "handle"]
      /\ opened < MaxStreams /\ opened' = s /\ streams' = streams \cup {s}
      /\ stream' = [stream EXCEPT ![g] = s]
      /\ UNCHANGED <<table, handles, handle>>
  BY DEF Open, Fopen, Move
<1>2. s \in Streams /\ s \notin streams /\ s # NoStream
  BY <1>1, FilesAssumption DEF HeldInv, FilesTyped, Streams, NoStream
<1>3. FilesTyped'
  BY <1>1, <1>2, FilesAssumption DEF HeldInv, FilesTyped, Stages, Streams
<1>4. /\ \A f \in FileGuests : stage'[f] = IF f = g THEN "handle" ELSE stage[f]
      /\ \A f \in FileGuests : stream'[f] = IF f = g THEN s ELSE stream[f]
  BY <1>1 DEF HeldInv, FilesTyped
<1>5. ~Held(s)
  BY <1>2 DEF HeldInv, HeldOnce
<1> HIDE DEF s
<1>6. ASSUME NEW f \in FileGuests PROVE FileCallInv(f)'
  BY <1>1, <1>2, <1>4 DEF HeldInv, FileCallInv
<1>7. HandlesApart' /\ TableInv'
  BY <1>1, <1>4 DEF HeldInv, HandlesApart, TableInv
<1>8. stream[g] = NoStream
  BY <1>1 DEF HeldInv, FileCallInv
<1>9. HeldOnce'
  <2>1. ASSUME NEW t \in Streams PROVE (Held(t) <=> t \in streams)'
    BY <1>1, <1>2, <1>4, <1>8 DEF HeldInv, HeldOnce, Held, Streams, NoStream
  <2> QED
    BY <1>1, <1>2, <1>4, <1>5, <2>1 DEF HeldInv, HeldOnce, Held
<1> QED
  BY <1>3, <1>6, <1>7, <1>9 DEF HeldInv

(* The next handle is in nobody's hands and not in the table.              *)
LEMMA AllocHandleHeld ==
  ASSUME HeldInv, NEW g \in FileGuests, AllocHandle(g)
  PROVE  HeldInv'
<1>1. /\ stage[g] = "handle" /\ stage' = [stage EXCEPT ![g] = "publish"]
      /\ handles < MaxStreams /\ handles' = handles + 1
      /\ handle' = [handle EXCEPT ![g] = handles + 1]
      /\ UNCHANGED <<streams, opened, table, stream>>
  BY DEF AllocHandle, Move, hostVars
<1>2. handles + 1 \in FileHandles /\ handles \in Nat /\ table[handles + 1] = NoStream
  BY <1>1, FilesAssumption DEF HeldInv, FilesTyped, TableInv, FileHandles
<1>3. FilesTyped'
  BY <1>1, <1>2 DEF HeldInv, FilesTyped, Stages, FileHandles
<1>4. /\ \A f \in FileGuests : stage'[f] = IF f = g THEN "publish" ELSE stage[f]
      /\ \A f \in FileGuests : handle'[f] = IF f = g THEN handles + 1 ELSE handle[f]
  BY <1>1 DEF HeldInv, FilesTyped
<1>5. ASSUME NEW f \in FileGuests PROVE FileCallInv(f)'
  BY <1>1, <1>2, <1>4 DEF HeldInv, FileCallInv
<1>6. HandlesApart'
  <2>1. \A f \in FileGuests : stage[f] = "publish" => handle[f] # handles + 1
    BY <1>2 DEF HeldInv, FileCallInv
  <2> QED
    BY <1>1, <1>4, <2>1 DEF HeldInv, HandlesApart
<1>7. TableInv' /\ HeldOnce'
  BY <1>1, <1>2 DEF HeldInv, TableInv, HeldOnce, Held, FileHandles
<1> QED
  BY <1>3, <1>5, <1>6, <1>7 DEF HeldInv

(* The FILE passes from the call to the table.                             *)
LEMMA PublishHeld ==
  ASSUME HeldInv, NEW g \in FileGuests, Publish(g)
  PROVE  HeldInv'
<1> DEFINE h == handle[g]
           s == stream[g]
<1>1. /\ stage[g] = "publish" /\ stage' = [stage EXCEPT ![g] = "idle"]
      /\ stream' = [stream EXCEPT ![g] = NoStream]
      /\ handle' = [handle EXCEPT ![g] = 0]
      /\ table' = [table EXCEPT ![h] = s]
      /\ UNCHANGED <<streams, opened, handles>>
  BY DEF Publish, Finish, Move, hostVars
<1>2. /\ h \in 1 .. handles /\ h \in FileHandles /\ table[h] = NoStream
      /\ s \in Streams /\ s \in streams
  BY <1>1, FilesAssumption DEF HeldInv, FileCallInv, FilesTyped, FileHandles, HeldOnce, Held, Streams, NoStream
<1>3. FilesTyped'
  BY <1>1, <1>2, FilesAssumption DEF HeldInv, FilesTyped, Stages, Streams, NoStream
<1>4. /\ \A f \in FileGuests : stage'[f] = IF f = g THEN "idle" ELSE stage[f]
      /\ \A f \in FileGuests : handle'[f] = IF f = g THEN 0 ELSE handle[f]
      /\ \A f \in FileGuests : stream'[f] = IF f = g THEN NoStream ELSE stream[f]
      /\ \A k \in FileHandles : table'[k] = IF k = h THEN s ELSE table[k]
  BY <1>1 DEF HeldInv, FilesTyped
<1>5. HandlesApart /\ \A f \in FileGuests : FileCallInv(f)
  BY DEF HeldInv
<1>6. \A k \in FileHandles : table[k] # s
  BY <1>2 DEF HeldInv, HeldOnce
<1>7. \A f \in FileGuests \ {g} : stream[f] # s
  BY <1>2 DEF HeldInv, HeldOnce
<1>8. NoStream \notin Streams /\ NullStream \notin Streams /\ NullStream # NoStream
  BY FilesAssumption DEF Streams, NoStream, NullStream
<1>9. ASSUME NEW f \in FileGuests PROVE FileCallInv(f)'
  <2>1. CASE f = g
    BY <1>1, <1>4, <2>1 DEF FileCallInv
  <2>2. CASE f # g
    <3>1. stage[f] \in {"publish", "erase", "use"} => handle[f] # h
      BY <1>1, <1>2, <1>5, <1>8, <2>2 DEF FileCallInv, HandlesApart
    <3>2. stage[f] = "publish" => handle[f] \in FileHandles
      BY <1>5, FilesAssumption DEF FileCallInv, HeldInv, FilesTyped, FileHandles
    <3> QED
      BY <1>1, <1>4, <1>5, <2>2, <3>1, <3>2 DEF FileCallInv
  <2> QED
    BY <2>1, <2>2
<1>10. HandlesApart' /\ TableInv'
  <2>1. h <= handles
    BY <1>2 DEF HeldInv, FilesTyped
  <2> QED
    BY <1>1, <1>4, <2>1 DEF HeldInv, HandlesApart, TableInv
<1> HIDE DEF h, s
<1>11. HeldOnce'
  <2>1. ASSUME NEW t \in Streams PROVE (Held(t) <=> t \in streams)'
    <3>1. CASE t = s
      BY <1>1, <1>2, <1>4, <3>1 DEF Held
    <3>2. CASE t # s
      <4>1. Held(t) <=> t \in streams
        BY DEF HeldInv, HeldOnce
      <4>2. table[h] # t /\ NoStream # t /\ stream[g] # t
        BY <1>2, <1>8, <3>2 DEF s
      <4> QED
        BY <1>1, <1>4, <3>2, <4>1, <4>2 DEF Held
    <3> QED
      BY <3>1, <3>2
  <2> QED
    BY <1>1, <1>2, <1>4, <1>6, <1>7, <1>8, <2>1 DEF HeldInv, HeldOnce
<1> QED
  BY <1>3, <1>9, <1>10, <1>11 DEF HeldInv

(* fclose: the FILE is gone and its handle stands for a null FILE, which   *)
(* the closing guest alone takes out of the table.                         *)
LEMMA CloseHeld ==
  ASSUME HeldInv, NEW g \in FileGuests, NEW h \in FileHandles, CloseFile(g, h)
  PROVE  HeldInv'
<1> DEFINE s == table[h]
<1>1. /\ stage[g] = "idle" /\ stage' = [stage EXCEPT ![g] = "erase"]
      /\ s \in Streams /\ FileUsers(h) = {}
      /\ streams' = streams \ {s}
      /\ table' = [table EXCEPT ![h] = NullStream]
      /\ handle' = [handle EXCEPT ![g] = h]
      /\ UNCHANGED <<opened, handles, stream>>
  BY DEF CloseFile, Move
<1>2. NoStream \notin Streams /\ NullStream \notin Streams /\ NullStream # NoStream
  BY FilesAssumption DEF Streams, NoStream, NullStream
<1>3. FilesTyped'
  <2>1. NullStream \in 0 .. MaxStreams + 1 /\ h \in 0 .. MaxStreams /\ "erase" \in Stages
    BY FilesAssumption DEF NullStream, FileHandles, Stages
  <2>2. streams' \subseteq 1 .. opened
    BY <1>1 DEF HeldInv, FilesTyped
  <2> QED
    BY <1>1, <2>1, <2>2 DEF HeldInv, FilesTyped
<1>4. /\ \A f \in FileGuests : stage'[f] = IF f = g THEN "erase" ELSE stage[f]
      /\ \A f \in FileGuests : handle'[f] = IF f = g THEN h ELSE handle[f]
      /\ \A k \in FileHandles : table'[k] = IF k = h THEN NullStream ELSE table[k]
  BY <1>1 DEF HeldInv, FilesTyped
<1>5. HandlesApart /\ \A f \in FileGuests : FileCallInv(f)
  BY DEF HeldInv
<1>6. ASSUME NEW f \in FileGuests PROVE FileCallInv(f)'
  <2>1. CASE f = g
    BY <1>1, <1>4, <1>5, <2>1 DEF FileCallInv
  <2>2. CASE f # g
    <3>1. stage[f] \in {"publish", "erase", "use"} => handle[f] # h
      BY <1>1, <1>2, <1>5, <2>2 DEF FileCallInv, FileUsers
    <3>2. stage[f] = "publish" => handle[f] \in FileHandles
      BY <1>5, FilesAssumption DEF FileCallInv, HeldInv, FilesTyped, FileHandles
    <3> QED
      BY <1>1, <1>4, <1>5, <2>2, <3>1, <3>2 DEF FileCallInv
  <2> QED
    BY <2>1, <2>2
<1>7. HandlesApart' /\ TableInv'
  <2>1. h <= handles
    BY <1>1, <1>2 DEF HeldInv, TableInv
  <2>2. \A f \in FileGuests : stage[f] = "erase" => handle[f] # h
    BY <1>1, <1>2, <1>5 DEF FileCallInv
  <2> QED
    BY <1>1, <1>4, <2>1, <2>2 DEF HeldInv, HandlesApart, TableInv
<1>8. \A k \in FileHandles \ {h} : table[k] # s
  BY <1>1 DEF HeldInv, HeldOnce
<1>9. \A f \in FileGuests : stream[f] # s
  BY <1>1 DEF HeldInv, HeldOnce
<1> HIDE DEF s
<1>10. HeldOnce'
  <2>1. ASSUME NEW t \in Streams PROVE (Held(t) <=> t \in streams)'
    <3>1. CASE t = s
      BY <1>1, <1>2, <1>4, <1>8, <1>9, <3>1 DEF Held
    <3>2. CASE t # s
      <4>1. Held(t) <=> t \in streams
        BY DEF HeldInv, HeldOnce
      <4>2. table[h] # t /\ NullStream # t
        BY <1>2, <3>2 DEF s
      <4> QED
        BY <1>1, <1>4, <3>2, <4>1, <4>2 DEF Held
    <3> QED
      BY <3>1, <3>2
  <2> QED
    BY <1>1, <1>2, <1>4, <2>1 DEF HeldInv, HeldOnce
<1> QED
  BY <1>3, <1>6, <1>7, <1>10 DEF HeldInv

LEMMA DestroyHeld ==
  ASSUME HeldInv, NEW g \in FileGuests, DestroyObject(g)
  PROVE  HeldInv'
<1> DEFINE h == handle[g]
<1>1. /\ stage[g] = "erase" /\ stage' = [stage EXCEPT ![g] = "idle"]
      /\ stream' = [stream EXCEPT ![g] = NoStream]
      /\ handle' = [handle EXCEPT ![g] = 0]
      /\ table' = [table EXCEPT ![h] = NoStream]
      /\ UNCHANGED <<streams, opened, handles>>
  BY DEF DestroyObject, Finish, Move, hostVars
<1>2. h \in FileHandles /\ table[h] = NullStream /\ stream[g] = NoStream
  BY <1>1 DEF HeldInv, FileCallInv
<1>3. NoStream \notin Streams /\ NullStream \notin Streams /\ NullStream # NoStream
  BY FilesAssumption DEF Streams, NoStream, NullStream
<1>4. FilesTyped'
  <2>1. NoStream \in 0 .. MaxStreams /\ NoStream \in 0 .. MaxStreams + 1
        /\ 0 \in 0 .. MaxStreams /\ "idle" \in Stages
    BY FilesAssumption DEF NoStream, Stages
  <2> QED
    BY <1>1, <2>1 DEF HeldInv, FilesTyped
<1>5. /\ \A f \in FileGuests : stage'[f] = IF f = g THEN "idle" ELSE stage[f]
      /\ \A f \in FileGuests : handle'[f] = IF f = g THEN 0 ELSE handle[f]
      /\ \A f \in FileGuests : stream'[f] = stream[f]
      /\ \A k \in FileHandles : table'[k] = IF k = h THEN NoStream ELSE table[k]
  BY <1>1, <1>2 DEF HeldInv, FilesTyped
<1>6. HandlesApart /\ \A f \in FileGuests : FileCallInv(f)
  BY DEF HeldInv
<1>7. ASSUME NEW f \in FileGuests PROVE FileCallInv(f)'
  <2>1. CASE f = g
    BY <1>1, <1>2, <1>5, <2>1 DEF FileCallInv
  <2>2. CASE f # g
    <3>1. stage[f] \in {"publish", "erase", "use"} => handle[f] # h
      BY <1>1, <1>2, <1>3, <1>6, <2>2 DEF FileCallInv, HandlesApart
    <3>2. stage[f] = "publish" => handle[f] \in FileHandles
      BY <1>6, FilesAssumption DEF FileCallInv, HeldInv, FilesTyped, FileHandles
    <3> QED
      BY <1>1, <1>5, <1>6, <2>2, <3>1, <3>2 DEF FileCallInv
  <2> QED
    BY <2>1, <2>2
<1>8. HandlesApart' /\ TableInv'
  BY <1>1, <1>5 DEF HeldInv, HandlesApart, TableInv
<1> HIDE DEF h
<1>9. HeldOnce'
  <2>1. ASSUME NEW t \in Streams PROVE (Held(t) <=> t \in streams)'
    <3>1. table[h] # t /\ NoStream # t /\ (Held(t) <=> t \in streams)
      BY <1>2, <1>3 DEF HeldInv, HeldOnce
    <3> QED
      BY <1>1, <1>5, <3>1 DEF Held
  <2> QED
    BY <1>1, <1>3, <1>5, <2>1 DEF HeldInv, HeldOnce
<1> QED
  BY <1>4, <1>7, <1>8, <1>9 DEF HeldInv

LEMMA FileCallHeld ==
  ASSUME HeldInv, NEW g \in FileGuests, FileCall(g)
  PROVE  HeldInv'
<1> USE DEF hostVars
<1>1. ASSUME NEW p \in GuestPaths, NEW write \in BOOLEAN, NEW disp \in Dispositions,
             CreateFile(g, p, write, disp)
      PROVE  HeldInv'
  <2>1. stage[g] = "idle" /\ stage' = [stage EXCEPT ![g] = "open"]
        /\ UNCHANGED <<streams, opened, table, handles, stream, handle>>
    BY <1>1 DEF CreateFile, Move
  <2> QED
    BY <2>1, Neutral DEF HeldInv, FilesTyped
<1>2. CASE FopenFails(g)
  <2>1. CASE stage[g] = "open" /\ request[g].create
    <3>1. stage' = [stage EXCEPT ![g] = "create"]
          /\ UNCHANGED <<streams, opened, table, handles, stream, handle>>
      BY <1>2, <2>1 DEF FopenFails, Move
    <3> QED
      BY <2>1, <3>1, Neutral DEF HeldInv, FilesTyped
  <2>2. CASE ~(stage[g] = "open" /\ request[g].create)
    BY <1>2, <2>2, Finishes DEF FopenFails
  <2> QED
    BY <2>1, <2>2
<1>3. CASE CreateForWriting(g)
  <2>1. stage[g] = "create" /\ stage' = [stage EXCEPT ![g] = "reopen"]
        /\ UNCHANGED <<streams, opened, table, handles, stream, handle>>
    BY <1>3 DEF CreateForWriting, Move
  <2> QED
    BY <2>1, Neutral DEF HeldInv, FilesTyped
<1>5. ASSUME NEW h \in FileHandles, UseFile(g, h)
      PROVE  HeldInv'
  <2>1. /\ stage[g] = "idle" /\ stage' = [stage EXCEPT ![g] = "use"]
        /\ table[h] \in Streams /\ handle' = [handle EXCEPT ![g] = h]
        /\ UNCHANGED <<streams, opened, table, handles, stream>>
    BY <1>5 DEF UseFile, Move
  <2>2. handle' \in [FileGuests -> 0 .. MaxStreams] /\ handle'[g] = h
        /\ \A f \in FileGuests \ {g} : handle'[f] = handle[f]
    BY <2>1, FilesAssumption DEF HeldInv, FilesTyped, FileHandles
  <2> QED
    BY <2>1, <2>2, Neutral DEF HeldInv, FilesTyped
<1>6. CASE ReadFile(g) \/ WriteFile(g) \/ NoTransfer(g) \/ GetFileSize(g)
           \/ \E pos \in 0 .. MaxFileSize : SetFilePointer(g, pos)
  <2>1. Finish(g, "use") /\ UNCHANGED <<streams, opened, table, handles>>
    BY <1>6 DEF ReadFile, WriteFile, NoTransfer, GetFileSize, SetFilePointer
  <2> QED
    BY <2>1, Finishes
<1> QED
  BY <1>1, <1>2, <1>3, <1>5, <1>6, OpenHeld, AllocHandleHeld, PublishHeld, CloseHeld, DestroyHeld
  DEF FileCall

LEMMA UnchangedHeld ==
  ASSUME HeldInv, UNCHANGED <<streams, opened, table, handles, stage, stream, handle>>
  PROVE  HeldInv'
BY DEF HeldInv, FilesTyped, FileCallInv, HandlesApart, TableInv, HeldOnce, Held

THEOREM FilesHeld == FilesSafety => []HeldInv
<1>1. HeldInv /\ [FilesNext]_filesVars => HeldInv'
  <2> SUFFICES ASSUME HeldInv, [FilesNext]_filesVars PROVE HeldInv'
    OBVIOUS
  <2>1. ASSUME NEW s \in Streams, BufferFull(s) PROVE HeldInv'
    BY <2>1, UnchangedHeld DEF BufferFull
  <2>2. CASE UNCHANGED filesVars
    BY <2>2, UnchangedHeld DEF filesVars, hostVars
  <2> QED
    BY <2>1, <2>2, FileCallHeld DEF FilesNext
<1> QED
  BY HeldInit, <1>1, PTL DEF FilesSafety

(* Every FILE that is open can be closed, by one handle and once, and no   *)
(* handle stands for a FILE that is closed, however calls interleave.      *)
THEOREM FilesAreHeldOnce == FilesSafety => []StreamsHeld
<1>1. HeldInv => StreamsHeld
  <2> SUFFICES ASSUME HeldInv, NEW s \in Streams
               PROVE  IF s \in streams THEN \E c \in Holders(s) : Holders(s) = {c}
                      ELSE Holders(s) = {}
    BY DEF StreamsHeld
  <2>1. HeldOnce
    BY DEF HeldInv
  <2>2. CASE s \notin streams
    BY <2>1, <2>2 DEF HeldOnce, Held, Holders
  <2>3. CASE s \in streams /\ \E h \in FileHandles : table[h] = s
    <3>1. PICK h \in FileHandles : table[h] = s
      BY <2>3
    <3>2. Holders(s) = {<<h, "table">>}
      BY <2>1, <3>1 DEF HeldOnce, Holders
    <3> QED
      BY <2>3, <3>2
  <2>4. CASE s \in streams /\ \E g \in FileGuests : stream[g] = s
    <3>1. PICK g \in FileGuests : stream[g] = s
      BY <2>4
    <3>2. Holders(s) = {<<g, "call">>}
      BY <2>1, <3>1 DEF HeldOnce, Holders
    <3> QED
      BY <2>4, <3>2
  <2> QED
    BY <2>1, <2>2, <2>3, <2>4 DEF HeldOnce, Held
<1> QED
  BY FilesHeld, <1>1, PTL
-----------------------------------------------------------------------------
(* What is written and closed stays *)

FileRecords ==
  [path : HostPaths \cup {<<>>}, mode : Modes, pos : Nat, pending : Nat, end : Nat]

HostTyped ==
  /\ exists \subseteq HostPaths
  /\ size \in [HostPaths -> Nat]
  /\ kept \in [HostPaths -> Nat]
  /\ file \in [Streams -> FileRecords]
  /\ streams \subseteq Streams
  /\ \A s \in streams : file[s].path \in HostPaths

(* Flushing a FILE takes its file to the end of what was written to it.    *)
FlushReachesEnd == \A s \in streams : file[s].end <= FlushedSize(s)

HostInv == HostTyped /\ KeptDataStays /\ FlushReachesEnd

Requests == [path : HostPaths \cup {<<>>}, mode : Modes, create : BOOLEAN]

(* A createFile that has yet to open its file names one.                   *)
RequestInv ==
  /\ request \in [FileGuests -> Requests]
  /\ \A g \in FileGuests :
       stage[g] \in {"open", "create", "reopen"} => request[g].path \in HostPaths

LEMMA ModesTyped ==
  /\ \A write \in BOOLEAN, disp \in Dispositions :
       FileMode(write, disp) \in Modes /\ Creates(disp) \in BOOLEAN
  /\ NoRequest \in Requests /\ Unused \in FileRecords
  /\ \A p \in GuestPaths : ResolveGuestPath(p) \in HostPaths
BY DEF FileMode, Modes, Creates, NoRequest, Requests, Unused, FileRecords, HostPaths

(* What flushing a FILE does to the size of its file.                      *)
LEMMA FlushGrows ==
  ASSUME HostTyped, NEW s \in streams
  PROVE  FlushedSize(s) \in Nat /\ size[file[s].path] <= FlushedSize(s)
<1>1. /\ file[s].path \in HostPaths /\ file[s].pos \in Nat /\ file[s].pending \in Nat
      /\ size[file[s].path] \in Nat
  BY DEF HostTyped, FileRecords
<1> QED
  BY <1>1 DEF FlushedSize, Larger

(* A FILE that is left alone reaches as far when its file has grown.       *)
LEMMA FlushMonotone ==
  ASSUME HostTyped, NEW s \in streams, file'[s] = file[s],
         size'[file[s].path] \in Nat, size[file[s].path] <= size'[file[s].path]
  PROVE  FlushedSize(s) <= FlushedSize(s)' /\ FlushedSize(s)' \in Nat
<1>1. /\ file[s].path \in HostPaths /\ file[s].pos \in Nat /\ file[s].pending \in Nat
      /\ size[file[s].path] \in Nat
  BY DEF HostTyped, FileRecords
<1> QED
  BY <1>1 DEF FlushedSize, Larger

(* A FILE s whose file grows to n, and of which the end is still reached.  *)
LEMMA GrowthKept ==
  ASSUME HostInv, NEW s \in streams, NEW n \in Nat, NEW r \in FileRecords,
         n >= size[file[s].path],
         size' = [size EXCEPT ![file[s].path] = n],
         file' = [file EXCEPT ![s] = r],
         streams' \subseteq streams,
         s \in streams' => r.path = file[s].path /\ r.end <= FlushedSize(s)',
         kept' \in [HostPaths -> Nat],
         \A p \in HostPaths \ {file[s].path} : kept'[p] = kept[p],
         kept'[file[s].path] <= n,
         exists' = exists
  PROVE  HostInv'
<1> DEFINE q == file[s].path
<1>1. q \in HostPaths /\ s \in Streams
  BY DEF HostInv, HostTyped
<1>2. /\ \A p \in HostPaths : size'[p] = IF p = q THEN n ELSE size[p]
      /\ \A t \in Streams : file'[t] = IF t = s THEN r ELSE file[t]
      /\ \A p \in HostPaths : size[p] \in Nat
  BY <1>1 DEF HostInv, HostTyped
<1>3. HostTyped'
  <2>1. size' \in [HostPaths -> Nat] /\ file' \in [Streams -> FileRecords]
    BY <1>1 DEF HostInv, HostTyped
  <2>2. \A t \in streams' : file'[t].path \in HostPaths
    BY <1>1, <1>2 DEF HostInv, HostTyped
  <2> QED
    BY <2>1, <2>2 DEF HostInv, HostTyped
<1>4. KeptDataStays'
  BY <1>1, <1>2 DEF HostInv, KeptDataStays
<1>5. FlushReachesEnd'
  <2> SUFFICES ASSUME NEW t \in streams' PROVE file'[t].end <= FlushedSize(t)'
    BY DEF FlushReachesEnd
  <2>1. CASE t = s
    BY <1>1, <1>2, <2>1
  <2>2. CASE t # s
    <3>1. file'[t] = file[t] /\ t \in streams /\ file[t].path \in HostPaths
          /\ file[t].end \in Nat
      BY <1>2, <2>2 DEF HostInv, HostTyped, FileRecords
    <3>2. size'[file[t].path] \in Nat /\ size[file[t].path] <= size'[file[t].path]
      BY <1>2, <3>1
    <3>3. FlushedSize(t) <= FlushedSize(t)' /\ FlushedSize(t)' \in Nat /\ FlushedSize(t) \in Nat
      BY <3>1, <3>2, FlushMonotone, FlushGrows DEF HostInv
    <3>4. file[t].end <= FlushedSize(t)
      BY <3>1 DEF HostInv, FlushReachesEnd
    <3> QED
      BY <3>1, <3>3, <3>4
  <2> QED
    BY <2>1, <2>2
<1> QED
  BY <1>3, <1>4, <1>5 DEF HostInv

LEMMA FlushHost ==
  ASSUME HostInv, NEW s \in streams, NEW pos \in Nat, Flush(s, pos),
         UNCHANGED <<exists, streams, kept>>
  PROVE  HostInv'
<1> DEFINE r == [file[s] EXCEPT !.pending = 0, !.pos = pos]
<1>1. s \in Streams /\ file[s] \in FileRecords /\ file[s].path \in HostPaths
  BY DEF HostInv, HostTyped
<1>2. FlushedSize(s) \in Nat /\ size[file[s].path] <= FlushedSize(s)
  BY FlushGrows DEF HostInv
<1>3. r \in FileRecords /\ r.path = file[s].path /\ r.end = file[s].end /\ r.pending = 0
  BY <1>1 DEF FileRecords
<1>4. file' = [file EXCEPT ![s] = r] /\ size' = [size EXCEPT ![file[s].path] = FlushedSize(s)]
  BY DEF Flush
<1>5. file'[s] = r /\ size'[file[s].path] = FlushedSize(s)
  BY <1>1, <1>4 DEF HostInv, HostTyped
<1>6. r.end <= FlushedSize(s)'
  <2>1. file[s].end <= FlushedSize(s)
    BY DEF HostInv, FlushReachesEnd
  <2>2. FlushedSize(s)' = size'[file[s].path]
    BY <1>3, <1>5 DEF FlushedSize
  <2> QED
    BY <1>3, <1>5, <2>1, <2>2
<1>7. kept[file[s].path] <= FlushedSize(s) /\ kept \in [HostPaths -> Nat]
  <2>1. kept[file[s].path] <= size[file[s].path] /\ kept[file[s].path] \in Nat
        /\ size[file[s].path] \in Nat
    BY <1>1 DEF HostInv, HostTyped, KeptDataStays
  <2> QED
    BY <1>2, <2>1 DEF HostInv, HostTyped
<1> HIDE DEF r
<1> QED
  BY <1>2, <1>3, <1>4, <1>6, <1>7, GrowthKept

LEMMA WrittenTyped ==
  ASSUME NEW f \in FileRecords, NEW pos \in Nat, NEW pending \in Nat, NEW end \in Nat
  PROVE  [f EXCEPT !.pos = pos, !.pending = pending, !.end = end] \in FileRecords
BY DEF FileRecords

LEMMA WriteHost ==
  ASSUME HostInv, NEW g \in FileGuests, NEW s \in streams, s = Stream(g), WriteFile(g)
  PROVE  HostInv'
<1> DEFINE start == IF file[s].mode = "ab" THEN size[file[s].path] + file[s].pending
                    ELSE file[s].pos
           r == [file[s] EXCEPT !.pos = start + 1, !.pending = @ + 1,
                                !.end = Larger(@, start + 1)]
           n == size[file[s].path]
<1>1. s \in streams /\ s \in Streams /\ file[s] \in FileRecords /\ file[s].path \in HostPaths
  BY DEF HostInv, HostTyped
<1>2. file[s].pos \in Nat /\ file[s].pending \in Nat /\ file[s].end \in Nat /\ n \in Nat
  BY <1>1 DEF HostInv, HostTyped, FileRecords
<1>3. start \in Nat
  BY <1>2
<1>4. file' = [file EXCEPT ![s] = r] /\ UNCHANGED <<exists, size, streams, kept>>
  BY DEF WriteFile
<1> HIDE DEF start
<1>5. Larger(file[s].end, start + 1) \in Nat
  BY <1>2, <1>3 DEF Larger
<1>6. /\ r.path = file[s].path /\ r.mode = file[s].mode /\ r.pos = start + 1
      /\ r.pending = file[s].pending + 1 /\ r.end = Larger(file[s].end, start + 1)
  BY <1>1 DEF FileRecords
<1>7. r \in FileRecords
  <2>1. start + 1 \in Nat /\ file[s].pending + 1 \in Nat
    BY <1>2, <1>3
  <2> QED
    BY <1>1, <1>5, <2>1, WrittenTyped
<1> HIDE DEF r
<1>8. file'[s] = r
  BY <1>1, <1>4 DEF HostInv, HostTyped
<1>9. FlushedSize(s)' = IF r.mode = "ab" THEN n + r.pending ELSE Larger(n, r.pos)
  BY <1>2, <1>4, <1>6, <1>8 DEF FlushedSize
<1>10. r.end <= FlushedSize(s)'
  <2>1. file[s].end <= FlushedSize(s)
    BY <1>1 DEF HostInv, FlushReachesEnd
  <2>2. FlushedSize(s) = IF file[s].pending = 0 THEN n
                         ELSE IF file[s].mode = "ab" THEN n + file[s].pending
                         ELSE Larger(n, file[s].pos)
    BY DEF FlushedSize
  <2> QED
    BY <1>2, <1>3, <1>6, <1>9, <2>1, <2>2 DEF start, Larger
<1>11. kept[file[s].path] <= n /\ kept \in [HostPaths -> Nat] /\ n >= size[file[s].path]
  BY <1>1, <1>2 DEF HostInv, HostTyped, KeptDataStays
<1>12. size' = [size EXCEPT ![file[s].path] = n]
  BY <1>1, <1>4 DEF HostInv, HostTyped
<1> HIDE DEF n
<1> QED
  BY <1>1, <1>2, <1>4, <1>6, <1>7, <1>10, <1>11, <1>12, GrowthKept

LEMMA CloseHost ==
  ASSUME HostInv, NEW g \in FileGuests, NEW h \in FileHandles, table[h] \in streams,
         CloseFile(g, h)
  PROVE  HostInv'
<1> DEFINE s == table[h]
           q == file[s].path
<1>1. s \in streams /\ s \in Streams /\ q \in HostPaths /\ file[s].end \in Nat
      /\ kept[q] \in Nat /\ size[q] \in Nat
  BY DEF HostInv, HostTyped, FileRecords
<1>2. FlushedSize(s) \in Nat /\ size[q] <= FlushedSize(s)
  BY <1>1, FlushGrows DEF HostInv
<1>3. /\ size' = [size EXCEPT ![q] = FlushedSize(s)]
      /\ file' = [file EXCEPT ![s] = Unused]
      /\ streams' = streams \ {s}
      /\ kept' = [kept EXCEPT ![q] = Larger(@, file[s].end)]
      /\ exists' = exists
  BY DEF CloseFile, KeepWritten
<1>4. file[s].end <= FlushedSize(s) /\ kept[q] <= size[q]
  BY <1>1 DEF HostInv, FlushReachesEnd, KeptDataStays
<1>5. Larger(kept[q], file[s].end) \in Nat /\ Larger(kept[q], file[s].end) <= FlushedSize(s)
  BY <1>1, <1>2, <1>4 DEF Larger
<1>6. /\ kept' \in [HostPaths -> Nat] /\ kept'[q] <= FlushedSize(s)
      /\ \A p \in HostPaths \ {q} : kept'[p] = kept[p]
  BY <1>1, <1>3, <1>5 DEF HostInv, HostTyped
<1>7. Unused \in FileRecords
  BY ModesTyped
<1> HIDE DEF s
<1> QED
  BY <1>1, <1>2, <1>3, <1>6, <1>7, GrowthKept

(* A file that may be emptied, under those who have it open, and FILEs     *)
(* that are opened of it: nothing is kept of it, and nothing was written   *)
(* through those FILEs.                                                    *)
LEMMA OpenedHost ==
  ASSUME HostInv, NEW p \in HostPaths, NEW mode \in Modes, NEW new \in SUBSET Streams,
         streams' = streams \cup new,
         exists' = exists \cup {p},
         file' \in [Streams -> FileRecords],
         \A s \in new : file'[s].path = p /\ file'[s].pending = 0 /\ file'[s].end = 0,
         \A s \in streams \ new :
           file'[s] = IF mode = "wb" /\ file[s].path = p THEN [file[s] EXCEPT !.end = 0] ELSE file[s],
         size' = IF mode = "wb" THEN [size EXCEPT ![p] = 0] ELSE size,
         kept' = IF mode = "wb" THEN [kept EXCEPT ![p] = 0] ELSE kept
  PROVE  HostInv'
<1>1. /\ \A q \in HostPaths : size'[q] = IF mode = "wb" /\ q = p THEN 0 ELSE size[q]
      /\ \A q \in HostPaths : kept'[q] = IF mode = "wb" /\ q = p THEN 0 ELSE kept[q]
      /\ size' \in [HostPaths -> Nat] /\ kept' \in [HostPaths -> Nat]
      /\ \A q \in HostPaths : size[q] \in Nat /\ kept[q] \in Nat
  BY DEF HostInv, HostTyped
<1>2. ASSUME NEW t \in streams \ new
      PROVE  /\ file'[t].path = file[t].path
             /\ file'[t].mode = file[t].mode /\ file'[t].pos = file[t].pos
             /\ file'[t].pending = file[t].pending
             /\ file'[t].end = IF mode = "wb" /\ file[t].path = p THEN 0 ELSE file[t].end
  <2>1. t \in Streams /\ file[t] \in FileRecords
    BY DEF HostInv, HostTyped
  <2> QED
    BY <2>1 DEF FileRecords
<1>3. HostTyped'
  BY <1>1, <1>2 DEF HostInv, HostTyped
<1>4. KeptDataStays'
  BY <1>1 DEF HostInv, KeptDataStays
<1>5. FlushReachesEnd'
  <2> SUFFICES ASSUME NEW t \in streams' PROVE file'[t].end <= FlushedSize(t)'
    BY DEF FlushReachesEnd
  <2>1. CASE t \in new
    BY <1>1, <2>1 DEF FlushedSize
  <2>2. CASE t \notin new
    <3>1. t \in streams /\ file[t].path \in HostPaths /\ file[t].end \in Nat
          /\ file[t].pos \in Nat /\ file[t].pending \in Nat
      BY <2>2 DEF HostInv, HostTyped, FileRecords
    <3>2. file[t].end <= FlushedSize(t)
      BY <3>1 DEF HostInv, FlushReachesEnd
    <3>3. size'[file[t].path] \in Nat
      BY <1>1, <3>1
    <3>4. CASE mode = "wb" /\ file[t].path = p
      BY <1>2, <2>2, <3>1, <3>3, <3>4 DEF FlushedSize, Larger
    <3>5. CASE ~(mode = "wb" /\ file[t].path = p)
      BY <1>1, <1>2, <2>2, <3>1, <3>2, <3>5 DEF FlushedSize
    <3> QED
      BY <3>4, <3>5
  <2> QED
    BY <2>1, <2>2
<1> QED
  BY <1>3, <1>4, <1>5 DEF HostInv

LEMMA EmptiedTyped ==
  ASSUME HostTyped, NEW p \in HostPaths
  PROVE  Emptied(p) \in [Streams -> FileRecords]
BY DEF Emptied, HostTyped, FileRecords

LEMMA FopenHost ==
  ASSUME HostInv, FilesTyped, NEW g \in FileGuests, NEW p \in HostPaths, NEW mode \in Modes,
         Fopen(g, p, mode)
  PROVE  HostInv'
<1> DEFINE new == opened + 1
           fresh == [Unused EXCEPT !.path = p, !.mode = mode]
           others == IF mode = "wb" THEN Emptied(p) ELSE file
<1>1. new \in Streams
  BY FilesAssumption DEF Fopen, FilesTyped, Streams
<1>2. /\ streams' = streams \cup {new}
      /\ exists' = exists \cup {p}
      /\ file' = [others EXCEPT ![new] = fresh]
  BY DEF Fopen
<1>3. fresh \in FileRecords /\ fresh.path = p /\ fresh.pending = 0 /\ fresh.end = 0
  BY DEF FileRecords, Unused
<1>4. others \in [Streams -> FileRecords]
  BY EmptiedTyped DEF HostInv, HostTyped
<1>5. \A s \in streams : others[s] =
        IF mode = "wb" /\ file[s].path = p THEN [file[s] EXCEPT !.end = 0] ELSE file[s]
  BY DEF Emptied, HostInv, HostTyped
<1>6. /\ size' = IF mode = "wb" THEN [size EXCEPT ![p] = 0] ELSE size
      /\ kept' = IF mode = "wb" THEN [kept EXCEPT ![p] = 0] ELSE kept
  BY DEF Fopen, Empty
<1> HIDE DEF new, fresh, others
<1>7. file' \in [Streams -> FileRecords] /\ file'[new] = fresh
      /\ \A s \in streams \ {new} : file'[s] = others[s]
  BY <1>1, <1>2, <1>3, <1>4 DEF HostInv, HostTyped
<1> DEFINE added == {new}
<1>8. \A s \in streams \ added : file'[s] =
        IF mode = "wb" /\ file[s].path = p THEN [file[s] EXCEPT !.end = 0] ELSE file[s]
  BY <1>5, <1>7
<1>9. \A s \in added : file'[s].path = p /\ file'[s].pending = 0 /\ file'[s].end = 0
  BY <1>3, <1>7
<1>10. added \in SUBSET Streams /\ streams' = streams \cup added
  BY <1>1, <1>2
<1>11. exists' = exists \cup {p} /\ file' \in [Streams -> FileRecords]
  BY <1>2, <1>7
<1> HIDE DEF added
<1> QED
  BY <1>6, <1>8, <1>9, <1>10, <1>11, OpenedHost

(* A guest that creates its file empties it, also when it was there.       *)
LEMMA CreateHost ==
  ASSUME HostInv, NEW g \in FileGuests, request[g].path \in HostPaths, CreateForWriting(g)
  PROVE  HostInv'
<1> DEFINE p == request[g].path
<1>1. /\ streams' = streams /\ exists' = exists \cup {p} /\ file' = Emptied(p)
      /\ size' = [size EXCEPT ![p] = 0] /\ kept' = [kept EXCEPT ![p] = 0]
  BY DEF CreateForWriting, Empty
<1>2. file' \in [Streams -> FileRecords]
  BY <1>1, EmptiedTyped DEF HostInv
<1>3. \A s \in streams : file'[s] =
        IF "wb" = "wb" /\ file[s].path = p THEN [file[s] EXCEPT !.end = 0] ELSE file[s]
  BY <1>1 DEF Emptied, HostInv, HostTyped
<1> HIDE DEF p
<1>4. p \in HostPaths /\ {} \in SUBSET Streams /\ "wb" \in Modes
  BY DEF p, Modes
<1> QED
  BY <1>1, <1>2, <1>3, <1>4, OpenedHost

(* A step after which a guest opens nothing, or still does.                *)
LEMMA RequestsKept ==
  ASSUME RequestInv, stage \in [FileGuests -> Stages], NEW g \in FileGuests, NEW to \in Stages,
         stage' = [stage EXCEPT ![g] = to],
         \/ request' = request
         \/ request' = [request EXCEPT ![g] = NoRequest],
         to \in {"open", "create", "reopen"}
           => stage[g] \in {"open", "create", "reopen"} /\ request' = request
  PROVE  RequestInv'
<1>1. \A f \in FileGuests : stage'[f] = IF f = g THEN to ELSE stage[f]
  OBVIOUS
<1>2. /\ request' \in [FileGuests -> Requests]
      /\ \A f \in FileGuests \ {g} : request'[f] = request[f]
  BY ModesTyped DEF RequestInv
<1> QED
  BY <1>1, <1>2 DEF RequestInv

LEMMA FileCallData ==
  ASSUME HeldInv, HostInv, RequestInv, NEW g \in FileGuests, FileCall(g)
  PROVE  HostInv' /\ RequestInv'
<1> USE DEF hostVars
<1>1. /\ stage \in [FileGuests -> Stages] /\ FilesTyped
      /\ \A h \in FileHandles : table[h] \in Streams => table[h] \in streams
      /\ stage[g] = "use" => Stream(g) \in streams
  BY DEF HeldInv, FilesTyped, HeldOnce, Held, FileCallInv, Stream
<1>2. ASSUME UNCHANGED hostVars PROVE HostInv'
  BY <1>2 DEF HostInv, HostTyped, KeptDataStays, FlushReachesEnd, FlushedSize
<1>3. ASSUME NEW from \in Stages, Finish(g, from) PROVE RequestInv'
  <2>1. stage' = [stage EXCEPT ![g] = "idle"] /\ request' = [request EXCEPT ![g] = NoRequest]
    BY <1>3 DEF Finish, Move
  <2> QED
    BY <1>1, <1>3, <2>1, RequestsKept DEF Stages
<1>4. ASSUME NEW to \in {"publish", "use", "erase"}, stage' = [stage EXCEPT ![g] = to],
             request' = request
      PROVE  RequestInv'
  BY <1>1, <1>4, RequestsKept DEF Stages
<1>5. ASSUME NEW p \in GuestPaths, NEW write \in BOOLEAN, NEW disp \in Dispositions,
             CreateFile(g, p, write, disp)
      PROVE  HostInv' /\ RequestInv'
  <2> DEFINE r == [path |-> ResolveGuestPath(p), mode |-> FileMode(write, disp),
                   create |-> Creates(disp)]
  <2>1. /\ stage' = [stage EXCEPT ![g] = "open"] /\ request' = [request EXCEPT ![g] = r]
        /\ UNCHANGED hostVars
    BY <1>5 DEF CreateFile, Move
  <2>2. r \in Requests /\ r.path \in HostPaths
    BY ModesTyped DEF Requests
  <2> HIDE DEF r
  <2>3. /\ \A f \in FileGuests : stage'[f] = IF f = g THEN "open" ELSE stage[f]
        /\ \A f \in FileGuests : request'[f] = IF f = g THEN r ELSE request[f]
        /\ request' \in [FileGuests -> Requests]
    BY <1>1, <2>1, <2>2 DEF RequestInv
  <2>4. RequestInv'
    BY <2>2, <2>3 DEF RequestInv
  <2> QED
    BY <1>2, <2>1, <2>4
<1>6. CASE Open(g)
  <2>1. /\ stage[g] \in {"open", "reopen"} /\ stage' = [stage EXCEPT ![g] = "handle"]
        /\ request' = [request EXCEPT ![g] = NoRequest]
        /\ Fopen(g, request[g].path, request[g].mode)
    BY <1>6 DEF Open, Move
  <2>2. request[g].path \in HostPaths /\ request[g].mode \in Modes
    BY <2>1 DEF RequestInv, Requests
  <2>3. HostInv'
    BY <1>1, <2>1, <2>2, FopenHost
  <2>4. RequestInv'
    BY <1>1, <2>1, RequestsKept DEF Stages
  <2> QED
    BY <2>3, <2>4
<1>7. CASE FopenFails(g)
  <2>1. HostInv'
    BY <1>2, <1>7 DEF FopenFails
  <2>2. CASE stage[g] = "open" /\ request[g].create
    <3>1. stage' = [stage EXCEPT ![g] = "create"] /\ request' = request
      BY <1>7, <2>2 DEF FopenFails, Move
    <3> QED
      BY <1>1, <2>1, <2>2, <3>1, RequestsKept DEF Stages
  <2>3. CASE ~(stage[g] = "open" /\ request[g].create)
    BY <1>3, <1>7, <2>1, <2>3 DEF FopenFails, Stages
  <2> QED
    BY <2>2, <2>3
<1>8. CASE CreateForWriting(g)
  <2>1. stage[g] = "create" /\ stage' = [stage EXCEPT ![g] = "reopen"] /\ request' = request
    BY <1>8 DEF CreateForWriting, Move
  <2>2. request[g].path \in HostPaths
    BY <2>1 DEF RequestInv
  <2>3. HostInv'
    BY <1>8, <2>2, CreateHost
  <2>4. RequestInv'
    BY <1>1, <2>1, RequestsKept DEF Stages
  <2> QED
    BY <2>3, <2>4
<1>10. CASE AllocHandle(g)
  BY <1>2, <1>4, <1>10 DEF AllocHandle, Move
<1>11. CASE Publish(g)
  BY <1>2, <1>3, <1>11 DEF Publish, Stages
<1>12. ASSUME NEW h \in FileHandles, UseFile(g, h) PROVE HostInv' /\ RequestInv'
  BY <1>2, <1>4, <1>12 DEF UseFile, Move
<1>13. ASSUME NEW h \in FileHandles, CloseFile(g, h) PROVE HostInv' /\ RequestInv'
  <2>1. table[h] \in streams
    BY <1>1, <1>13 DEF CloseFile
  <2>2. stage' = [stage EXCEPT ![g] = "erase"] /\ request' = request
    BY <1>13 DEF CloseFile, Move
  <2> QED
    BY <1>4, <1>13, <2>1, <2>2, CloseHost
<1>14. CASE WriteFile(g)
  <2>1. stage[g] = "use" /\ Finish(g, "use")
    BY <1>14 DEF WriteFile, Finish, Move
  <2> QED
    BY <1>1, <1>3, <1>14, <2>1, WriteHost DEF Stages
<1>15. CASE NoTransfer(g)
  BY <1>2, <1>3, <1>15 DEF NoTransfer, Stages
<1>16. ASSUME NEW pos \in Nat, Finish(g, "use"), Flush(Stream(g), pos),
              UNCHANGED <<exists, streams, kept>>
       PROVE  HostInv' /\ RequestInv'
  <2>1. Stream(g) \in streams
    BY <1>1, <1>16 DEF Finish, Move
  <2> QED
    BY <1>3, <1>16, <2>1, FlushHost DEF Stages
<1>17. CASE ReadFile(g)
  <2> DEFINE s == Stream(g)
  <2>1. s \in streams
    BY <1>1, <1>17 DEF ReadFile, Finish, Move
  <2>2. file[s].pos \in Nat /\ FlushedSize(s) \in Nat
    BY <2>1, FlushGrows DEF HostInv, HostTyped, FileRecords
  <2>3. Larger(file[s].pos, Smaller(file[s].pos + 1, FlushedSize(s))) \in Nat
    BY <2>2 DEF Larger, Smaller
  <2> QED
    BY <1>16, <1>17, <2>3 DEF ReadFile
<1>18. CASE GetFileSize(g)
  <2>1. file[Stream(g)].pos \in Nat
    BY <1>1, <1>18 DEF GetFileSize, Finish, Move, HostInv, HostTyped, FileRecords
  <2> QED
    BY <1>16, <1>18, <2>1 DEF GetFileSize
<1>19. ASSUME NEW pos \in 0 .. MaxFileSize, SetFilePointer(g, pos) PROVE HostInv' /\ RequestInv'
  BY <1>16, <1>19, FilesAssumption DEF SetFilePointer
<1>20. CASE DestroyObject(g)
  BY <1>2, <1>3, <1>20 DEF DestroyObject, Stages
<1> QED
  BY <1>5, <1>6, <1>7, <1>8, <1>10, <1>11, <1>12, <1>13, <1>14, <1>15, <1>17, <1>18,
     <1>19, <1>20 DEF FileCall

(* What guests wrote and closed stays in the file until an fopen empties   *)
(* it, however calls interleave and fail, opens of one path overlap and    *)
(* buffers fill.                                                           *)
THEOREM KeptDataIsKept == FilesSafety => []KeptDataStays
<1> DEFINE DataInv == HostInv /\ RequestInv
<1>1. FilesInit => DataInv
  <2> SUFFICES ASSUME FilesInit PROVE DataInv
    OBVIOUS
  <2>1. HostTyped /\ KeptDataStays /\ FlushReachesEnd
    BY ModesTyped DEF FilesInit, HostTyped, KeptDataStays, FlushReachesEnd
  <2>2. RequestInv
    BY ModesTyped DEF FilesInit, RequestInv
  <2> QED
    BY <2>1, <2>2 DEF HostInv
<1>2. HeldInv /\ DataInv /\ [FilesNext]_filesVars => DataInv'
  <2> SUFFICES ASSUME HeldInv, DataInv, [FilesNext]_filesVars PROVE DataInv'
    OBVIOUS
  <2>1. ASSUME NEW s \in Streams, BufferFull(s) PROVE DataInv'
    <3>1. /\ s \in streams /\ Flush(s, file[s].pos)
          /\ UNCHANGED <<exists, streams, kept, stage, request>>
      BY <2>1 DEF BufferFull
    <3>2. file[s].pos \in Nat
      BY <3>1 DEF HostInv, HostTyped, FileRecords
    <3>3. RequestInv'
      BY <3>1 DEF RequestInv
    <3> QED
      BY <3>1, <3>2, <3>3, FlushHost
  <2>2. CASE UNCHANGED filesVars
    BY <2>2 DEF filesVars, hostVars, HostInv, HostTyped, KeptDataStays, FlushReachesEnd,
       FlushedSize, RequestInv
  <2> QED
    BY <2>1, <2>2, FileCallData DEF FilesNext
<1>3. DataInv => KeptDataStays
  BY DEF HostInv
<1> HIDE DEF DataInv
<1> QED
  BY <1>1, <1>2, <1>3, FilesHeld, PTL DEF FilesSafety

=============================================================================
