------------------------------- MODULE GuestFiles -------------------------------
(***************************************************************************)
(* The files of the HLE kernel (filesystem.cpp): guest threads open, read, *)
(* write and close host files through handles.  createFile looks at the    *)
(* host's directory up to three times, and takes a handle and publishes it *)
(* under the table's lock separately, so it is split at each of these;     *)
(* every other call is one look at the table and one at the file.          *)
(*                                                                         *)
(* Of a file's contents only the size is kept.  A FILE buffers what is     *)
(* written: it reaches the file when the position is moved, when the FILE  *)
(* is closed, or at any time before.                                       *)
(***************************************************************************)
EXTENDS Naturals, FiniteSets

CONSTANTS
  FileGuests,       \* guest threads that use files
  GuestPaths,       \* paths they name: records of drive, slash and name
  HostDir,          \* m_pathMappings: the directory of each drive
  MaxStreams,       \* bound: FILEs that are ever opened
  MaxFileSize       \* bound: bytes in a file, written one at a time

ASSUME FilesAssumption == MaxStreams \in Nat /\ MaxFileSize \in Nat \ {0}

Streams == 1 .. MaxStreams
FileHandles == 1 .. MaxStreams
NoStream == 0                  \* the handle is not in the table
NullStream == MaxStreams + 1   \* it is, and its hostFile is null
Smaller(a, b) == IF a < b THEN a ELSE b
Larger(a, b) == IF a < b THEN b ELSE a

(* Back slashes become slashes before the prefixes, which end in a back    *)
(* slash, are compared: none matches, and every path is relative to the    *)
(* game's directory, drive and all.                                        *)
Slashed(p) == [p EXCEPT !.slash = "/"]
HasPrefix(p, drive) == p.drive = drive /\ p.slash = "back slash"
ResolveGuestPath(p) ==
  IF \E d \in DOMAIN HostDir : HasPrefix(Slashed(p), d)
  THEN <<HostDir[p.drive], p.name>>
  ELSE <<"gameDir", Slashed(p)>>
HostPaths == {ResolveGuestPath(p) : p \in GuestPaths}

Dispositions == {1, 2, 3, 5}
Creates(disp) == disp \in {2, 3, 5}
FileMode(write, disp) ==
  IF ~(write \/ Creates(disp)) THEN "rb"
  ELSE IF disp = 2 THEN "wb" ELSE IF disp = 5 THEN "ab" ELSE "r+b"
Modes == {"rb", "r+b", "wb", "ab"}

VARIABLES
  exists,           \* host paths at which there is a file
  size,             \* size[p]: its bytes on the host
  streams,          \* FILEs that are open
  file,             \* file[s]: the path, mode, position and buffer of FILE s
  opened,           \* FILEs opened so far
  table,            \* table[h]: hostFile of the object at h in m_objects
  handles,          \* handles taken so far (m_nextHandle)
  stage,            \* stage[g]: where guest g is in a call
  request,          \* request[g]: the path, mode and disposition it opens with
  stream,           \* stream[g]: the FILE that createFile is about to publish
  handle,           \* handle[g]: the handle the call is about
  kept              \* history: kept[p]: end of the data written and closed
                    \* since the file was last emptied

hostVars == <<exists, size, streams, file, opened, kept>>
filesVars == <<hostVars, table, handles, stage, request, stream, handle>>

NoRequest == [path |-> <<>>, mode |-> "rb", create |-> FALSE]
Unused == [path |-> <<>>, mode |-> "rb", pos |-> 0, pending |-> 0, end |-> 0]

FilesInit ==
  /\ exists \in SUBSET HostPaths
  /\ size = [p \in HostPaths |-> IF p \in exists THEN 1 ELSE 0]
  /\ streams = {}
  /\ file = [s \in Streams |-> Unused]
  /\ opened = 0
  /\ table = [h \in FileHandles |-> NoStream]
  /\ handles = 0
  /\ stage = [g \in FileGuests |-> "idle"]
  /\ request = [g \in FileGuests |-> NoRequest]
  /\ stream = [g \in FileGuests |-> NoStream]
  /\ handle = [g \in FileGuests |-> 0]
  /\ kept = size

Move(g, from, to) == stage[g] = from /\ stage' = [stage EXCEPT ![g] = to]

(* A call that returns leaves nothing behind in its guest.                 *)
Finish(g, from) ==
  /\ Move(g, from, "idle")
  /\ request' = [request EXCEPT ![g] = NoRequest]
  /\ stream' = [stream EXCEPT ![g] = NoStream]
  /\ handle' = [handle EXCEPT ![g] = 0]

-----------------------------------------------------------------------------
(* createFile *)

CreateFile(g, p, write, disp) ==
  /\ Move(g, "idle", "open")
  /\ request' = [request EXCEPT ![g] = [path |-> ResolveGuestPath(p),
                    mode |-> FileMode(write, disp), create |-> Creates(disp)]]
  /\ UNCHANGED <<hostVars, table, handles, stream, handle>>

(* fopen.  "wb" empties the file, also under those who have it open.       *)
Emptied(p) == [s \in Streams |-> IF file[s].path = p THEN [file[s] EXCEPT !.end = 0] ELSE file[s]]
Empty(p) ==
  /\ size' = [size EXCEPT ![p] = 0]
  /\ kept' = [kept EXCEPT ![p] = 0]
Fopen(g, p, mode) ==
  /\ opened < MaxStreams
  /\ mode \in {"wb", "ab"} \/ p \in exists
  /\ opened' = opened + 1
  /\ streams' = streams \cup {opened'}
  /\ exists' = exists \cup {p}
  /\ stream' = [stream EXCEPT ![g] = opened']
  /\ file' = [(IF mode = "wb" THEN Emptied(p) ELSE file) EXCEPT
                 ![opened'] = [Unused EXCEPT !.path = p, !.mode = mode]]
  /\ IF mode = "wb" THEN Empty(p) ELSE UNCHANGED <<size, kept>>
Open(g) ==
  /\ \/ Move(g, "open", "handle") \/ Move(g, "reopen", "handle")
  /\ Fopen(g, request[g].path, request[g].mode)
  /\ request' = [request EXCEPT ![g] = NoRequest]
  /\ UNCHANGED <<table, handles, handle>>

(* fopen returns null: there is no such file, or the host refuses.  The    *)
(* first time a disposition that creates goes on, whatever the reason was; *)
(* else it is INVALID_HANDLE_VALUE.                                        *)
FopenFails(g) ==
  /\ IF stage[g] = "open" /\ request[g].create
     THEN Move(g, "open", "create") /\ UNCHANGED <<request, stream, handle>>
     ELSE \E from \in {"open", "create", "reopen"} : Finish(g, from)
  /\ UNCHANGED <<hostVars, table, handles>>

(* The file is created by opening it for writing and closing it again.  If *)
(* it is there by now, or was all the time, that empties it.               *)
CreateForWriting(g) ==
  LET p == request[g].path IN
  /\ Move(g, "create", "reopen")
  /\ exists' = exists \cup {p}
  /\ file' = Emptied(p)
  /\ Empty(p)
  /\ UNCHANGED <<streams, opened, table, handles, request, stream, handle>>

AllocHandle_Late(g) ==
  /\ Move(g, "handle", "publish")
  /\ handle' = [handle EXCEPT ![g] = Cardinality({h \in FileHandles : table[h] # NoStream}) + 1]
  /\ UNCHANGED <<hostVars, table, handles, request, stream>>
AllocHandle(g) ==
  /\ Move(g, "handle", "publish")
  /\ handles < MaxStreams
  /\ handles' = handles + 1
  /\ handle' = [handle EXCEPT ![g] = handles']
  /\ UNCHANGED <<hostVars, table, request, stream>>

Publish(g) ==
  /\ Finish(g, "publish")
  /\ table' = [table EXCEPT ![handle[g]] = stream[g]]
  /\ UNCHANGED <<hostVars, handles>>

-----------------------------------------------------------------------------
(* The calls on an open file *)

(* getObject, for a call that reads, writes, moves or asks for the size.   *)
UseFile(g, h) ==
  /\ Move(g, "idle", "use")
  /\ table[h] \in Streams
  /\ handle' = [handle EXCEPT ![g] = h]
  /\ UNCHANGED <<hostVars, table, handles, request, stream>>

FileUsers(h) == {g \in FileGuests : stage[g] = "use" /\ handle[g] = h}
Stream(g) == table[handle[g]]

(* What is buffered reaches the file: where the position is, or at the end *)
(* of a file that is appended to.                                          *)
FlushedSize(s) ==
  LET f == file[s]
  IN IF f.pending = 0 THEN size[f.path]
     ELSE IF f.mode = "ab" THEN size[f.path] + f.pending
     ELSE Larger(size[f.path], f.pos)
Flush(s, pos) ==
  /\ size' = [size EXCEPT ![file[s].path] = FlushedSize(s)]
  /\ file' = [file EXCEPT ![s].pending = 0, ![s].pos = pos]

BufferFull(s) ==
  /\ s \in streams /\ file[s].pending > 0
  /\ Flush(s, file[s].pos)
  /\ UNCHANGED <<exists, streams, opened, kept, table, handles, stage, request, stream, handle>>

ReadFile(g) ==
  LET s == Stream(g)
  IN /\ Finish(g, "use")
     /\ file[s].mode \in {"rb", "r+b"}
     /\ Flush(s, Larger(file[s].pos, Smaller(file[s].pos + 1, FlushedSize(s))))
     /\ UNCHANGED <<exists, streams, opened, kept, table, handles>>

WriteFile(g) ==
  LET s == Stream(g)
      start == IF file[s].mode = "ab" THEN size[file[s].path] + file[s].pending ELSE file[s].pos
  IN /\ Finish(g, "use")
     /\ file[s].mode # "rb"
     /\ start < MaxFileSize
     /\ file' = [file EXCEPT ![s].pos = start + 1, ![s].pending = @ + 1,
                             ![s].end = Larger(@, start + 1)]
     /\ UNCHANGED <<exists, size, streams, opened, kept, table, handles>>

(* fread from a file opened for writing, fwrite to one opened for reading  *)
(* and a size that the guest only asks for leave the file as it was.       *)
NoTransfer(g) ==
  /\ Finish(g, "use")
  /\ file[Stream(g)].mode # "r+b"
  /\ UNCHANGED <<hostVars, table, handles>>

(* getFileSize goes to the end and back; setFilePointer goes anywhere.     *)
GetFileSize(g) ==
  /\ Finish(g, "use")
  /\ Flush(Stream(g), file[Stream(g)].pos)
  /\ UNCHANGED <<exists, streams, opened, kept, table, handles>>
SetFilePointer(g, pos) ==
  /\ Finish(g, "use")
  /\ Flush(Stream(g), pos)
  /\ UNCHANGED <<exists, streams, opened, kept, table, handles>>

(* closeHandle: fclose, and then the object.  A guest that closes a handle *)
(* while another uses it leaves a pointer to a FILE that is gone; guests   *)
(* do not do that here, as nothing in the code protects one that does.     *)
KeepWritten(s) == kept' = [kept EXCEPT ![file[s].path] = Larger(@, file[s].end)]
CloseFile_Unflushed(g, h) ==
  LET s == table[h] IN
  /\ Move(g, "idle", "erase")
  /\ s \in Streams /\ FileUsers(h) = {}
  /\ streams' = streams \ {s}
  /\ KeepWritten(s)
  /\ table' = [table EXCEPT ![h] = NullStream]
  /\ handle' = [handle EXCEPT ![g] = h]
  /\ file' = [file EXCEPT ![s] = Unused]
  /\ UNCHANGED <<exists, size, opened, handles, request, stream>>
CloseFile(g, h) ==
  LET s == table[h] IN
  /\ Move(g, "idle", "erase")
  /\ s \in Streams /\ FileUsers(h) = {}
  /\ size' = [size EXCEPT ![file[s].path] = FlushedSize(s)]
  /\ file' = [file EXCEPT ![s] = Unused]
  /\ streams' = streams \ {s}
  /\ KeepWritten(s)
  /\ table' = [table EXCEPT ![h] = NullStream]
  /\ handle' = [handle EXCEPT ![g] = h]
  /\ UNCHANGED <<exists, opened, handles, request, stream>>
DestroyObject(g) ==
  /\ Finish(g, "erase")
  /\ table' = [table EXCEPT ![handle[g]] = NoStream]
  /\ UNCHANGED <<hostVars, handles>>

-----------------------------------------------------------------------------

FileCall(g) ==
  \/ \E p \in GuestPaths, write \in BOOLEAN, disp \in Dispositions : CreateFile(g, p, write, disp)
  \/ Open(g) \/ FopenFails(g) \/ CreateForWriting(g)
  \/ AllocHandle(g) \/ Publish(g)
  \/ \E h \in FileHandles : UseFile(g, h) \/ CloseFile(g, h)
  \/ ReadFile(g) \/ WriteFile(g) \/ NoTransfer(g) \/ GetFileSize(g)
  \/ \E pos \in 0 .. MaxFileSize : SetFilePointer(g, pos)
  \/ DestroyObject(g)

FilesNext == (\E g \in FileGuests : FileCall(g)) \/ \E s \in Streams : BufferFull(s)

FilesSafety == FilesInit /\ [][FilesNext]_filesVars

-----------------------------------------------------------------------------
(* Properties *)

(* Who can still reach a FILE: a handle in the table, or the createFile    *)
(* that opened it.                                                         *)
Holders(s) ==
  {h \in FileHandles : table[h] = s} \X {"table"}
    \cup {g \in FileGuests : stream[g] = s} \X {"call"}

(* Every FILE that is open is held exactly once, so that it can be closed  *)
(* and is closed once, and nobody holds a FILE that is not: not after      *)
(* files that had to be created, and not when guests take their handles    *)
(* and publish them in different orders.                                   *)
StreamsHeld ==
  \A s \in Streams : IF s \in streams THEN \E c \in Holders(s) : Holders(s) = {c}
                     ELSE Holders(s) = {}

(* What guests wrote and closed stays in the file until an fopen empties   *)
(* it, however many FILEs of it are buffered, moved and closed at once and *)
(* whichever calls fail.                                                   *)
KeptDataStays == \A p \in HostPaths : kept[p] <= size[p]
===============================================================================
