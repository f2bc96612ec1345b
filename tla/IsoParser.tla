------------------------------- MODULE IsoParser -------------------------------
(***************************************************************************)
(* The parser of disc images (iso_parser.cpp): open() recognises XDVDFS or *)
(* ISO 9660 and lists the files of the whole image, directory by           *)
(* directory.  The recursion is a stack of directories; one action is one  *)
(* round of the loop over a directory's entries.                           *)
(*                                                                         *)
(* An image is a record: its format, its root, and the directory that is   *)
(* found at each sector, as the entries at its offsets.  A path is the     *)
(* sequence of its names.                                                  *)
(***************************************************************************)
EXTENDS Naturals, SequencesExt

CONSTANTS
  Discs,            \* images that are opened
  MaxSectors,       \* 2^32 / 2048: byte offsets are 32-bit
  MaxDirSize,       \* the size of a directory that is still read, per format
  MaxDepth,         \* bound: directories within directories
  NoLink,           \* 0xFFFF, a subtree link that is not followed
  NoName,           \* the name of length 0 (or 255) of an unused entry
  NoDisc

VARIABLES
  isoStatus,        \* of the parser: "closed", "reading", "open" or "refused"
  disc,             \* the image in m_file
  walk,             \* the directories being walked, the innermost last
  files             \* m_files

isoVars == <<isoStatus, disc, walk, files>>

IsoInit ==
  /\ isoStatus = "closed"
  /\ disc = NoDisc
  /\ walk = <<>>
  /\ files = <<>>

-----------------------------------------------------------------------------
(* Directories *)

Wrapped(sector) == sector % MaxSectors
Directory(d, sector) == d.dirs[sector]

(* One that is empty, too large or cut off by the end of the image is left *)
(* out, and nothing is said about it.                                      *)
Readable(d, sector, size) ==
  /\ d.format = "xdvdfs" => size > 0
  /\ size <= MaxDirSize[d.format]
  /\ sector \in DOMAIN d.dirs
  /\ size <= Directory(d, sector).bytes

(* The entry at the root of the tree, or the first record.                 *)
Frame(sector, size, prefix) ==
  [sector |-> sector, size |-> size, prefix |-> prefix, todo |-> <<0>>]
Entered(d, sector, size, prefix) ==
  IF Readable(d, sector, size) THEN <<Frame(sector, size, prefix)>> ELSE <<>>

Listed(e, prefix) ==
  [path |-> Append(prefix, e.name), sector |-> Wrapped(e.sector), size |-> e.size, isDir |-> e.isDir]

-----------------------------------------------------------------------------
(* open() and close() *)

OpenDisc(d) ==
  /\ isoStatus # "reading"
  /\ files' = <<>>
  /\ disc' = d
  /\ IF d.format = "neither"
     THEN isoStatus' = "refused" /\ walk' = <<>>
     ELSE isoStatus' = "reading" /\ walk' = Entered(d, d.root, d.rootSize, <<>>)

CloseDisc ==
  /\ isoStatus # "reading"
  /\ isoStatus' = "closed" /\ disc' = NoDisc /\ walk' = <<>> /\ files' = <<>>

(* The directory being walked, and its next entry.                         *)
Walking(format) ==
  /\ isoStatus = "reading"
  /\ disc.format = format
  /\ walk # <<>> /\ Last(walk).todo # <<>>
Offset == Last(Last(walk).todo)
Entry == Directory(disc, Last(walk).sector).entries[Offset]

(* What is left to visit in this directory, and a directory to enter.      *)
Continue(todo, entered) ==
  walk' = Append(Front(walk), [Last(walk) EXCEPT !.todo = todo]) \o entered

(* walkXdvdfsDirectory: an entry lists itself, then its directory if it is *)
(* one, then its right and its left subtree.                               *)
Link(l) == IF l = NoLink THEN <<>> ELSE <<l>>
Links(e) == Link(e.left) \o Link(e.right)
VisitEntry ==
  LET frame == Last(walk)
      rest == Front(frame.todo)
  IN /\ Walking("xdvdfs")
     /\ IF Offset >= frame.size \/ Entry.name = NoName
        THEN Continue(rest, <<>>) /\ UNCHANGED files
        ELSE /\ files' = Append(files, Listed(Entry, frame.prefix))
             /\ Continue(rest \o Links(Entry),
                  IF Entry.isDir THEN Entered(disc, Wrapped(Entry.sector), Entry.size,
                                              Append(frame.prefix, Entry.name))
                  ELSE <<>>)
     /\ UNCHANGED <<isoStatus, disc>>

(* walkIso9660Directory: records follow one another; one of length 0 pads  *)
(* the sector; "." and "..", and a name that is empty without its version, *)
(* are not listed.                                                         *)
Skipped_NoDots(e) == e.name = NoName
Skipped(e) == e.name = NoName \/ e.isDots
VisitRecord ==
  LET frame == Last(walk)
      next == <<Offset + 1>>
  IN /\ Walking("iso9660")
     /\ IF Offset >= frame.size THEN Continue(<<>>, <<>>) /\ UNCHANGED files
        ELSE IF Skipped(Entry) THEN Continue(next, <<>>) /\ UNCHANGED files
        ELSE /\ files' = Append(files, Listed(Entry, frame.prefix))
             /\ Continue(next,
                  IF Entry.isDir /\ Entry.sector # frame.sector
                  THEN Entered(disc, Entry.sector, Entry.size, Append(frame.prefix, Entry.name))
                  ELSE <<>>)
     /\ UNCHANGED <<isoStatus, disc>>

LeaveDirectory ==
  /\ isoStatus = "reading"
  /\ walk # <<>> /\ Last(walk).todo = <<>>
  /\ walk' = Front(walk)
  /\ UNCHANGED <<isoStatus, disc, files>>

(* Whatever the walk found, open() returns true.                           *)
OpenReturns ==
  /\ isoStatus = "reading" /\ walk = <<>>
  /\ isoStatus' = "open"
  /\ UNCHANGED <<disc, walk, files>>

IsoStep == VisitEntry \/ VisitRecord \/ LeaveDirectory \/ OpenReturns
-----------------------------------------------------------------------------
(* Properties *)

(* The files of an image, read off its directories.  A trail leads from    *)
(* the root to a file: each of its entries but the last is a directory,    *)
(* and the next one is an entry in use of that directory.                  *)
InUse(d, s) ==
  LET entries == Directory(d, s).entries
  IN {o \in DOMAIN entries : entries[o].name # NoName /\ ~entries[o].isDots}
Used(d, s) == {Directory(d, s).entries[o] : o \in InUse(d, s)}
Entries(d) == UNION {Used(d, s) : s \in DOMAIN d.dirs}
Opens(d, s, size, e) == Readable(d, s, size) /\ e \in Used(d, s)
Trails(d) ==
  {t \in UNION {[1 .. n -> Entries(d)] : n \in 1 .. MaxDepth + 1} :
     /\ Opens(d, d.root, d.rootSize, t[1])
     /\ \A i \in 1 .. Len(t) - 1 : t[i].isDir /\ Opens(d, t[i].sector, t[i].size, t[i + 1])}
FileOf(t) ==
  LET e == t[Len(t)]
  IN [path |-> [i \in DOMAIN t |-> t[i].name],
      sector |-> e.sector, size |-> e.size, isDir |-> e.isDir]
DiscContents(d) ==
  IF d = NoDisc \/ d.format = "neither" THEN {} ELSE {FileOf(t) : t \in Trails(d)}

(* A directory: an entry or padding at every offset, no name twice.        *)
IsDirectory(d, s) ==
  LET dir == Directory(d, s)
  IN /\ dir.bytes \in Nat /\ DOMAIN dir.entries = 0 .. dir.bytes - 1
     /\ \A o \in InUse(d, s) : dir.entries[o].sector \in Nat /\ dir.entries[o].size \in Nat
     /\ \A o, p \in InUse(d, s) : dir.entries[o].name = dir.entries[p].name => o = p

(* That of an XDVDFS image is a binary tree: whatever holds the first      *)
(* entry and is closed under links holds all that are in use, and no link  *)
(* leads back to the first entry or where another link leads.              *)
Linked(e) == {e.left, e.right} \ {NoLink}
Tree(d, s) ==
  LET e == Directory(d, s).entries
  IN /\ \A o \in DOMAIN e : ~e[o].isDots
     /\ \A o \in InUse(d, s) :
          Linked(e[o]) \subseteq Nat /\ (e[o].left = e[o].right => e[o].left \notin InUse(d, s))
     /\ \A o, p, l \in InUse(d, s) :
          l \in Linked(e[o]) => l # 0 /\ (l \in Linked(e[p]) => o = p)
     /\ \A seen \in SUBSET InUse(d, s) :
          /\ 0 \in InUse(d, s) => 0 \in seen
          /\ \A o \in seen, l \in InUse(d, s) : l \in Linked(e[o]) => l \in seen
          => seen = InUse(d, s)

(* A place that is given for a directory covers the entries in use.        *)
Covers(d, s, size) == Readable(d, s, size) => \A o \in InUse(d, s) : o < size

(* What the walks rely on in an image: its directories are tables, trees   *)
(* in XDVDFS, and not their own ancestors (then MaxDepth is enough for     *)
(* all), and it is less than 4 GB.                                         *)
ASSUME DiscsAssumption ==
  /\ MaxDepth \in Nat /\ MaxSectors \in Nat \ {0} /\ NoDisc \notin Discs
  /\ \A d \in Discs : d.format # "neither" =>
       /\ d.format \in {"xdvdfs", "iso9660"}
       /\ d.root \in Nat /\ d.rootSize \in Nat
       /\ \A s \in DOMAIN d.dirs : IsDirectory(d, s) /\ (d.format = "xdvdfs" => Tree(d, s))
       /\ Covers(d, d.root, d.rootSize)
       /\ \A e \in Entries(d) : e.isDir => Covers(d, e.sector, e.size)
       /\ \A f \in DiscContents(d) : f.sector < MaxSectors /\ Len(f.path) <= MaxDepth

(* Opening an image lists every file in it once, with the path and the     *)
(* place it really has, and ends: however its directories are nested and   *)
(* its trees shaped, and whatever was open before.                         *)
IsoCatalog == INSTANCE Catalog WITH
  status <- isoStatus, contents <- DiscContents(disc), listed <- files
IsoListsDisc == IsoCatalog!CatalogSpec
===============================================================================
