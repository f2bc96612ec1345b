------------------------------ MODULE MCGameLoad ------------------------------
(* Instances of GameLoad for TLC.                                          *)
EXTENDS GameLoad

CONSTANTS a, b, c, d

(* Executables: one of each refusal, one whose format the signature hides, *)
(* one at the end of memory, one without an entry point, one with two.     *)
Xex(base, signature, directory) ==
  [hasHeader |-> TRUE, hasSecurity |-> TRUE, loadAddress |-> base, length |-> 4,
   signature |-> [format |-> signature, address |-> 0], directory |-> directory]
Key(k, v) == [key |-> k, value |-> v]
MCXexFiles ==
  {[Xex(0, "none", <<>>) EXCEPT !.hasHeader = FALSE],
   [Xex(0, "none", <<>>) EXCEPT !.hasSecurity = FALSE],
   Xex(2, "other", <<Key("entryPoint", 2), Key("fileFormat", "basic")>>),
   Xex(2, "none", <<Key("executionInfo", 3), Key("entryPoint", 3), Key("fileFormat", "none")>>),
   Xex(4, "normal", <<Key("entryPoint", 5), Key("systemFlags", 0), Key("entryPoint", 6)>>),
   Xex(4, "basic", <<Key("executionInfo", 9)>>),
   Xex(6, "basic", <<Key("entryPoint", 7)>>)}

(* Packages: refused, without a block, with a table of one or two blocks,  *)
(* full or with deleted entries, with data behind the table, with a table  *)
(* behind other blocks, and with more blocks than are read.                *)
Package(blocks) == [hasMagic |-> TRUE, hasHeader |-> TRUE, blocks |-> blocks]
MCEmpty == <<EndEntry, a, EndEntry>>
MCPackages ==
  {[Package(<<>>) EXCEPT !.hasMagic = FALSE],
   [Package(<<>>) EXCEPT !.hasHeader = FALSE],
   Package(<<>>),
   Package(<<<<a, DeletedEntry, b>>>>),
   Package(<<<<a, b, EndEntry>>, <<c, c, c>>>>),
   Package(<<<<DeletedEntry, a, EndEntry>>, MCEmpty, <<c, c, c>>>>),
   Package(<<MCEmpty, <<a, a, b>>>>),
   Package(<<<<a, b, c>>, <<d, EndEntry, a>>, <<a, a, a>>>>)}

(* Discs: XDVDFS with a tree of three entries one of which is a directory, *)
(* with directories that are empty, too large or cut off; ISO 9660 with    *)
(* two levels of directories, padding, and an unusable root.               *)
File(name, sector) ==
  [name |-> name, left |-> NoLink, right |-> NoLink, sector |-> sector, size |-> 1,
   isDir |-> FALSE, isDots |-> FALSE]
Dir(name, sector, size) == [File(name, sector) EXCEPT !.isDir = TRUE, !.size = size]
Dots(sector) == [Dir(".", sector, 2) EXCEPT !.isDots = TRUE]
Table(s) == [bytes |-> Len(s), entries |-> [o \in 0 .. Len(s) - 1 |-> s[o + 1]]]
Disc(format, size, dirs) == [format |-> format, root |-> 1, rootSize |-> size, dirs |-> dirs]
MCDiscs ==
  {Disc("neither", 0, <<>>),
   Disc("iso9660", 0, <<Table(<<>>)>>),
   Disc("xdvdfs", 4, <<Table(<<[Dir(a, 2, 2) EXCEPT !.left = 1, !.right = 2], File(b, 5),
                                [File(c, 6) EXCEPT !.left = 3], Dir(d, 3, 9)>>),
                       Table(<<[File(b, 7) EXCEPT !.right = 1, !.left = 9], Dir(a, 3, 1)>>),
                       Table(<<File(NoName, 0)>>)>>),
   Disc("xdvdfs", 3, <<Table(<<[Dir(a, 2, 0) EXCEPT !.left = 1, !.right = 2], File(b, 5),
                               Dir(c, 2, 2)>>),
                       Table(<<File(d, 6)>>)>>),
   Disc("iso9660", 5, <<Table(<<Dots(1), Dots(1), Dir(a, 2, 3), File(NoName, 0), File(b, 5)>>),
                        Table(<<Dots(2), Dots(1), Dir(c, 3, 3)>>),
                        Table(<<Dots(3), Dots(2), File(d, 6)>>)>>)}
MCMaxDirSize == [format \in {"xdvdfs", "iso9660"} |-> IF format = "xdvdfs" THEN 4 ELSE 5]
===============================================================================
