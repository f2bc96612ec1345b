------------------------------ MODULE StfsParser ------------------------------
(***************************************************************************)
(* The parser of STFS packages (stfs_parser.cpp): open() checks the size   *)
(* and the magic, reads the header, and lists the entries of the first     *)
(* directory blocks.  One action is one round of the loop over a block.    *)
(*                                                                         *)
(* A package is a record: whether it has one of the three magics and the   *)
(* bytes of a header, and its blocks from STFS_HEADER_SIZE on, each read   *)
(* as a sequence of entries whatever it holds: the volume descriptor is    *)
(* not read, so that data behind a short table is listed, and a table that *)
(* is elsewhere or longer is not.  A file is known by its position.        *)
(***************************************************************************)
EXTENDS Naturals, SequencesExt, FiniteSetsExt

CONSTANTS
  Packages,         \* files that are opened
  DirBlocks,        \* 4: blocks that are read as a directory
  BlockEntries,     \* 64: entries of a block
  EndEntry,         \* an entry whose name starts with a zero byte
  DeletedEntry,     \* an entry whose name starts with 0xE5
  NoPackage

VARIABLES
  stfsStatus,       \* of the parser: "closed", "reading", "open" or "refused"
  package,          \* the file that is read
  block, slot,      \* blk and e
  pkgFiles          \* pkg.files: where each entry comes from

stfsVars == <<stfsStatus, package, block, slot, pkgFiles>>

StfsInit ==
  /\ stfsStatus = "closed"
  /\ package = NoPackage
  /\ block = 1 /\ slot = 1
  /\ pkgFiles = <<>>

-----------------------------------------------------------------------------
(* open() leaves the files that outPkg holds already where they are.       *)
OpenPackage(p) ==
  /\ stfsStatus # "reading"
  /\ stfsStatus' = IF p.hasMagic /\ p.hasHeader THEN "reading" ELSE "refused"
  /\ package' = p
  /\ block' = 1 /\ slot' = 1
  /\ UNCHANGED pkgFiles

(* The caller's parser and package are local to one call.                  *)
DropPackage ==
  /\ stfsStatus # "reading"
  /\ stfsStatus' = "closed" /\ package' = NoPackage
  /\ block' = 1 /\ slot' = 1
  /\ pkgFiles' = <<>>

Blocks(p) == Min({Len(p.blocks), DirBlocks})
SlotEntry == package.blocks[block][slot]
NextBlock == block' = block + 1 /\ slot' = 1
NextSlot == slot' = slot + 1 /\ UNCHANGED block

(* An entry that starts with zero ends its block, and only its block; a    *)
(* deleted one is passed over.                                             *)
ReadEntry_EndsAtDeleted ==
  /\ stfsStatus = "reading" /\ block <= Blocks(package)
  /\ IF slot > BlockEntries THEN NextBlock /\ UNCHANGED pkgFiles
     ELSE IF SlotEntry \in {EndEntry, DeletedEntry} THEN NextBlock /\ UNCHANGED pkgFiles
     ELSE NextSlot /\ pkgFiles' = Append(pkgFiles, <<block, slot>>)
  /\ UNCHANGED <<stfsStatus, package>>
ReadEntry ==
  /\ stfsStatus = "reading" /\ block <= Blocks(package)
  /\ IF slot > BlockEntries THEN NextBlock /\ UNCHANGED pkgFiles
     ELSE IF SlotEntry = EndEntry THEN NextBlock /\ UNCHANGED pkgFiles
     ELSE IF SlotEntry = DeletedEntry THEN NextSlot /\ UNCHANGED pkgFiles
     ELSE NextSlot /\ pkgFiles' = Append(pkgFiles, <<block, slot>>)
  /\ UNCHANGED <<stfsStatus, package>>

PackageOpened ==
  /\ stfsStatus = "reading" /\ block > Blocks(package)
  /\ stfsStatus' = "open"
  /\ UNCHANGED <<package, block, slot, pkgFiles>>

StfsStep == ReadEntry \/ PackageOpened

-----------------------------------------------------------------------------
(* Properties *)

(* The entries in use of the blocks that are read, by block and slot.      *)
PackageContents(p) ==
  IF p = NoPackage \/ ~p.hasMagic \/ ~p.hasHeader THEN {}
  ELSE {u \in (1 .. Blocks(p)) \X (1 .. BlockEntries) :
          /\ p.blocks[u[1]][u[2]] # DeletedEntry
          /\ \A r \in 1 .. u[2] : p.blocks[u[1]][r] # EndEntry}

ASSUME PackagesAssumption ==
  /\ DirBlocks \in Nat /\ BlockEntries \in Nat \ {0} /\ NoPackage \notin Packages
  /\ \A p \in Packages : Len(p.blocks) \in Nat

(* Opening a package lists every entry in use of the blocks that are read  *)
(* once, whichever of them end early and however many entries are deleted, *)
(* lists nothing else, and ends.                                           *)
StfsCatalog == INSTANCE Catalog WITH
  status <- stfsStatus, contents <- PackageContents(package), listed <- pkgFiles
StfsListsPackage == StfsCatalog!CatalogSpec
===============================================================================
