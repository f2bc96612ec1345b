----------------------------- MODULE GameLoadProofs -----------------------------
(***************************************************************************)
(* Theorems about loading games, for every set of executables, packages    *)
(* and images and every series of loads.                                   *)
(***************************************************************************)
EXTENDS GameLoad, SequenceTheorems, WellFoundedInduction, TLAPS

-----------------------------------------------------------------------------
(* Executables *)

ImgShape(i) ==
  i = [baseAddress |-> i.baseAddress, entryPoint |-> i.entryPoint, format |-> i.format,
       raw |-> i.raw]

(* The entry point is that of the last entry among those before n.         *)
EntryBefore(n) ==
  LET seen == {i \in Keyed(xexFile, "entryPoint") : i < n}
  IN seen # {} => \E i \in seen : /\ img.entryPoint = xexFile.directory[i].value
                                  /\ \A j \in seen : j <= i

DirLength(f) == Len(f.directory)
DirEnd == DirLength(xexFile) + 1

XexInv ==
  /\ xexStage # "idle" => xexFile \in XexFiles
  /\ ImgShape(img)
  /\ xexStage = "directory" => dirIndex \in 1 .. DirEnd /\ EntryBefore(dirIndex)
  /\ xexStage \in {"parsed", "loaded"} => EntryBefore(DirEnd)
  /\ xexStage \in {"directory", "parsed", "loaded"} => img.baseAddress = xexFile.loadAddress
  /\ xexStage = "loaded" => img.raw = xexFile

LoadInv == XexInv /\ EngineStartsInImage

LEMMA DirFacts ==
  ASSUME NEW f \in XexFiles
  PROVE  DirLength(f) \in Nat /\ DOMAIN f.directory = 1 .. DirLength(f)
BY XexFilesAssumption DEF DirLength

(* What each step does to the image, field by field.                       *)
LEMMA ImgFacts ==
  ASSUME NEW i, ImgShape(i), NEW v
  PROVE  /\ ImgShape([i EXCEPT !.entryPoint = v])
         /\ [i EXCEPT !.entryPoint = v].entryPoint = v
         /\ [i EXCEPT !.entryPoint = v].baseAddress = i.baseAddress
         /\ ImgShape([i EXCEPT !.format = v])
         /\ [i EXCEPT !.format = v].entryPoint = i.entryPoint
         /\ [i EXCEPT !.format = v].baseAddress = i.baseAddress
         /\ ImgShape([i EXCEPT !.raw = v])
         /\ [i EXCEPT !.raw = v].raw = v
         /\ [i EXCEPT !.raw = v].entryPoint = i.entryPoint
         /\ [i EXCEPT !.raw = v].baseAddress = i.baseAddress
BY DEF ImgShape

LEMMA ReadXexStep ==
  ASSUME NEW f \in XexFiles, ReadXex(f), XexInv
  PROVE  XexInv'
<1>1. xexFile' = f /\ dirIndex' = 1
  BY DEF ReadXex
<1>2. CASE f.hasHeader /\ f.hasSecurity
  <2>1. PICK garbage \in Addresses :
          img' = [NoImg EXCEPT !.baseAddress = f.loadAddress, !.entryPoint = garbage]
    BY <1>2 DEF ReadXex
  <2>2. ImgShape(img') /\ img'.baseAddress = f.loadAddress
    BY <2>1 DEF ImgShape, NoImg
  <2>3. DirEnd' \in Nat /\ 1 \in 1 .. DirEnd'
    BY <1>1, DirFacts DEF DirEnd
  <2>4. EntryBefore(dirIndex)'
    BY <1>1, DirFacts DEF EntryBefore, Keyed
  <2>5. xexStage' = "directory"
    BY <1>2 DEF ReadXex
  <2> QED
    BY <1>1, <2>2, <2>3, <2>4, <2>5 DEF XexInv, ImgShape
<1>3. CASE ~(f.hasHeader /\ f.hasSecurity)
  BY <1>1, <1>3 DEF ReadXex, XexInv, ImgShape
<1> QED
  BY <1>2, <1>3

LEMMA ParseDirectoryStep ==
  ASSUME ParseDirectory, XexInv
  PROVE  XexInv'
<1>0. /\ xexStage = "directory" /\ xexStage' = "directory" /\ xexFile \in XexFiles
      /\ xexFile' = xexFile /\ dirIndex' = dirIndex + 1 /\ DirEnd' = DirEnd
      /\ dirIndex \in 1 .. DirEnd /\ dirIndex <= DirLength(xexFile)
  BY DEF ParseDirectory, XexInv, DirLength, DirEnd
<1>1. /\ xexStage = "directory" /\ xexStage' = "directory"
      /\ xexFile \in XexFiles /\ xexFile' = xexFile /\ DirEnd' = DirEnd
      /\ dirIndex' = dirIndex + 1 /\ dirIndex \in Nat
      /\ dirIndex \in DOMAIN xexFile.directory /\ dirIndex' \in 1 .. DirEnd
  BY <1>0, DirFacts DEF DirEnd
<1> DEFINE entry == xexFile.directory[dirIndex]
<1>2. \A i \in Keyed(xexFile, "entryPoint") : i \in Nat
  BY <1>1, DirFacts DEF Keyed
<1>3. CASE entry.key = "entryPoint"
  <2>1. img' = [img EXCEPT !.entryPoint = entry.value]
    BY <1>3 DEF ParseDirectory
  <2>2. /\ ImgShape(img') /\ img'.entryPoint = entry.value
        /\ img'.baseAddress = img.baseAddress
    BY <2>1, ImgFacts DEF XexInv
  <2>3. EntryBefore(dirIndex)'
    BY <1>1, <1>2, <1>3, <2>2 DEF EntryBefore, Keyed
  <2> QED
    BY <1>1, <2>2, <2>3 DEF XexInv, ImgShape
<1>4. CASE entry.key # "entryPoint"
  <2>1. img' = IF entry.key = "fileFormat" THEN [img EXCEPT !.format = entry.value] ELSE img
    BY <1>4 DEF ParseDirectory
  <2>2. /\ ImgShape(img') /\ img'.entryPoint = img.entryPoint
        /\ img'.baseAddress = img.baseAddress
    BY <2>1, ImgFacts DEF XexInv
  <2>3. {i \in Keyed(xexFile, "entryPoint") : i < dirIndex + 1}
          = {i \in Keyed(xexFile, "entryPoint") : i < dirIndex}
    BY <1>1, <1>2, <1>4 DEF Keyed
  <2>4. EntryBefore(dirIndex)'
    BY <1>1, <2>2, <2>3 DEF EntryBefore, XexInv, Keyed
  <2> QED
    BY <1>1, <2>2, <2>4 DEF XexInv, ImgShape
<1> QED
  BY <1>3, <1>4

LEMMA StoreSecurityStep ==
  ASSUME StoreSecurity, XexInv
  PROVE  XexInv'
<1>1. /\ xexStage = "directory" /\ xexStage' = "parsed" /\ xexFile \in XexFiles
      /\ xexFile' = xexFile /\ dirIndex = DirEnd /\ DirEnd' = DirEnd
  BY DirFacts DEF StoreSecurity, XexInv, DirEnd, DirLength
<1>2. img' = [img EXCEPT !.format = xexFile.signature.format]
  BY DEF StoreSecurity
<1>3. ImgShape(img') /\ img'.entryPoint = img.entryPoint /\ img'.baseAddress = img.baseAddress
  BY <1>2, ImgFacts DEF XexInv
<1>4. EntryBefore(DirEnd)'
  BY <1>1, <1>3 DEF EntryBefore, XexInv, Keyed
<1> QED
  BY <1>1, <1>3, <1>4 DEF XexInv, ImgShape

LEMMA UnpackStep ==
  ASSUME Unpack, XexInv
  PROVE  XexInv'
<1>1. /\ xexStage = "parsed" /\ xexFile \in XexFiles /\ xexFile' = xexFile
      /\ DirEnd' = DirEnd
  BY DEF Unpack, XexInv, DirEnd
<1>2. CASE img.format \in Supported
  <2>1. xexStage' = "loaded" /\ img' = [img EXCEPT !.raw = xexFile]
    BY <1>2 DEF Unpack
  <2>2. /\ ImgShape(img') /\ img'.entryPoint = img.entryPoint
        /\ img'.baseAddress = img.baseAddress /\ img'.raw = xexFile
    BY <2>1, ImgFacts DEF XexInv
  <2>3. EntryBefore(DirEnd)'
    BY <1>1, <2>2 DEF EntryBefore, XexInv, Keyed
  <2> QED
    BY <1>1, <2>1, <2>2, <2>3 DEF XexInv, ImgShape
<1>3. CASE img.format \notin Supported
  BY <1>1, <1>3 DEF Unpack, XexInv, ImgShape
<1> QED
  BY <1>2, <1>3

LEMMA DropXexStep ==
  ASSUME DropXex, XexInv
  PROVE  XexInv'
BY DEF DropXex, XexInv, ImgShape, NoImg

LEMMA LoadStep == LoadInv /\ [GameNext]_gameVars => LoadInv'
<1> SUFFICES ASSUME LoadInv, [GameNext]_gameVars PROVE LoadInv'
  OBVIOUS
<1>0. XexInv /\ EngineStartsInImage
  BY DEF LoadInv
<1>1. ASSUME UNCHANGED loadVars PROVE EngineStartsInImage'
  BY <1>0, <1>1 DEF loadVars, EngineStartsInImage, Keyed, IsLastValue
<1>2. ASSUME Kept PROVE EngineStartsInImage'
  BY <1>0, <1>2 DEF Kept, EngineStartsInImage, Keyed, IsLastValue
<1>3. ASSUME UNCHANGED xexVars PROVE XexInv'
  BY <1>0, <1>3 DEF xexVars, XexInv, ImgShape, EntryBefore, DirEnd, Keyed
<1>4. CASE XexLoad
  <2>1. PICK f \in XexFiles : ReadXex(f)
    BY <1>4 DEF XexLoad
  <2>2. XexInv'
    BY <1>0, <2>1, ReadXexStep
  <2> QED
    BY <1>2, <1>4, <2>2 DEF XexLoad, Call, Kept, LoadInv
<1>5. CASE StfsLoad \/ IsoLoad
  BY <1>2, <1>3, <1>5 DEF StfsLoad, IsoLoad, Call, Kept, LoadInv
<1>6. CASE Parse
  <2>1. UNCHANGED loadVars
    BY <1>6 DEF Parse
  <2>2. XexInv'
    BY <1>0, <1>3, <1>6, ParseDirectoryStep, StoreSecurityStep, UnpackStep DEF Parse, XexStep
  <2> QED
    BY <1>1, <2>1, <2>2 DEF LoadInv
<1>7. CASE XexRefused
  BY <1>0, <1>2, <1>7, DropXexStep DEF XexRefused, LoadInv
<1>8. CASE XexLoaded
  <2>1. XexInv'
    BY <1>0, <1>8, DropXexStep DEF XexLoaded
  <2> DEFINE f == xexFile
  <2>2. /\ xexStage = "loaded" /\ f \in XexFiles /\ EntryBefore(DirEnd)
        /\ img.baseAddress = f.loadAddress /\ img.raw = f
    BY <1>0, <1>8 DEF XexLoaded, XexInv
  <2>3. /\ initialisedFor' = f /\ entryPoint' = img.entryPoint
        /\ mapped' = IF f.loadAddress + f.length <= MemorySize
                     THEN [image |-> f, base |-> f.loadAddress] ELSE mapped
    BY <1>8, <2>2 DEF XexLoaded, InMemory
  <2>4. ASSUME Keyed(f, "entryPoint") # {} PROVE IsLastValue(f, "entryPoint", img.entryPoint)
    <3>1. {i \in Keyed(f, "entryPoint") : i < DirEnd} = Keyed(f, "entryPoint")
      BY <2>2, DirFacts DEF Keyed, DirEnd
    <3> QED
      BY <2>2, <2>4, <3>1 DEF EntryBefore, IsLastValue
  <2>5. EngineStartsInImage'
    BY <2>3, <2>4 DEF EngineStartsInImage, Keyed, IsLastValue
  <2> QED
    BY <2>1, <2>5 DEF LoadInv
<1>9. CASE StfsReturns \/ IsoReturns
  BY <1>2, <1>3, <1>9 DEF StfsReturns, IsoReturns, LoadInv
<1>10. CASE UNCHANGED gameVars
  BY <1>1, <1>3, <1>10 DEF gameVars, LoadInv
<1> QED
  BY <1>4, <1>5, <1>6, <1>7, <1>8, <1>9, <1>10 DEF GameNext, Progress

(* The engine starts in the executable that is in memory, with the entry   *)
(* point of that one, after any series of loads.                           *)
THEOREM EngineStartsInItsImage == GameSpec => []EngineStartsInImage
<1>1. GameInit => LoadInv
  BY DEF GameInit, XexInit, NoImg, LoadInv, XexInv, ImgShape, EngineStartsInImage
<1>2. LoadInv => EngineStartsInImage
  BY DEF LoadInv
<1> QED
  BY <1>1, <1>2, LoadStep, PTL DEF GameSpec

-----------------------------------------------------------------------------
(* Packages: the entries before the one that is read next, slot s of block *)
(* b, are listed as far as they are in use, and nothing else is.           *)

SlotsRead(p) ==
  {u \in (1 .. Blocks(p)) \X (1 .. BlockEntries) :
     /\ p.blocks[u[1]][u[2]] # DeletedEntry
     /\ \A r \in 1 .. u[2] : p.blocks[u[1]][r] # EndEntry}

Before(u, b, s) == u[1] < b \/ (u[1] = b /\ u[2] < s)

ReadingAt(p, b, s, list) ==
  /\ p \in Packages /\ p.hasMagic /\ p.hasHeader
  /\ b \in Nat \ {0} /\ s \in 1 .. BlockEntries + 1
  /\ \A r \in 1 .. s - 1 : p.blocks[b][r] # EndEntry
  /\ list \in Seq(PackageContents(p))
  /\ \A i \in DOMAIN list : Before(list[i], b, s)
  /\ \A u \in SlotsRead(p) : Before(u, b, s) => \E i \in DOMAIN list : list[i] = u

StfsInv ==
  /\ stfsStatus # "closed" => call = "stfs"
  /\ stfsStatus = "closed" => pkgFiles = <<>>
  /\ stfsStatus = "reading" => ReadingAt(package, block, slot, pkgFiles)

(* A new file at the end of a list.                                        *)
LEMMA AppendFacts ==
  ASSUME NEW S, NEW s \in Seq(S), NEW e \in S
  PROVE  /\ Append(s, e) \in Seq(S)
         /\ Len(s) \in Nat /\ DOMAIN s = 1 .. Len(s)
         /\ DOMAIN Append(s, e) = 1 .. Len(s) + 1
         /\ \A i \in DOMAIN s : Append(s, e)[i] = s[i]
         /\ Append(s, e)[Len(s) + 1] = e
OBVIOUS

(* How many blocks are read.                                               *)
LEMMA BlocksRead == ASSUME NEW p \in Packages PROVE Blocks(p) \in Nat
<1> DEFINE l == Len(p.blocks)
<1>1. l \in Nat /\ DirBlocks \in Nat
  BY PackagesAssumption
<1>2. Blocks(p) = Min({l, DirBlocks})
  BY DEF Blocks
<1> HIDE DEF l
<1>3. \E x \in {l, DirBlocks} : \A y \in {l, DirBlocks} : x <= y
  <2>1. CASE l <= DirBlocks
    BY <1>1, <2>1
  <2>2. CASE DirBlocks <= l
    BY <1>1, <2>2
  <2> QED
    BY <1>1, <2>1, <2>2
<1>4. Blocks(p) \in {l, DirBlocks}
  BY <1>2, <1>3 DEF Min
<1> QED
  BY <1>1, <1>4

(* What the slots in use are.                                              *)
LEMMA UsedFacts ==
  ASSUME NEW p \in Packages, NEW u \in SlotsRead(p)
  PROVE  /\ u = <<u[1], u[2]>> /\ u[1] \in 1 .. Blocks(p) /\ u[2] \in 1 .. BlockEntries
         /\ u[1] \in Nat /\ u[2] \in Nat /\ u[1] <= Blocks(p) /\ u[1] >= 1 /\ u[2] >= 1
         /\ p.blocks[u[1]][u[2]] # DeletedEntry
         /\ \A r \in 1 .. u[2] : p.blocks[u[1]][r] # EndEntry
BY PackagesAssumption, BlocksRead DEF SlotsRead

LEMMA ContentsUsed ==
  ASSUME NEW p, NEW b, NEW s, NEW list, ReadingAt(p, b, s, list)
  PROVE  PackageContents(p) = SlotsRead(p)
BY PackagesAssumption DEF ReadingAt, PackageContents, SlotsRead

(* The entry that is read next is in use unless it is deleted or the end.  *)
LEMMA NextIsUsed ==
  ASSUME NEW p, NEW b, NEW s, NEW list, ReadingAt(p, b, s, list), b <= Blocks(p),
         s <= BlockEntries, p.blocks[b][s] # EndEntry, p.blocks[b][s] # DeletedEntry
  PROVE  <<b, s>> \in SlotsRead(p)
<1>1. p \in Packages /\ b \in Nat \ {0} /\ s \in 1 .. BlockEntries + 1
  BY DEF ReadingAt
<1>2. Blocks(p) \in Nat /\ BlockEntries \in Nat
  BY <1>1, BlocksRead, PackagesAssumption
<1>3. s \in 1 .. BlockEntries /\ b \in 1 .. Blocks(p)
  BY <1>1, <1>2
<1>4. \A r \in 1 .. s : p.blocks[b][r] # EndEntry
  BY <1>1, <1>2 DEF ReadingAt
<1> QED
  BY <1>3, <1>4 DEF SlotsRead

(* A round of the loop that lists no file: every entry in use that the     *)
(* position passes was before it already.                                  *)
LEMMA BlockEnds ==
  ASSUME NEW p, NEW b, NEW s, NEW list, ReadingAt(p, b, s, list),
         s > BlockEntries \/ p.blocks[b][s] = EndEntry
  PROVE  ReadingAt(p, b + 1, 1, list)
<1>1. /\ p \in Packages /\ b \in Nat \ {0} /\ s \in 1 .. BlockEntries + 1
      /\ BlockEntries \in Nat
  BY PackagesAssumption DEF ReadingAt
<1>2. ASSUME NEW u \in SlotsRead(p) PROVE Before(u, b + 1, 1) <=> Before(u, b, s)
  <2>1. /\ u[1] \in Nat /\ u[2] \in 1 .. BlockEntries
        /\ \A r \in 1 .. u[2] : p.blocks[u[1]][r] # EndEntry
    BY <1>1, UsedFacts
  <2>2. ASSUME u[1] = b PROVE u[2] < s
    BY <1>1, <2>1, <2>2
  <2> QED
    BY <1>1, <2>1, <2>2 DEF Before
<1>3. \A i \in DOMAIN list : list[i] \in SlotsRead(p)
  <2>1. PackageContents(p) = SlotsRead(p)
    BY ContentsUsed
  <2> QED
    BY <2>1 DEF ReadingAt
<1> QED
  BY <1>1, <1>2, <1>3 DEF ReadingAt

(* A deleted entry is passed over.                                         *)
LEMMA EntryDeleted ==
  ASSUME NEW p, NEW b, NEW s, NEW list, ReadingAt(p, b, s, list),
         s <= BlockEntries, p.blocks[b][s] # EndEntry, p.blocks[b][s] = DeletedEntry
  PROVE  ReadingAt(p, b, s + 1, list)
<1>1. /\ p \in Packages /\ b \in Nat \ {0} /\ s \in 1 .. BlockEntries + 1
      /\ BlockEntries \in Nat
  BY PackagesAssumption DEF ReadingAt
<1>2. ASSUME NEW u \in SlotsRead(p) PROVE Before(u, b, s + 1) <=> Before(u, b, s)
  <2>1. u[1] \in Nat /\ u[2] \in Nat /\ p.blocks[u[1]][u[2]] # DeletedEntry
    BY <1>1, UsedFacts
  <2>2. ~(u[1] = b /\ u[2] = s)
    BY <2>1
  <2> QED
    BY <1>1, <2>1, <2>2 DEF Before
<1>3. s + 1 \in 1 .. BlockEntries + 1 /\ \A r \in 1 .. (s + 1) - 1 : p.blocks[b][r] # EndEntry
  BY <1>1 DEF ReadingAt
<1>4. \A i \in DOMAIN list : list[i] \in SlotsRead(p)
  <2>1. PackageContents(p) = SlotsRead(p)
    BY ContentsUsed
  <2> QED
    BY <2>1 DEF ReadingAt
<1> QED
  BY <1>1, <1>2, <1>3, <1>4 DEF ReadingAt

(* A round that lists a file: it is one that is not listed yet.            *)
LEMMA EntryListed ==
  ASSUME NEW p, NEW b, NEW s, NEW list, ReadingAt(p, b, s, list), b <= Blocks(p),
         s <= BlockEntries, NEW e, e = <<b, s>>,
         p.blocks[b][s] # EndEntry, p.blocks[b][s] # DeletedEntry
  PROVE  /\ ReadingAt(p, b, s + 1, Append(list, e))
         /\ e \in PackageContents(p)
         /\ \A i \in DOMAIN list : list[i] # e
<1>1. /\ p \in Packages /\ b \in Nat \ {0} /\ s \in 1 .. BlockEntries + 1
      /\ BlockEntries \in Nat /\ list \in Seq(PackageContents(p))
  BY PackagesAssumption DEF ReadingAt
<1>2. PackageContents(p) = SlotsRead(p)
  BY ContentsUsed
<1>3. e \in SlotsRead(p)
  BY NextIsUsed
<1> DEFINE longer == Append(list, e)
<1>4. /\ longer \in Seq(PackageContents(p))
      /\ Len(list) \in Nat /\ DOMAIN list = 1 .. Len(list)
      /\ DOMAIN longer = 1 .. Len(list) + 1
      /\ \A i \in DOMAIN list : longer[i] = list[i]
      /\ longer[Len(list) + 1] = e
  BY <1>1, <1>2, <1>3, AppendFacts
<1>5. ~Before(e, b, s) /\ Before(e, b, s + 1)
  BY <1>1 DEF Before
<1> HIDE DEF longer
<1>6. ASSUME NEW i \in DOMAIN list PROVE list[i] # e /\ list[i] \in SlotsRead(p)
  <2>1. Before(list[i], b, s)
    BY DEF ReadingAt
  <2>2. list[i] \in PackageContents(p)
    BY <1>1
  <2> QED
    BY <1>2, <1>5, <2>1, <2>2
<1>7. ASSUME NEW u \in SlotsRead(p) PROVE Before(u, b, s + 1) <=> Before(u, b, s) \/ u = e
  <2>1. u = <<u[1], u[2]>> /\ u[1] \in Nat /\ u[2] \in Nat
    BY <1>1, UsedFacts
  <2> QED
    BY <1>1, <2>1 DEF Before
<1>8. ASSUME NEW i \in DOMAIN longer PROVE Before(longer[i], b, s + 1)
  <2>1. CASE i \in DOMAIN list
    <3>1. Before(list[i], b, s)
      BY <2>1 DEF ReadingAt
    <3> QED
      BY <1>4, <1>6, <1>7, <2>1, <3>1
  <2>2. CASE i = Len(list) + 1
    BY <1>4, <1>5, <2>2
  <2> QED
    BY <1>4, <2>1, <2>2
<1>9. ASSUME NEW u \in SlotsRead(p), Before(u, b, s + 1)
      PROVE  \E i \in DOMAIN longer : longer[i] = u
  <2>1. CASE Before(u, b, s)
    <3>1. PICK i \in DOMAIN list : list[i] = u
      BY <2>1 DEF ReadingAt
    <3> QED
      BY <1>4, <3>1
  <2>2. CASE u = e
    BY <1>4, <2>2
  <2> QED
    BY <1>7, <1>9, <2>1, <2>2
<1>10. s + 1 \in 1 .. BlockEntries + 1 /\ \A r \in 1 .. (s + 1) - 1 : p.blocks[b][r] # EndEntry
  BY <1>1 DEF ReadingAt
<1>11. ReadingAt(p, b, s + 1, longer)
  BY <1>1, <1>4, <1>8, <1>9, <1>10 DEF ReadingAt
<1> QED
  BY <1>2, <1>3, <1>6, <1>11 DEF longer

(* The loop ends with every file listed.                                   *)
LEMMA AllListed ==
  ASSUME NEW p, NEW b, NEW s, NEW list, ReadingAt(p, b, s, list), b > Blocks(p)
  PROVE  \A f \in PackageContents(p) : \E i \in DOMAIN list : list[i] = f
<1>1. p \in Packages /\ b \in Nat /\ Blocks(p) \in Nat
  BY BlocksRead DEF ReadingAt
<1>2. ASSUME NEW u \in SlotsRead(p) PROVE Before(u, b, s)
  <2>1. u[1] \in Nat /\ u[1] <= Blocks(p)
    BY <1>1, UsedFacts
  <2> QED
    BY <1>1, <2>1 DEF Before
<1>3. PackageContents(p) = SlotsRead(p)
  BY ContentsUsed
<1> QED
  BY <1>2, <1>3 DEF ReadingAt

(* One step of the parser keeps the invariant and is one of Catalog's.     *)
CatalogStep == [StfsCatalog!CatalogNext]_(StfsCatalog!catalogVars)

LEMMA OpenPackageStep ==
  ASSUME NEW p \in Packages, OpenPackage(p), StfsInv, call = "none", call' = "stfs"
  PROVE  StfsInv' /\ CatalogStep
<1>1. stfsStatus = "closed" /\ pkgFiles = <<>> /\ pkgFiles' = <<>>
  BY DEF StfsInv, OpenPackage
<1>2. ASSUME p.hasMagic, p.hasHeader PROVE ReadingAt(p, 1, 1, <<>>)
  <2>1. 1 \in Nat \ {0} /\ 1 \in 1 .. BlockEntries + 1
    BY PackagesAssumption
  <2>2. ASSUME NEW u \in SlotsRead(p) PROVE ~Before(u, 1, 1)
    <3>1. u[1] \in Nat /\ u[1] >= 1 /\ u[2] \in Nat /\ u[2] >= 1
      BY UsedFacts
    <3> QED
      BY <3>1 DEF Before
  <2> QED
    BY <1>2, <2>1, <2>2 DEF ReadingAt
<1>3. StfsInv'
  BY <1>1, <1>2 DEF OpenPackage, StfsInv, ReadingAt
<1>4. StfsCatalog!Start
  BY <1>1 DEF OpenPackage, StfsCatalog!Start
<1> QED
  BY <1>3, <1>4 DEF CatalogStep, StfsCatalog!CatalogNext

LEMMA ReadEntryStep ==
  ASSUME ReadEntry, StfsInv, call' = call
  PROVE  StfsInv' /\ CatalogStep
<1> DEFINE e == package.blocks[block][slot]
           here == <<block, slot>>
<1>1. /\ ReadingAt(package, block, slot, pkgFiles) /\ block <= Blocks(package)
      /\ stfsStatus = "reading" /\ stfsStatus' = "reading" /\ package' = package
      /\ call = "stfs" /\ call' = "stfs"
  BY DEF StfsInv, ReadEntry
<1>2. slot \in Nat /\ BlockEntries \in Nat
  BY <1>1, PackagesAssumption DEF ReadingAt
<1>3. ASSUME ReadingAt(package, block', slot', pkgFiles') PROVE StfsInv'
  BY <1>1, <1>3 DEF StfsInv, ReadingAt
<1>4. ASSUME pkgFiles' = pkgFiles PROVE CatalogStep
  BY <1>1, <1>4 DEF CatalogStep, StfsCatalog!catalogVars
<1>5. CASE slot > BlockEntries \/ e = EndEntry
  <2>1. block' = block + 1 /\ slot' = 1 /\ pkgFiles' = pkgFiles
    BY <1>5 DEF ReadEntry, NextBlock, SlotEntry
  <2> QED
    BY <1>1, <1>3, <1>4, <1>5, <2>1, BlockEnds
<1>6. CASE slot <= BlockEntries /\ e # EndEntry /\ e = DeletedEntry
  <2>1. block' = block /\ slot' = slot + 1 /\ pkgFiles' = pkgFiles
    BY <1>2, <1>6 DEF ReadEntry, NextSlot, SlotEntry
  <2> QED
    BY <1>1, <1>3, <1>4, <1>6, <2>1, EntryDeleted
<1>7. CASE slot <= BlockEntries /\ e # EndEntry /\ e # DeletedEntry
  <2>1. block' = block /\ slot' = slot + 1 /\ pkgFiles' = Append(pkgFiles, here)
    BY <1>2, <1>7 DEF ReadEntry, NextSlot, SlotEntry
  <2>2. /\ ReadingAt(package, block, slot + 1, Append(pkgFiles, here))
        /\ here \in PackageContents(package)
        /\ \A i \in DOMAIN pkgFiles : pkgFiles[i] # here
    BY <1>1, <1>7, EntryListed
  <2> HIDE DEF e, here
  <2>3. StfsInv'
    BY <1>3, <2>1, <2>2
  <2>4. StfsCatalog!List(here)
    BY <1>1, <2>1, <2>2 DEF StfsCatalog!List
  <2> QED
    BY <2>2, <2>3, <2>4 DEF CatalogStep, StfsCatalog!CatalogNext
<1> QED
  BY <1>2, <1>5, <1>6, <1>7

LEMMA PackageOpenedStep ==
  ASSUME PackageOpened, StfsInv, call' = call
  PROVE  StfsInv' /\ CatalogStep
<1>1. ReadingAt(package, block, slot, pkgFiles)
  BY DEF PackageOpened, StfsInv
<1>2. StfsCatalog!Done
  BY <1>1, AllListed DEF PackageOpened, StfsCatalog!Done
<1>3. StfsInv'
  BY DEF PackageOpened, StfsInv
<1> QED
  BY <1>2, <1>3 DEF CatalogStep, StfsCatalog!CatalogNext

LEMMA DropPackageStep ==
  ASSUME DropPackage
  PROVE  StfsInv' /\ CatalogStep
<1>1. StfsInv'
  BY DEF DropPackage, StfsInv
<1>2. StfsCatalog!Forget
  BY DEF DropPackage, StfsCatalog!Forget, PackageContents
<1> QED
  BY <1>1, <1>2 DEF CatalogStep, StfsCatalog!CatalogNext

LEMMA StfsKept ==
  ASSUME StfsInv, UNCHANGED stfsVars, call' = call \/ stfsStatus = "closed"
  PROVE  StfsInv' /\ CatalogStep
<1>1. StfsInv'
  BY DEF stfsVars, StfsInv, ReadingAt
<1>2. UNCHANGED StfsCatalog!catalogVars
  BY DEF stfsVars, StfsCatalog!catalogVars
<1> QED
  BY <1>1, <1>2 DEF CatalogStep

LEMMA PackageStep == StfsInv /\ [GameNext]_gameVars => StfsInv' /\ CatalogStep
<1> SUFFICES ASSUME StfsInv, [GameNext]_gameVars PROVE StfsInv' /\ CatalogStep
  OBVIOUS
<1>1. call # "stfs" => stfsStatus = "closed"
  BY DEF StfsInv
<1>2. CASE StfsLoad
  BY <1>2, OpenPackageStep DEF StfsLoad, Call
<1>3. CASE XexLoad \/ IsoLoad
  BY <1>1, <1>3, StfsKept DEF XexLoad, IsoLoad, Call
<1>4. CASE Parse
  BY <1>4, StfsKept, ReadEntryStep, PackageOpenedStep DEF Parse, StfsStep, loadVars
<1>5. CASE StfsReturns
  BY <1>5, DropPackageStep DEF StfsReturns
<1>6. CASE XexRefused \/ XexLoaded \/ IsoReturns
  BY <1>1, <1>6, StfsKept DEF XexRefused, XexLoaded, IsoReturns
<1>7. CASE UNCHANGED gameVars
  BY <1>7, StfsKept DEF gameVars, loadVars
<1> QED
  BY <1>2, <1>3, <1>4, <1>5, <1>6, <1>7 DEF GameNext, Progress

(* Opening a package does what Catalog says, after any series of loads and *)
(* whatever the package holds: every entry in use of the blocks that are   *)
(* read gets into the list, once, nothing else does, and the call returns  *)
(* only when all of them are there.                                        *)
THEOREM PackagesAreListed == GameSpec => StfsCatalog!CatalogSafety
<1>1. GameInit => StfsInv /\ StfsCatalog!CatalogInit
  BY DEF GameInit, StfsInit, StfsInv, StfsCatalog!CatalogInit, PackageContents
<1> QED
  BY <1>1, PackageStep, PTL DEF GameSpec, StfsCatalog!CatalogSafety, CatalogStep

-----------------------------------------------------------------------------
(* Discs: directories by the trails that lead to them.                     *)

Holds(d) == d \in Discs /\ d.format # "neither"

(* The trails that lead to directories, the empty one to the root's.       *)
Homes(d) == {<<>>} \cup {t \in Trails(d) : t[Len(t)].isDir}
HomeSector(d, t) == IF t = <<>> THEN d.root ELSE t[Len(t)].sector
HomeSize(d, t) == IF t = <<>> THEN d.rootSize ELSE t[Len(t)].size
Child(d, t, e) == Opens(d, HomeSector(d, t), HomeSize(d, t), e)
Names(t) == [i \in DOMAIN t |-> t[i].name]

(* A set of naturals has a least member: the form of the arguments by a    *)
(* least counterexample below.                                             *)
LEMMA Smallest ==
  ASSUME NEW S \in SUBSET Nat, S # {}
  PROVE  \E n \in S : \A m \in S : n <= m
<1>1. IsWellFoundedOn(OpToRel(<, Nat), Nat)
  BY NatLessThanWellFounded
<1>2. PICK n \in S : \A m \in S : ~(<<m, n>> \in OpToRel(<, Nat))
  BY <1>1, WFMin
<1>3. \A m \in S : ~(m < n)
  BY <1>2 DEF OpToRel
<1> QED
  BY <1>3

(* A trail is a sequence of entries in use, not longer than MaxDepth.      *)
TrailOf(d, t) ==
  /\ t \in Seq(Entries(d)) /\ Len(t) \in 1 .. MaxDepth + 1
  /\ Opens(d, d.root, d.rootSize, t[1])
  /\ \A i \in 1 .. Len(t) - 1 : t[i].isDir /\ Opens(d, t[i].sector, t[i].size, t[i + 1])

(* Trails as sequences, and not as functions.                              *)
LEMMA TrailForm == \A d, t : t \in Trails(d) <=> TrailOf(d, t)
<1> SUFFICES ASSUME NEW d, NEW t PROVE t \in Trails(d) <=> TrailOf(d, t)
  OBVIOUS
<1>0. MaxDepth \in Nat
  BY DiscsAssumption
<1> DEFINE S == Entries(d)
           C == UNION {[1 .. n -> S] : n \in 1 .. MaxDepth + 1}
<1>1. t \in C <=> t \in Seq(S) /\ Len(t) \in 1 .. MaxDepth + 1
  <2> HIDE DEF S
  <2>1. ASSUME NEW n \in 1 .. MaxDepth + 1, t \in [1 .. n -> S]
        PROVE  t \in Seq(S) /\ Len(t) = n
    BY <1>0, <2>1
  <2>2. ASSUME t \in Seq(S), Len(t) \in 1 .. MaxDepth + 1
        PROVE  \E n \in 1 .. MaxDepth + 1 : t \in [1 .. n -> S]
    <3>1. t \in [1 .. Len(t) -> S]
      BY <2>2
    <3> QED
      BY <2>2, <3>1
  <2> QED
    BY <2>1, <2>2
<1> QED
  BY <1>1 DEF Trails, TrailOf

(* No trail is longer than MaxDepth, the longest that DiscsAssumption      *)
(* allows, although Trails would have one more.                            *)
LEMMA TrailDepth ==
  ASSUME NEW d, Holds(d), NEW t \in Trails(d)
  PROVE  /\ FileOf(t) \in DiscContents(d)
         /\ t \in Seq(Entries(d)) /\ Len(t) \in 1 .. MaxDepth
         /\ t[Len(t)].sector < MaxSectors
         /\ Len(Names(t)) = Len(t) /\ \A i \in 1 .. Len(t) : Names(t)[i] = t[i].name
<1>1. t \in Seq(Entries(d)) /\ Len(t) \in Nat \ {0}
  BY TrailForm, DiscsAssumption DEF TrailOf
<1>2. FileOf(t) \in DiscContents(d)
  BY DiscsAssumption DEF DiscContents, Holds
<1>3. FileOf(t).sector < MaxSectors /\ Len(FileOf(t).path) <= MaxDepth
  BY <1>2, DiscsAssumption DEF Holds
<1>4. FileOf(t).sector = t[Len(t)].sector /\ FileOf(t).path = Names(t)
  BY DEF FileOf, Names
<1>5. Len(Names(t)) = Len(t) /\ \A i \in 1 .. Len(t) : Names(t)[i] = t[i].name
  <2> DEFINE S == {t[i].name : i \in 1 .. Len(t)}
             n == Names(t)
  <2>1. DOMAIN t = 1 .. Len(t)
    BY <1>1
  <2>2. n \in [1 .. Len(t) -> S]
    BY <2>1 DEF Names
  <2>3. \A i \in 1 .. Len(t) : n[i] = t[i].name
    BY <2>1 DEF Names
  <2> HIDE DEF n, S
  <2> QED
    BY <1>1, <2>2, <2>3 DEF n
<1> QED
  BY <1>1, <1>2, <1>3, <1>4, <1>5, DiscsAssumption

LEMMA EntryFacts ==
  ASSUME NEW d, NEW t, NEW e, Child(d, t, e)
  PROVE  /\ HomeSector(d, t) \in DOMAIN d.dirs /\ e \in Entries(d)
         /\ e \in Used(d, HomeSector(d, t)) /\ Readable(d, HomeSector(d, t), HomeSize(d, t))
BY DEF Child, Opens, Readable, Entries

(* An entry of a directory extends the trail that leads to it.             *)
LEMMA TrailGrows ==
  ASSUME NEW d, Holds(d), NEW t \in Homes(d), NEW e, Child(d, t, e)
  PROVE  /\ Append(t, e) \in Trails(d)
         /\ Len(t) \in Nat /\ Len(Append(t, e)) = Len(t) + 1
         /\ Append(t, e)[Len(t) + 1] = e
<1> DEFINE S == Entries(d)
           u == Append(t, e)
<1>0. MaxDepth \in Nat /\ e \in S
  BY DiscsAssumption, EntryFacts
<1>1. CASE t = <<>>
  <2>1. u \in Seq(S) /\ Len(u) = 1 /\ u[1] = e /\ Len(t) = 0
    BY <1>0, <1>1
  <2>2. TrailOf(d, u)
    BY <1>0, <1>1, <2>1 DEF TrailOf, Child, HomeSector, HomeSize
  <2> QED
    BY <2>1, <2>2, TrailForm
<1>2. CASE t # <<>>
  <2>1. /\ t \in Trails(d) /\ t[Len(t)].isDir
        /\ TrailOf(d, t) /\ t \in Seq(S) /\ Len(t) \in 1 .. MaxDepth
    BY <1>2, TrailDepth, TrailForm DEF Homes
  <2> HIDE DEF S
  <2>2. /\ u \in Seq(S) /\ Len(u) = Len(t) + 1 /\ u[Len(t) + 1] = e
        /\ \A i \in 1 .. Len(t) : u[i] = t[i]
    BY <1>0, <2>1
  <2> HIDE DEF u
  <2>3. Opens(d, d.root, d.rootSize, u[1])
    BY <1>0, <2>1, <2>2 DEF TrailOf
  <2>4. ASSUME NEW i \in 1 .. Len(u) - 1
        PROVE  u[i].isDir /\ Opens(d, u[i].sector, u[i].size, u[i + 1])
    <3>1. CASE i = Len(t)
      BY <1>0, <1>2, <2>1, <2>2, <3>1 DEF Child, HomeSector, HomeSize
    <3>2. CASE i \in 1 .. Len(t) - 1
      BY <1>0, <2>1, <2>2, <3>2 DEF TrailOf
    <3> QED
      BY <1>0, <2>1, <2>2, <3>1, <3>2
  <2>5. TrailOf(d, u)
    BY <1>0, <2>1, <2>2, <2>3, <2>4 DEF TrailOf, S
  <2> QED
    BY <1>0, <2>1, <2>2, <2>5, TrailForm DEF u
<1> QED
  BY <1>1, <1>2

(* Every trail is one of a directory, extended by an entry in it.          *)
LEMMA TrailSplits ==
  ASSUME NEW d, Holds(d), NEW u \in Trails(d)
  PROVE  \E t \in Homes(d), e \in Entries(d) :
           /\ Child(d, t, e) /\ u = Append(t, e)
           /\ t = <<>> \/ t \in Trails(d)
           /\ Len(u) = Len(t) + 1 /\ Len(t) \in Nat
<1> DEFINE S == Entries(d)
<1>0. MaxDepth \in Nat
  BY DiscsAssumption
<1>1. TrailOf(d, u) /\ u \in Seq(S) /\ Len(u) \in 1 .. MaxDepth
  BY TrailForm, TrailDepth
<1> DEFINE n == Len(u) - 1
           t == SubSeq(u, 1, n)
           e == u[n + 1]
<1> HIDE DEF S
<1>2. /\ n \in Nat /\ t \in Seq(S) /\ Len(t) = n /\ \A i \in 1 .. n : t[i] = u[i]
      /\ e \in S /\ e = u[n + 1] /\ Len(u) = n + 1 /\ (n = 0 => e = u[1])
      /\ u = Append(t, e)
  <2>1. /\ n \in Nat /\ t \in Seq(S) /\ Len(t) = n /\ \A i \in 1 .. n : t[i] = u[i]
        /\ e \in S /\ e = u[n + 1] /\ Len(u) = n + 1
    <3>1. n \in Nat /\ Len(u) = n + 1
      BY <1>0, <1>1
    <3> HIDE DEF n
    <3>2. t \in Seq(S) /\ Len(t) = n /\ \A i \in 1 .. n : t[i] = u[i]
      BY <1>1, <3>1
    <3>3. e \in S
      BY <1>1, <3>1
    <3> QED
      BY <3>1, <3>2, <3>3
  <2> HIDE DEF n, t, e
  <2>2. /\ Append(t, e) \in Seq(S) /\ Len(Append(t, e)) = n + 1
        /\ \A i \in 1 .. n + 1 : Append(t, e)[i] = u[i]
    BY <2>1
  <2>3. u = Append(t, e)
    BY <1>1, <2>1, <2>2, SeqEqual
  <2> QED
    BY <2>1, <2>3
<1> HIDE DEF n, t, e
<1>3. CASE n = 0
  <2>1. t = <<>>
    BY <1>2, <1>3
  <2>2. Child(d, t, e)
    BY <1>1, <1>3, <2>1 DEF TrailOf, Child, HomeSector, HomeSize, e
  <2> QED
    BY <1>2, <1>3, <2>1, <2>2 DEF Homes, S
<1>4. CASE n > 0
  <2>1. t # <<>>
    BY <1>2, <1>4
  <2>2. TrailOf(d, t)
    BY <1>0, <1>1, <1>2, <1>4 DEF TrailOf, S
  <2>3. t[n].isDir /\ Opens(d, t[n].sector, t[n].size, e)
    BY <1>0, <1>1, <1>2, <1>4 DEF TrailOf, e
  <2>4. Child(d, t, e)
    BY <1>2, <2>1, <2>3 DEF Child, HomeSector, HomeSize
  <2>5. t \in Trails(d) /\ t \in Homes(d)
    BY <1>2, <2>2, <2>3, TrailForm DEF Homes
  <2> QED
    BY <1>2, <2>4, <2>5 DEF S
<1> QED
  BY <1>2, <1>3, <1>4

(* Within a directory a name stands for one entry.                         *)
LEMMA OneName ==
  ASSUME NEW d, Holds(d), NEW s \in DOMAIN d.dirs, NEW e \in Used(d, s), NEW f \in Used(d, s),
         e.name = f.name
  PROVE  e = f
<1>1. IsDirectory(d, s)
  BY DiscsAssumption DEF Holds
<1> QED
  BY <1>1 DEF IsDirectory, Used

(* A path leads to one file.                                               *)
LEMMA OnePath ==
  ASSUME NEW d, Holds(d), NEW t \in Trails(d), NEW u \in Trails(d), Names(t) = Names(u)
  PROVE  t = u
<1> DEFINE S == Entries(d)
           wrong == {i \in 1 .. Len(t) : t[i] # u[i]}
<1>0. MaxDepth \in Nat
  BY DiscsAssumption
<1>1. /\ t \in Seq(S) /\ u \in Seq(S) /\ Len(t) \in Nat \ {0} /\ Len(u) = Len(t)
      /\ \A i \in 1 .. Len(t) : t[i].name = u[i].name
  BY <1>0, TrailDepth
<1>2. TrailOf(d, t) /\ TrailOf(d, u)
  BY TrailForm
<1>3. wrong = {}
  <2> SUFFICES ASSUME wrong # {} PROVE FALSE
    OBVIOUS
  <2>1. PICK n \in wrong : \A m \in wrong : n <= m
    <3>1. wrong \in SUBSET Nat
      BY <1>1
    <3> HIDE DEF wrong
    <3> QED
      BY <3>1, Smallest
  <2>2. n \in 1 .. Len(t) /\ t[n] # u[n] /\ \A i \in 1 .. n - 1 : t[i] = u[i]
    BY <1>1, <2>1
  <2> HIDE DEF wrong, S
  <2>3. \E s \in DOMAIN d.dirs : t[n] \in Used(d, s) /\ u[n] \in Used(d, s)
    <3>1. CASE n = 1
      BY <1>2, <3>1 DEF TrailOf, Opens, Readable
    <3>2. CASE n > 1
      <4>1. n - 1 \in 1 .. Len(t) - 1 /\ n - 1 + 1 = n
        BY <1>1, <2>2, <3>2
      <4>2. /\ Opens(d, t[n - 1].sector, t[n - 1].size, t[n])
            /\ Opens(d, u[n - 1].sector, u[n - 1].size, u[n])
        BY <1>1, <1>2, <4>1 DEF TrailOf
      <4>3. t[n - 1] = u[n - 1]
        BY <1>1, <2>2, <4>1
      <4> QED
        BY <4>2, <4>3 DEF Opens, Readable
    <3> QED
      BY <1>1, <2>2, <3>1, <3>2
  <2> QED
    BY <1>1, <2>2, <2>3, OneName
<1> HIDE DEF S
<1> QED
  BY <1>1, <1>3, SeqEqual

(* A file is at one trail.                                                 *)
LEMMA OneFile ==
  ASSUME NEW d, Holds(d), NEW t \in Trails(d), NEW u \in Trails(d), FileOf(t) = FileOf(u)
  PROVE  t = u
<1>1. FileOf(t).path = Names(t) /\ FileOf(u).path = Names(u)
  BY DEF FileOf, Names
<1> QED
  BY <1>1, OnePath

(* A home is known by its path too.                                        *)
LEMMA OneHome ==
  ASSUME NEW d, Holds(d), NEW t \in Homes(d), NEW u \in Homes(d), Names(t) = Names(u)
  PROVE  t = u
<1>0. MaxDepth \in Nat
  BY DiscsAssumption
<1>1. ASSUME NEW v \in Trails(d) PROVE Names(v) # Names(<<>>)
  <2>1. 1 \in DOMAIN v
    BY <1>0, TrailDepth
  <2>2. 1 \in DOMAIN Names(v)
    BY <2>1 DEF Names
  <2>3. 1 \notin DOMAIN Names(<<>>)
    BY DEF Names
  <2> QED
    BY <2>2, <2>3
<1> QED
  BY <1>1, OnePath DEF Homes

(* No trail leads into a directory from itself.                            *)
LEMMA NoLoop ==
  ASSUME NEW d, Holds(d), NEW t \in Trails(d), t[Len(t)].isDir,
         Child(d, t, t[Len(t)])
  PROVE  FALSE
<1>0. MaxDepth \in Nat
  BY DiscsAssumption
<1> DEFINE e == t[Len(t)]
           rooms == {MaxDepth - Len(u) : u \in {v \in Trails(d) : v[Len(v)] = e}}
<1>1. rooms \in SUBSET Nat /\ rooms # {}
  BY <1>0, TrailDepth
<1>2. PICK n \in rooms : \A m \in rooms : n <= m
  <2> HIDE DEF rooms
  <2> QED
    BY <1>1, Smallest
<1>3. PICK u \in Trails(d) : u[Len(u)] = e /\ n = MaxDepth - Len(u)
  BY <1>2
<1>4. u \in Homes(d) /\ t \in Homes(d) /\ u # <<>> /\ t # <<>> /\ Len(u) \in Nat
  BY <1>0, <1>3, TrailDepth DEF Homes
<1>5. Child(d, u, e)
  BY <1>3, <1>4 DEF Child, HomeSector, HomeSize
<1>6. Append(u, e) \in Trails(d) /\ Len(Append(u, e)) = Len(u) + 1 /\ Append(u, e)[Len(u) + 1] = e
  BY <1>4, <1>5, TrailGrows
<1>7. MaxDepth - (Len(u) + 1) \in rooms
  BY <1>6
<1> HIDE DEF rooms
<1>8. n <= MaxDepth - (Len(u) + 1)
  BY <1>2, <1>7
<1> QED
  BY <1>0, <1>3, <1>4, <1>8

-----------------------------------------------------------------------------
(* What is left to visit in a directory, the files listed so far being     *)
(* those at the trails in L.                                               *)

At(d, s, o) == Directory(d, s).entries[o]
On(d, L, t, s, o) == Append(t, At(d, s, o)) \in L

TreeTodo(d, L, t, s, q) ==
  /\ 0 \in InUse(d, s) => 0 \in Range(q) \/ On(d, L, t, s, 0)
  /\ \A o, l \in InUse(d, s) :
       On(d, L, t, s, o) /\ l \in Linked(At(d, s, o)) => l \in Range(q) \/ On(d, L, t, s, l)
  /\ \A i, j \in DOMAIN q : q[i] \in InUse(d, s) /\ q[i] = q[j] => i = j
  /\ \A l \in InUse(d, s) : l \in Range(q) => ~On(d, L, t, s, l)
  /\ \A l \in InUse(d, s) : l # 0 /\ (l \in Range(q) \/ On(d, L, t, s, l)) =>
       \E o \in InUse(d, s) : On(d, L, t, s, o) /\ l \in Linked(At(d, s, o))

RecordTodo(d, L, t, s, q) ==
  \/ q = <<>> /\ \A o \in InUse(d, s) : On(d, L, t, s, o)
  \/ \E n \in Nat : q = <<n>> /\ \A o \in InUse(d, s) : On(d, L, t, s, o) <=> o < n

Todo(d, L, t, s, q) ==
  /\ q \in Seq(Nat)
  /\ IF d.format = "xdvdfs" THEN TreeTodo(d, L, t, s, q) ELSE RecordTodo(d, L, t, s, q)

(* What is assumed of one directory.                                       *)
LEMMA DirectoryFacts ==
  ASSUME NEW d, Holds(d), NEW s \in DOMAIN d.dirs
  PROVE  /\ IsDirectory(d, s) /\ (d.format = "xdvdfs" => Tree(d, s))
         /\ InUse(d, s) \subseteq Nat
         /\ \A o, p \in InUse(d, s) : At(d, s, o) = At(d, s, p) => o = p
         /\ \A o \in InUse(d, s) : At(d, s, o) \in Used(d, s)
<1>1. IsDirectory(d, s) /\ (d.format = "xdvdfs" => Tree(d, s))
  BY DiscsAssumption DEF Holds
<1> QED
  BY <1>1 DEF IsDirectory, InUse, Used, At

(* A stack of offsets without its top.                                     *)
LEMMA PopFacts ==
  ASSUME NEW q \in Seq(Nat), q # <<>>
  PROVE  /\ Len(q) \in Nat \ {0} /\ DOMAIN q = 1 .. Len(q) /\ Last(q) = q[Len(q)]
         /\ Last(q) \in Nat
         /\ Front(q) \in Seq(Nat) /\ Len(Front(q)) = Len(q) - 1
         /\ DOMAIN Front(q) = 1 .. Len(q) - 1
         /\ \A i \in 1 .. Len(q) - 1 : Front(q)[i] = q[i]
         /\ Range(q) = Range(Front(q)) \cup {Last(q)}
<1> DEFINE n == Len(q)
           f == SubSeq(q, 1, n - 1)
<1>1. n \in Nat \ {0} /\ DOMAIN q = 1 .. n /\ q[n] \in Nat
  OBVIOUS
<1> HIDE DEF n
<1>2. f \in Seq(Nat) /\ Len(f) = n - 1 /\ \A i \in 1 .. n - 1 : f[i] = q[i]
  BY <1>1
<1>3. DOMAIN f = 1 .. n - 1
  BY <1>1, <1>2
<1> HIDE DEF f
<1>4. Range(q) = Range(f) \cup {q[n]}
  <2>1. Range(f) \subseteq Range(q) /\ q[n] \in Range(q)
    BY <1>1, <1>2, <1>3 DEF Range
  <2>2. ASSUME NEW i \in 1 .. n PROVE q[i] \in Range(f) \cup {q[n]}
    <3>1. CASE i = n
      BY <3>1
    <3>2. CASE i \in 1 .. n - 1
      BY <1>2, <1>3, <3>2 DEF Range
    <3> QED
      BY <1>1, <3>1, <3>2
  <2> QED
    BY <1>1, <2>1, <2>2 DEF Range
<1> QED
  BY <1>1, <1>2, <1>3, <1>4 DEF Front, Last, n, f

LEMMA ConcatFacts ==
  ASSUME NEW a \in Seq(Nat), NEW b \in Seq(Nat)
  PROVE  /\ a \o b \in Seq(Nat) /\ Len(a) \in Nat /\ Len(b) \in Nat
         /\ Len(a \o b) = Len(a) + Len(b)
         /\ DOMAIN a = 1 .. Len(a) /\ DOMAIN b = 1 .. Len(b)
         /\ DOMAIN (a \o b) = 1 .. Len(a) + Len(b)
         /\ \A i \in 1 .. Len(a) : (a \o b)[i] = a[i]
         /\ \A i \in 1 .. Len(b) : (a \o b)[Len(a) + i] = b[i]
         /\ Range(a \o b) = Range(a) \cup Range(b)
<1> DEFINE r == a \o b
           m == Len(a)
           n == Len(b)
<1>1. m \in Nat /\ n \in Nat /\ DOMAIN a = 1 .. m /\ DOMAIN b = 1 .. n
  OBVIOUS
<1>2. r \in Seq(Nat) /\ Len(r) = m + n
  OBVIOUS
<1>3. \A i \in 1 .. m : r[i] = a[i]
  OBVIOUS
<1>4. \A i \in 1 .. n : r[m + i] = b[i]
  OBVIOUS
<1> HIDE DEF r, m, n
<1>5. DOMAIN r = 1 .. m + n
  BY <1>2
<1>6. \A i \in 1 .. m + n : i \in 1 .. m \/ (i - m \in 1 .. n /\ i = m + (i - m))
  BY <1>1
<1>7. \A i \in 1 .. n : m + i \in 1 .. m + n
  BY <1>1
<1>8. \A i \in 1 .. m : i \in 1 .. m + n
  BY <1>1
<1>9. Range(r) = Range(a) \cup Range(b)
  <2>1. Range(a) \subseteq Range(r)
    BY <1>1, <1>3, <1>5, <1>8 DEF Range
  <2>2. Range(b) \subseteq Range(r)
    BY <1>1, <1>4, <1>5, <1>7 DEF Range
  <2>3. ASSUME NEW i \in 1 .. m + n PROVE r[i] \in Range(a) \cup Range(b)
    <3>1. CASE i \in 1 .. m
      BY <1>1, <1>3, <3>1 DEF Range
    <3>2. CASE i - m \in 1 .. n /\ i = m + (i - m)
      <4>1. r[i] = b[i - m]
        BY <1>4, <3>2
      <4> QED
        BY <1>1, <3>2, <4>1 DEF Range
    <3> QED
      BY <1>6, <3>1, <3>2
  <2>4. Range(r) \subseteq Range(a) \cup Range(b)
    BY <1>5, <2>3 DEF Range
  <2> QED
    BY <2>1, <2>2, <2>4
<1> QED
  BY <1>1, <1>2, <1>3, <1>4, <1>5, <1>9 DEF r, m, n

LEMMA LinkFacts ==
  ASSUME NEW e, Linked(e) \subseteq Nat
  PROVE  /\ Links(e) \in Seq(Nat) /\ Range(Links(e)) = Linked(e)
         /\ \A i, j \in DOMAIN Links(e) :
              Links(e)[i] = Links(e)[j] => i = j \/ (e.left = e.right /\ Links(e)[i] = e.left)
<1> DEFINE a == Link(e.left)
           b == Link(e.right)
<1>1. ASSUME NEW l, l = NoLink \/ l \in Nat
      PROVE  Link(l) \in Seq(Nat) /\ Range(Link(l)) = {l} \ {NoLink} /\ Len(Link(l)) <= 1
  <2>1. CASE l = NoLink
    BY <2>1 DEF Link, Range
  <2>2. CASE l # NoLink
    BY <1>1, <2>2 DEF Link, Range
  <2> QED
    BY <2>1, <2>2
<1>2. /\ a \in Seq(Nat) /\ Range(a) = {e.left} \ {NoLink} /\ Len(a) <= 1
      /\ b \in Seq(Nat) /\ Range(b) = {e.right} \ {NoLink} /\ Len(b) <= 1
  BY <1>1 DEF Linked
<1> HIDE DEF a, b
<1> DEFINE r == a \o b
<1>3. /\ r \in Seq(Nat) /\ Range(r) = Range(a) \cup Range(b)
      /\ Len(a) \in Nat /\ Len(b) \in Nat /\ DOMAIN r = 1 .. Len(a) + Len(b)
      /\ DOMAIN a = 1 .. Len(a) /\ DOMAIN b = 1 .. Len(b)
      /\ \A i \in 1 .. Len(a) : r[i] = a[i]
      /\ \A i \in 1 .. Len(b) : r[Len(a) + i] = b[i]
  BY <1>2, ConcatFacts
<1>4. r = Links(e)
  BY DEF Links, a, b
<1> HIDE DEF r
<1>5. ASSUME NEW i \in DOMAIN r, NEW j \in DOMAIN r, i < j, r[i] = r[j]
      PROVE  e.left = e.right /\ r[i] = e.left
  <2>1. i \in 1 .. Len(a) /\ j - Len(a) \in 1 .. Len(b) /\ j = Len(a) + (j - Len(a))
    BY <1>2, <1>3, <1>5
  <2>2. r[i] \in Range(a) /\ r[j] \in Range(b)
    BY <1>3, <2>1 DEF Range
  <2> QED
    BY <1>2, <1>5, <2>2
<1>6. \A i, j \in DOMAIN r : i = j \/ i < j \/ j < i
  BY <1>3
<1> QED
  BY <1>2, <1>3, <1>4, <1>5, <1>6 DEF Linked

(* A stack of offsets with the links of an entry on top.                   *)
LEMMA PushFacts ==
  ASSUME NEW q \in Seq(Nat), NEW e, Linked(e) \subseteq Nat
  PROVE  LET r == q \o Links(e) IN
         /\ r \in Seq(Nat) /\ Len(q) \in Nat /\ Len(r) \in Nat /\ Len(q) <= Len(r)
         /\ DOMAIN r = 1 .. Len(r)
         /\ \A i \in 1 .. Len(q) : r[i] = q[i]
         /\ \A i \in Len(q) + 1 .. Len(r) : r[i] \in Linked(e)
         /\ Range(r) = Range(q) \cup Linked(e)
         /\ \A i, j \in Len(q) + 1 .. Len(r) :
              r[i] = r[j] => i = j \/ (e.left = e.right /\ r[i] = e.left)
<1> DEFINE ls == Links(e)
           r == q \o ls
<1>1. /\ ls \in Seq(Nat) /\ Range(ls) = Linked(e)
      /\ \A i, j \in DOMAIN ls :
           ls[i] = ls[j] => i = j \/ (e.left = e.right /\ ls[i] = e.left)
  BY LinkFacts
<1> HIDE DEF ls
<1>2. /\ r \in Seq(Nat) /\ Range(r) = Range(q) \cup Range(ls)
      /\ Len(q) \in Nat /\ Len(ls) \in Nat /\ Len(r) = Len(q) + Len(ls)
      /\ DOMAIN r = 1 .. Len(q) + Len(ls) /\ DOMAIN ls = 1 .. Len(ls)
      /\ \A i \in 1 .. Len(q) : r[i] = q[i]
      /\ \A i \in 1 .. Len(ls) : r[Len(q) + i] = ls[i]
  BY <1>1, ConcatFacts
<1> HIDE DEF r
<1>3. ASSUME NEW i \in Len(q) + 1 .. Len(r)
      PROVE  i - Len(q) \in DOMAIN ls /\ r[i] = ls[i - Len(q)]
  <2>1. i - Len(q) \in 1 .. Len(ls) /\ i = Len(q) + (i - Len(q))
    BY <1>2
  <2> QED
    BY <1>2, <2>1
<1>4. \A i \in Len(q) + 1 .. Len(r) : r[i] \in Linked(e)
  BY <1>1, <1>3 DEF Range
<1>5. ASSUME NEW i \in Len(q) + 1 .. Len(r), NEW j \in Len(q) + 1 .. Len(r), r[i] = r[j]
      PROVE  i = j \/ (e.left = e.right /\ r[i] = e.left)
  <2>1. /\ i - Len(q) \in DOMAIN ls /\ r[i] = ls[i - Len(q)]
        /\ j - Len(q) \in DOMAIN ls /\ r[j] = ls[j - Len(q)]
    BY <1>3
  <2>2. i - Len(q) = j - Len(q) => i = j
    BY <1>2
  <2> QED
    BY <1>1, <1>5, <2>1, <2>2
<1>6. Len(q) <= Len(r) /\ Len(r) \in Nat
  BY <1>2
<1> QED
  BY <1>1, <1>2, <1>4, <1>5, <1>6 DEF r, ls

(* XDVDFS: an entry that is not in use is passed over.                     *)
LEMMA TreeSkips ==
  ASSUME NEW d, NEW L, NEW t, NEW s, NEW q \in Seq(Nat), q # <<>>,
         TreeTodo(d, L, t, s, q), Last(q) \notin InUse(d, s)
  PROVE  TreeTodo(d, L, t, s, Front(q)) /\ Front(q) \in Seq(Nat)
<1> DEFINE r == Front(q)
           n == Len(q)
<1>1. /\ n \in Nat \ {0} /\ DOMAIN q = 1 .. n /\ q[n] \notin InUse(d, s)
      /\ r \in Seq(Nat) /\ DOMAIN r = 1 .. n - 1 /\ \A i \in 1 .. n - 1 : r[i] = q[i]
      /\ Range(q) = Range(r) \cup {q[n]}
  BY PopFacts
<1> HIDE DEF r, n
<1>2. \A l \in InUse(d, s) : l \in Range(r) <=> l \in Range(q)
  BY <1>1
<1>3. \A i, j \in DOMAIN r : r[i] \in InUse(d, s) /\ r[i] = r[j] => i = j
  BY <1>1 DEF TreeTodo
<1> QED
  BY <1>1, <1>2, <1>3 DEF TreeTodo, r

(* XDVDFS: an entry in use is new, and so are those that it links to.      *)
LEMMA TreeLists ==
  ASSUME NEW d, Holds(d), d.format = "xdvdfs", NEW s \in DOMAIN d.dirs,
         NEW L, NEW t \in Homes(d), NEW q \in Seq(Nat), q # <<>>,
         \A o \in InUse(d, s) : Child(d, t, At(d, s, o)),
         TreeTodo(d, L, t, s, q), Last(q) \in InUse(d, s)
  PROVE  LET e == At(d, s, Last(q))
             M == L \cup {Append(t, e)}
             r == Front(q) \o Links(e)
         IN /\ Append(t, e) \notin L
            /\ r \in Seq(Nat) /\ TreeTodo(d, M, t, s, r)
<1> DEFINE e == At(d, s, Last(q))
           M == L \cup {Append(t, e)}
           f == Front(q)
           r == f \o Links(e)
           x == Last(q)
           n == Len(q)
           U == InUse(d, s)
<1>0. /\ Tree(d, s) /\ U \subseteq Nat
      /\ \A o, p \in U : At(d, s, o) = At(d, s, p) => o = p
  BY DirectoryFacts
<1>1. /\ n \in Nat \ {0} /\ DOMAIN q = 1 .. n /\ q[n] = x /\ x \in Nat /\ x \in U
      /\ f \in Seq(Nat) /\ Len(f) = n - 1 /\ DOMAIN f = 1 .. n - 1
      /\ \A i \in 1 .. n - 1 : f[i] = q[i]
      /\ Range(q) = Range(f) \cup {x}
  BY PopFacts
<1>2. Linked(e) \subseteq Nat /\ (e.left = e.right => e.left \notin U)
  BY <1>0 DEF Tree, At
<1>3. /\ r \in Seq(Nat) /\ Len(r) \in Nat /\ n - 1 <= Len(r) /\ DOMAIN r = 1 .. Len(r)
      /\ \A i \in 1 .. n - 1 : r[i] = f[i]
      /\ \A i \in n .. Len(r) : r[i] \in Linked(e)
      /\ Range(r) = Range(f) \cup Linked(e)
      /\ \A i, j \in n .. Len(r) : r[i] = r[j] => i = j \/ (e.left = e.right /\ r[i] = e.left)
  <2>1. Len(f) + 1 = n /\ Len(f) = n - 1
    BY <1>1
  <2> HIDE DEF f, e, n
  <2>2. /\ r \in Seq(Nat) /\ Len(r) \in Nat /\ Len(f) <= Len(r) /\ DOMAIN r = 1 .. Len(r)
        /\ \A i \in 1 .. Len(f) : r[i] = f[i]
        /\ \A i \in Len(f) + 1 .. Len(r) : r[i] \in Linked(e)
        /\ Range(r) = Range(f) \cup Linked(e)
        /\ \A i, j \in Len(f) + 1 .. Len(r) :
             r[i] = r[j] => i = j \/ (e.left = e.right /\ r[i] = e.left)
    BY <1>1, <1>2, PushFacts
  <2> QED
    BY <2>1, <2>2
<1>4. \A o \in U : On(d, M, t, s, o) <=> On(d, L, t, s, o) \/ o = x
  <2> SUFFICES ASSUME NEW o \in U, Append(t, At(d, s, o)) = Append(t, e) PROVE o = x
    BY DEF On
  <2>1. Child(d, t, At(d, s, o)) /\ Child(d, t, e)
    BY <1>1
  <2>2. At(d, s, o) = e
    BY <2>1, TrailGrows
  <2> QED
    BY <1>0, <1>1, <2>2
<1>5. ~On(d, L, t, s, x)
  BY <1>1 DEF TreeTodo, Range
<1>6. \A o, p, l \in U : l \in Linked(At(d, s, o)) => l # 0 /\ (l \in Linked(At(d, s, p)) => o = p)
  BY <1>0 DEF Tree, At
<1> HIDE DEF M, r, f, x, n, U
<1>7. \A l \in U : l \in Range(r) <=> (l \in Range(q) /\ l # x) \/ l \in Linked(e)
  <2>1. \A i \in 1 .. n - 1 : f[i] # x
    BY <1>1 DEF TreeTodo, U
  <2>2. x \notin Range(f)
    BY <1>1, <2>1 DEF Range
  <2> QED
    BY <1>1, <1>3, <2>2
(* An entry that the new one links to was not known before.                *)
<1>8. ASSUME NEW l \in U, l \in Linked(e) PROVE l \notin Range(q) /\ ~On(d, L, t, s, l) /\ l # x
  <2>1. l # 0
    BY <1>1, <1>6, <1>8 DEF x
  <2>2. \A o \in U : l \in Linked(At(d, s, o)) => o = x
    BY <1>1, <1>6, <1>8 DEF x
  <2>3. ~(l \in Range(q) \/ On(d, L, t, s, l))
    BY <1>5, <2>1, <2>2 DEF TreeTodo, U
  <2>4. x \in Range(q)
    BY <1>1 DEF Range
  <2> QED
    BY <2>3, <2>4
<1>9. 0 \in U => 0 \in Range(r) \/ On(d, M, t, s, 0)
  BY <1>4, <1>7 DEF TreeTodo, U
<1>10. ASSUME NEW o \in U, NEW l \in U, On(d, M, t, s, o), l \in Linked(At(d, s, o))
       PROVE  l \in Range(r) \/ On(d, M, t, s, l)
  BY <1>4, <1>7, <1>10 DEF TreeTodo, U, x
<1>11. ASSUME NEW i \in DOMAIN r, NEW j \in DOMAIN r, r[i] \in U, r[i] = r[j] PROVE i = j
  <2>1. ASSUME NEW k \in DOMAIN r, r[k] \in U
        PROVE  \/ k \in 1 .. n - 1 /\ r[k] = q[k] /\ r[k] \in Range(q)
               \/ k \in n .. Len(r) /\ r[k] \in Linked(e) /\ r[k] \notin Range(q)
    <3>1. CASE k \in 1 .. n - 1
      BY <1>1, <1>3, <3>1 DEF Range
    <3>2. CASE k \in n .. Len(r)
      <4> HIDE DEF e
      <4>1. r[k] \in Linked(e)
        BY <1>3, <3>2
      <4>2. r[k] \notin Range(q)
        BY <1>8, <2>1, <4>1
      <4> QED
        BY <3>2, <4>1, <4>2
    <3> QED
      BY <1>1, <1>3, <3>1, <3>2
  <2>2. CASE i \in 1 .. n - 1 /\ j \in 1 .. n - 1
    BY <1>1, <1>3, <1>11, <2>2 DEF TreeTodo, U
  <2>3. CASE i \in n .. Len(r) /\ j \in n .. Len(r)
    BY <1>2, <1>3, <1>11, <2>3
  <2> QED
    BY <1>11, <2>1, <2>2, <2>3
<1>12. \A l \in U : l \in Range(r) => ~On(d, M, t, s, l)
  BY <1>4, <1>7, <1>8 DEF TreeTodo, U
<1>13. ASSUME NEW l \in U, l # 0, l \in Range(r) \/ On(d, M, t, s, l)
       PROVE  \E o \in U : On(d, M, t, s, o) /\ l \in Linked(At(d, s, o))
  <2>1. CASE l \in Linked(e)
    BY <1>1, <1>4, <2>1 DEF x
  <2>2. CASE l \notin Linked(e)
    <3>1. l \in Range(q) \/ On(d, L, t, s, l)
      BY <1>1, <1>4, <1>7, <1>13, <2>2 DEF Range
    <3> QED
      BY <1>4, <1>13, <3>1 DEF TreeTodo, U
  <2> QED
    BY <2>1, <2>2
<1>14. TreeTodo(d, M, t, s, r)
  BY <1>9, <1>10, <1>11, <1>12, <1>13 DEF TreeTodo, U
<1> QED
  BY <1>3, <1>5, <1>14 DEF M, r, f, x, On

(* XDVDFS: when nothing is left to visit, what is listed is closed under   *)
(* links, and so it is everything.                                         *)
LEMMA TreeEnds ==
  ASSUME NEW d, Holds(d), d.format = "xdvdfs", NEW s \in DOMAIN d.dirs,
         NEW L, NEW t, TreeTodo(d, L, t, s, <<>>)
  PROVE  \A o \in InUse(d, s) : On(d, L, t, s, o)
<1> DEFINE seen == {o \in InUse(d, s) : On(d, L, t, s, o)}
<1>1. Tree(d, s)
  BY DirectoryFacts
<1>2. \A l : l \notin Range(<<>>)
  BY DEF Range
<1>3. /\ seen \in SUBSET InUse(d, s)
      /\ 0 \in InUse(d, s) => 0 \in seen
      /\ \A o \in seen, l \in InUse(d, s) : l \in Linked(At(d, s, o)) => l \in seen
  BY <1>2 DEF TreeTodo
<1> HIDE DEF seen
<1>4. seen = InUse(d, s)
  BY <1>1, <1>3 DEF Tree, At
<1> QED
  BY <1>4 DEF seen

(* ISO 9660: the entries in use before the offset are listed.              *)
LEMMA RecordStep ==
  ASSUME NEW d, Holds(d), NEW s \in DOMAIN d.dirs, NEW L, NEW t \in Homes(d), NEW n \in Nat,
         \A o \in InUse(d, s) : Child(d, t, At(d, s, o)),
         RecordTodo(d, L, t, s, <<n>>)
  PROVE  /\ n \notin InUse(d, s) => RecordTodo(d, L, t, s, <<n + 1>>)
         /\ n \in InUse(d, s) =>
              /\ Append(t, At(d, s, n)) \notin L
              /\ RecordTodo(d, L \cup {Append(t, At(d, s, n))}, t, s, <<n + 1>>)
         /\ (\A o \in InUse(d, s) : o < n) => RecordTodo(d, L, t, s, <<>>)
<1> DEFINE U == InUse(d, s)
<1>1. U \subseteq Nat /\ \A o, p \in U : At(d, s, o) = At(d, s, p) => o = p
  BY DirectoryFacts
<1>2. \A o \in U : On(d, L, t, s, o) <=> o < n
  BY DEF RecordTodo
<1>3. ASSUME n \in U PROVE \A o \in U : Append(t, At(d, s, o)) = Append(t, At(d, s, n)) => o = n
  <2> SUFFICES ASSUME NEW o \in U, Append(t, At(d, s, o)) = Append(t, At(d, s, n)) PROVE o = n
    OBVIOUS
  <2>1. Child(d, t, At(d, s, o)) /\ Child(d, t, At(d, s, n))
    BY <1>3
  <2>2. At(d, s, o) = At(d, s, n)
    BY <2>1, TrailGrows
  <2> QED
    BY <1>1, <1>3, <2>2
<1> HIDE DEF U
<1>4. n + 1 \in Nat /\ \A o \in U : o < n + 1 <=> o < n \/ o = n
  BY <1>1
<1>5. n \notin U => RecordTodo(d, L, t, s, <<n + 1>>)
  BY <1>2, <1>4 DEF RecordTodo, U
<1>6. n \in U => Append(t, At(d, s, n)) \notin L
  BY <1>1, <1>2 DEF On
<1>7. n \in U => RecordTodo(d, L \cup {Append(t, At(d, s, n))}, t, s, <<n + 1>>)
  BY <1>2, <1>3, <1>4 DEF RecordTodo, U, On
<1>8. (\A o \in U : o < n) => RecordTodo(d, L, t, s, <<>>)
  BY <1>2 DEF RecordTodo, U
<1> QED
  BY <1>5, <1>6, <1>7, <1>8 DEF U

(* A directory of which nothing is listed is visited from offset 0.        *)
LEMMA FreshTodo ==
  ASSUME NEW d, Holds(d), NEW s \in DOMAIN d.dirs, NEW L, NEW t,
         \A o \in InUse(d, s) : ~On(d, L, t, s, o)
  PROVE  Todo(d, L, t, s, <<0>>)
<1>1. Range(<<0>>) = {0} /\ DOMAIN <<0>> = {1} /\ <<0>> \in Seq(Nat)
  BY DEF Range
<1>2. TreeTodo(d, L, t, s, <<0>>)
  BY <1>1 DEF TreeTodo
<1>3. RecordTodo(d, L, t, s, <<0>>)
  BY DirectoryFacts DEF RecordTodo
<1> QED
  BY <1>1, <1>2, <1>3 DEF Todo

(* What is listed elsewhere makes no difference to a directory.            *)
LEMMA TodoKept ==
  ASSUME NEW d, Holds(d), NEW s \in DOMAIN d.dirs, NEW L, NEW M, NEW t, NEW q,
         \A o \in InUse(d, s) : On(d, L, t, s, o) <=> On(d, M, t, s, o),
         Todo(d, L, t, s, q)
  PROVE  Todo(d, M, t, s, q)
<1>1. TreeTodo(d, L, t, s, q) => TreeTodo(d, M, t, s, q)
  BY DEF TreeTodo
<1>2. RecordTodo(d, L, t, s, q) => RecordTodo(d, M, t, s, q)
  BY DEF RecordTodo
<1> QED
  BY <1>1, <1>2 DEF Todo

(* When nothing is left to visit, everything in use is listed.             *)
LEMMA TodoEnds ==
  ASSUME NEW d, Holds(d), NEW s \in DOMAIN d.dirs, NEW L, NEW t, Todo(d, L, t, s, <<>>)
  PROVE  \A o \in InUse(d, s) : On(d, L, t, s, o)
<1>1. \A n : <<n>> # <<>>
  OBVIOUS
<1> QED
  BY <1>1, TreeEnds DEF Todo, RecordTodo

-----------------------------------------------------------------------------
(* The walk                                                                *)

ListedTrails(d, list) == {t \in Trails(d) : FileOf(t) \in Range(list)}

Frames(d) ==
  [sector : DOMAIN d.dirs, size : Nat, prefix : {Names(t) : t \in Homes(d)}, todo : Seq(Nat)]

FrameAt(d, L, t, f) ==
  /\ f.prefix = Names(t) /\ f.sector = HomeSector(d, t) /\ f.size = HomeSize(d, t)
  /\ Readable(d, f.sector, f.size)
  /\ t = <<>> \/ t \in L
  /\ Todo(d, L, t, f.sector, f.todo)

(* Every directory on the stack is at the depth of its place there.        *)
Framed(d, L, w) == \A k \in DOMAIN w : \E t \in Homes(d) : Len(t) = k - 1 /\ FrameAt(d, L, t, w[k])

(* What is listed is in a directory that is listed.                        *)
Rooted(d, L) ==
  \A t \in Homes(d), e \in Entries(d) : Child(d, t, e) /\ Append(t, e) \in L => t = <<>> \/ t \in L

(* A directory that is listed is on the stack, or all it holds is listed.  *)
Complete(d, L, t) == \A e \in Entries(d) : Child(d, t, e) => Append(t, e) \in L
Finished(d, L, w) ==
  \A t \in Homes(d) : t = <<>> \/ t \in L =>
    Complete(d, L, t) \/ \E k \in DOMAIN w : w[k].prefix = Names(t)

WalkingAt(d, w, list) ==
  LET L == ListedTrails(d, list)
  IN /\ Holds(d)
     /\ w \in Seq(Frames(d)) /\ list \in Seq(DiscContents(d))
     /\ Framed(d, L, w) /\ Rooted(d, L) /\ Finished(d, L, w)

IsoInv == isoStatus = "reading" => WalkingAt(disc, walk, files)

(* The entries of a directory that can be read are those in use at its     *)
(* sector.                                                                 *)
LEMMA ChildFacts ==
  ASSUME NEW d, Holds(d), NEW t \in Homes(d), NEW s, s = HomeSector(d, t),
         Readable(d, s, HomeSize(d, t))
  PROVE  /\ s \in DOMAIN d.dirs
         /\ \A o \in InUse(d, s) : Child(d, t, At(d, s, o))
         /\ \A e : Child(d, t, e) => \E o \in InUse(d, s) : e = At(d, s, o)
         /\ \A o \in InUse(d, s) : o < HomeSize(d, t)
<1>1. s \in DOMAIN d.dirs
  BY DEF Readable
<1>2. Covers(d, s, HomeSize(d, t))
  <2>1. CASE t = <<>>
    BY <2>1, DiscsAssumption DEF HomeSector, HomeSize, Holds
  <2>2. CASE t # <<>>
    <3>1. t \in Trails(d) /\ t[Len(t)].isDir /\ t[Len(t)] \in Entries(d)
      BY <2>2, TrailDepth, DiscsAssumption DEF Homes
    <3> QED
      BY <2>2, <3>1, DiscsAssumption DEF HomeSector, HomeSize, Holds
  <2> QED
    BY <2>1, <2>2
<1> QED
  BY <1>1, <1>2 DEF Covers, Child, Opens, Used, At

LEMMA NoNames == Names(<<>>) = <<>>
<1>1. Names(<<>>) \in [1 .. 0 -> {}]
  BY DEF Names
<1> HIDE DEF Names
<1> QED
  BY <1>1

(* The path and the place that the code stores are those of the trail.     *)
LEMMA LongerPath ==
  ASSUME NEW d, Holds(d), NEW t \in Homes(d), NEW e, Child(d, t, e)
  PROVE  /\ Names(Append(t, e)) = Append(Names(t), e.name)
         /\ FileOf(Append(t, e)) = Listed(e, Names(t))
         /\ e.sector \in Nat /\ e.size \in Nat /\ Wrapped(e.sector) = e.sector
<1> DEFINE u == Append(t, e)
<1>1. u \in Trails(d) /\ Len(t) \in Nat /\ Len(u) = Len(t) + 1 /\ u[Len(t) + 1] = e
  BY TrailGrows
<1>2. e \in Used(d, HomeSector(d, t)) /\ HomeSector(d, t) \in DOMAIN d.dirs
  BY EntryFacts
<1>3. e.sector \in Nat /\ e.size \in Nat
  BY <1>2, DirectoryFacts DEF IsDirectory, Used
<1>4. Wrapped(e.sector) = e.sector
  <2>1. e.sector < MaxSectors
    BY <1>1, TrailDepth
  <2> QED
    BY <1>3, <2>1, DiscsAssumption DEF Wrapped
<1>5. Names(u) = Append(Names(t), e.name)
  <2> DEFINE S == {x.name : x \in Entries(d)}
             n == Len(t)
  <2>1. t \in Seq(Entries(d)) /\ u \in Seq(Entries(d)) /\ DOMAIN t = 1 .. n /\ DOMAIN u = 1 .. n + 1
    <3>1. t \in Seq(Entries(d))
      <4>1. t = <<>> \/ t \in Trails(d)
        BY DEF Homes
      <4> QED
        BY <4>1, TrailDepth, EmptySeq
    <3>2. u \in Seq(Entries(d))
      BY <1>1, TrailDepth
    <3> HIDE DEF u
    <3> QED
      BY <1>1, <3>1, <3>2
  <2>2. Names(t) \in [1 .. n -> S] /\ Names(u) \in [1 .. n + 1 -> S] /\ e.name \in S
    BY <1>1, <2>1, EntryFacts DEF Names
  <2>3. \A i \in 1 .. n : Names(u)[i] = Names(t)[i]
    BY <1>1, <2>1 DEF Names
  <2>4. Names(u)[n + 1] = e.name
    BY <1>1, <2>1 DEF Names
  <2> HIDE DEF S, n, u
  <2>5. n \in Nat
    BY <1>1 DEF n
  <2>6. /\ Names(t) \in Seq(S) /\ Names(u) \in Seq(S) /\ Len(Names(t)) = n
        /\ Len(Names(u)) = n + 1
    BY <2>2, <2>5
  <2>7. /\ Append(Names(t), e.name) \in Seq(S) /\ Len(Append(Names(t), e.name)) = n + 1
        /\ \A i \in 1 .. n + 1 : Append(Names(t), e.name)[i] = Names(u)[i]
    <3> DEFINE p == Names(t)
               x == e.name
    <3>1. p \in Seq(S) /\ x \in S /\ Len(p) = n
      BY <2>2, <2>6
    <3> HIDE DEF p, x
    <3>2. /\ Append(p, x) \in Seq(S) /\ Len(Append(p, x)) = n + 1
          /\ \A i \in 1 .. n : Append(p, x)[i] = p[i]
          /\ Append(p, x)[n + 1] = x
      BY <2>5, <3>1
    <3>3. \A i \in 1 .. n + 1 : i \in 1 .. n \/ i = n + 1
      BY <2>5
    <3> QED
      BY <2>3, <2>4, <3>2, <3>3 DEF p, x
  <2> QED
    BY <2>6, <2>7, SeqEqual
<1>6. FileOf(u) = Listed(e, Names(t))
  BY <1>1, <1>4, <1>5 DEF FileOf, Listed, Names
<1> QED
  BY <1>3, <1>4, <1>5, <1>6

(* The stack when its top is replaced, and a directory is entered.         *)
LEMMA StackFacts ==
  ASSUME NEW S, NEW w \in Seq(S), w # <<>>, NEW g \in S
  PROVE  /\ Len(w) \in Nat \ {0} /\ DOMAIN w = 1 .. Len(w) /\ Last(w) = w[Len(w)] /\ Last(w) \in S
         /\ Front(w) \in Seq(S) /\ Len(Front(w)) = Len(w) - 1
         /\ DOMAIN Front(w) = 1 .. Len(w) - 1
         /\ \A k \in 1 .. Len(w) - 1 : Front(w)[k] = w[k]
         /\ LET v == Append(Front(w), g) \o <<>>
            IN /\ v \in Seq(S) /\ DOMAIN v = 1 .. Len(w) /\ v[Len(w)] = g
               /\ \A k \in 1 .. Len(w) - 1 : v[k] = w[k]
         /\ \A h \in S :
              LET v == Append(Front(w), g) \o <<h>>
              IN /\ v \in Seq(S) /\ DOMAIN v = 1 .. Len(w) + 1
                 /\ v[Len(w)] = g /\ v[Len(w) + 1] = h
                 /\ \A k \in 1 .. Len(w) - 1 : v[k] = w[k]
<1> DEFINE n == Len(w)
           f == SubSeq(w, 1, n - 1)
           p == Append(f, g)
<1>1. n \in Nat \ {0} /\ DOMAIN w = 1 .. n /\ w[n] \in S
  OBVIOUS
<1> HIDE DEF n
<1>2. f \in Seq(S) /\ Len(f) = n - 1 /\ \A k \in 1 .. n - 1 : f[k] = w[k]
  BY <1>1
<1> HIDE DEF f
<1>3. DOMAIN f = 1 .. n - 1
  BY <1>2
<1>4. p \in Seq(S) /\ Len(p) = n /\ p[n] = g /\ \A k \in 1 .. n - 1 : p[k] = w[k]
  BY <1>1, <1>2
<1> HIDE DEF p
<1>5. p \o <<>> = p /\ DOMAIN p = 1 .. n
  BY <1>4, ConcatEmptySeq
<1>6. ASSUME NEW h \in S
      PROVE  LET v == p \o <<h>>
             IN /\ v \in Seq(S) /\ DOMAIN v = 1 .. n + 1 /\ v[n] = g /\ v[n + 1] = h
                /\ \A k \in 1 .. n - 1 : v[k] = w[k]
  <2> DEFINE v == p \o <<h>>
  <2>1. v \in Seq(S) /\ Len(v) = n + 1 /\ v[n + 1] = h /\ \A k \in 1 .. n : v[k] = p[k]
    BY <1>4
  <2> HIDE DEF v
  <2>2. DOMAIN v = 1 .. n + 1
    BY <1>1, <2>1
  <2> QED
    BY <1>1, <1>4, <2>1, <2>2 DEF v
<1> QED
  BY <1>1, <1>2, <1>3, <1>4, <1>5, <1>6 DEF Front, Last, n, f, p

(* Listing a file adds its trail, and no other, to those listed.           *)
LEMMA ListGrows ==
  ASSUME NEW d, Holds(d), NEW list \in Seq(DiscContents(d)), NEW u \in Trails(d),
         u \notin ListedTrails(d, list)
  PROVE  /\ ListedTrails(d, Append(list, FileOf(u))) = ListedTrails(d, list) \cup {u}
         /\ Append(list, FileOf(u)) \in Seq(DiscContents(d))
         /\ FileOf(u) \in DiscContents(d)
         /\ \A i \in DOMAIN list : list[i] # FileOf(u)
<1> DEFINE f == FileOf(u)
           n == Len(list)
           more == Append(list, f)
           S == DiscContents(d)
<1>1. f \in S
  BY TrailDepth
<1>2. f \notin Range(list)
  BY DEF ListedTrails
<1>3. Range(more) = Range(list) \cup {f}
  <2> HIDE DEF f, S
  <2>1. n \in Nat /\ DOMAIN list = 1 .. n
    OBVIOUS
  <2>2. /\ more \in Seq(S) /\ Len(more) = n + 1 /\ more[n + 1] = f
        /\ \A i \in 1 .. n : more[i] = list[i]
    BY <1>1 DEF S
  <2> HIDE DEF n, more
  <2>3. DOMAIN more = 1 .. n + 1 /\ \A i \in 1 .. n + 1 : i \in 1 .. n \/ i = n + 1
    BY <2>1, <2>2
  <2>4. \A i \in 1 .. n : i \in 1 .. n + 1
    BY <2>1
  <2>5. n + 1 \in 1 .. n + 1
    BY <2>1
  <2>6. ASSUME NEW i \in 1 .. n + 1 PROVE more[i] \in Range(list) \cup {f}
    BY <2>1, <2>2, <2>3 DEF Range
  <2>7. Range(list) \subseteq Range(more)
    BY <2>1, <2>2, <2>3, <2>4 DEF Range
  <2>8. f \in Range(more)
    BY <2>2, <2>3, <2>5 DEF Range
  <2>9. Range(more) \subseteq Range(list) \cup {f}
    BY <2>3, <2>6 DEF Range
  <2> QED
    BY <2>7, <2>8, <2>9
<1>4. more \in Seq(S)
  BY <1>1
<1>5. \A i \in DOMAIN list : list[i] # f
  BY <1>2 DEF Range
<1> HIDE DEF more
<1>6. ListedTrails(d, more) = ListedTrails(d, list) \cup {u}
  BY <1>3, OneFile DEF ListedTrails
<1> QED
  BY <1>1, <1>4, <1>5, <1>6 DEF more

(* The directory being walked is that of some trail.                       *)
LEMMA TopFacts ==
  ASSUME NEW d, NEW w, NEW list, WalkingAt(d, w, list), w # <<>>
  PROVE  /\ Last(w) \in Frames(d)
         /\ \E t \in Homes(d) : /\ Len(t) = Len(w) - 1
                               /\ FrameAt(d, ListedTrails(d, list), t, Last(w))
<1>1. w \in Seq(Frames(d)) /\ Framed(d, ListedTrails(d, list), w)
  BY DEF WalkingAt
<1>2. Len(w) \in DOMAIN w /\ Last(w) = w[Len(w)] /\ Last(w) \in Frames(d)
  BY <1>1 DEF Last
<1> QED
  BY <1>1, <1>2 DEF Framed

(* An entry is passed over, or the end of the directory noticed.           *)
LEMMA TopStays ==
  ASSUME NEW d, NEW w, NEW list, WalkingAt(d, w, list), w # <<>>,
         NEW t \in Homes(d), Len(t) = Len(w) - 1,
         FrameAt(d, ListedTrails(d, list), t, Last(w)),
         NEW q, Todo(d, ListedTrails(d, list), t, Last(w).sector, q)
  PROVE  WalkingAt(d, Append(Front(w), [Last(w) EXCEPT !.todo = q]) \o <<>>, list)
<1> DEFINE L == ListedTrails(d, list)
           n == Len(w)
           f == Last(w)
           g == [f EXCEPT !.todo = q]
           v == Append(Front(w), g) \o <<>>
<1>1. /\ w \in Seq(Frames(d)) /\ Framed(d, L, w) /\ Rooted(d, L) /\ Finished(d, L, w)
      /\ f \in Frames(d) /\ q \in Seq(Nat)
  BY TopFacts DEF WalkingAt, Todo
<1> HIDE DEF f
<1>2. /\ g \in Frames(d) /\ g.todo = q /\ g.prefix = f.prefix /\ g.sector = f.sector
      /\ g.size = f.size
  BY <1>1 DEF Frames
<1> HIDE DEF g
<1>3. /\ n \in Nat \ {0} /\ DOMAIN w = 1 .. n /\ f = w[n]
      /\ v \in Seq(Frames(d)) /\ DOMAIN v = 1 .. n /\ v[n] = g
      /\ \A k \in 1 .. n - 1 : v[k] = w[k]
  BY <1>1, <1>2, StackFacts DEF f
<1> HIDE DEF n, v
<1>4. \A k \in 1 .. n : k = n \/ k \in 1 .. n - 1
  BY <1>3
<1>5. Framed(d, L, v)
  <2>1. FrameAt(d, L, t, g)
    BY <1>2 DEF FrameAt, f
  <2>2. Len(t) = n - 1
    BY DEF n
  <2> QED
    BY <1>1, <1>3, <1>4, <2>1, <2>2 DEF Framed
<1>6. \A k \in DOMAIN w : k \in DOMAIN v /\ v[k].prefix = w[k].prefix
  BY <1>2, <1>3, <1>4
<1>7. Finished(d, L, v)
  BY <1>1, <1>6 DEF Finished
<1> QED
  BY <1>1, <1>3, <1>5, <1>7 DEF WalkingAt, v, g, f

(* A trail determines the directory that its last entry is in.             *)
LEMMA OneParent ==
  ASSUME NEW d, Holds(d), NEW t \in Homes(d), NEW e, Child(d, t, e),
         NEW u \in Homes(d), NEW f, Child(d, u, f), Append(t, e) = Append(u, f)
  PROVE  t = u
<1> DEFINE S == Entries(d)
<1>1. t \in Seq(S) /\ u \in Seq(S)
  <2>1. \A v \in Homes(d) : v = <<>> \/ v \in Trails(d)
    BY DEF Homes
  <2> QED
    BY <2>1, TrailDepth, EmptySeq
<1>2. e \in S /\ f \in S
  BY EntryFacts
<1>3. Len(t) \in Nat /\ Len(u) = Len(t)
  BY TrailGrows
<1> HIDE DEF S
<1>4. ASSUME NEW i \in 1 .. Len(t) PROVE t[i] = u[i]
  <2>1. Append(t, e)[i] = t[i] /\ Append(u, f)[i] = u[i]
    BY <1>1, <1>2, <1>3
  <2> QED
    BY <2>1
<1> QED
  BY <1>1, <1>3, <1>4, SeqEqual

(* A new file is listed; if it is a directory that can be read, it is the  *)
(* new top.                                                                *)
LEMMA TopLists ==
  ASSUME NEW d, NEW w, NEW list, WalkingAt(d, w, list), w # <<>>,
         NEW t \in Homes(d), Len(t) = Len(w) - 1,
         FrameAt(d, ListedTrails(d, list), t, Last(w)),
         NEW e, Child(d, t, e), NEW u, u = Append(t, e), u \notin ListedTrails(d, list),
         NEW q, Todo(d, ListedTrails(d, list) \cup {u}, t, Last(w).sector, q),
         NEW entered,
         IF e.isDir /\ Readable(d, e.sector, e.size)
         THEN entered = <<Frame(e.sector, e.size, Names(u))>> ELSE entered = <<>>
  PROVE  WalkingAt(d, Append(Front(w), [Last(w) EXCEPT !.todo = q]) \o entered,
                   Append(list, FileOf(u)))
<1> DEFINE L == ListedTrails(d, list)
           M == L \cup {u}
           n == Len(w)
           f == Last(w)
           g == [f EXCEPT !.todo = q]
           h == Frame(e.sector, e.size, Names(u))
           v == Append(Front(w), g) \o entered
           enters == e.isDir /\ Readable(d, e.sector, e.size)
           more == Append(list, FileOf(u))
<1>0. Holds(d) /\ list \in Seq(DiscContents(d))
  BY DEF WalkingAt
<1>1. /\ w \in Seq(Frames(d)) /\ Framed(d, L, w) /\ Rooted(d, L) /\ Finished(d, L, w)
      /\ f \in Frames(d) /\ q \in Seq(Nat)
  BY TopFacts DEF WalkingAt, Todo
<1>2. /\ u \in Trails(d) /\ Len(t) \in Nat /\ Len(u) = Len(t) + 1 /\ u[Len(t) + 1] = e
      /\ u # <<>> /\ e.sector \in Nat /\ e.size \in Nat
  BY <1>0, TrailGrows, LongerPath, EmptySeq
<1>3. ListedTrails(d, more) = M /\ more \in Seq(DiscContents(d))
  <2>1. u \in Trails(d) /\ u \notin ListedTrails(d, list)
    BY <1>2
  <2> HIDE DEF more, M, L
  <2>2. /\ ListedTrails(d, Append(list, FileOf(u))) = ListedTrails(d, list) \cup {u}
        /\ Append(list, FileOf(u)) \in Seq(DiscContents(d))
    BY ONLY <1>0, <2>1, ListGrows
  <2> QED
    BY <2>2 DEF more, M, L
<1> HIDE DEF more, L
<1>4. /\ g \in Frames(d) /\ g.todo = q /\ g.prefix = f.prefix /\ g.sector = f.sector
      /\ g.size = f.size
  <2> HIDE DEF f
  <2> QED
    BY <1>1 DEF Frames
<1>5. e.isDir => u \in Homes(d) /\ HomeSector(d, u) = e.sector /\ HomeSize(d, u) = e.size
  BY <1>2 DEF Homes, HomeSector, HomeSize
<1>6. ASSUME enters
      PROVE  /\ h \in Frames(d) /\ h.prefix = Names(u) /\ h.sector = e.sector
             /\ h.size = e.size /\ h.todo = <<0>>
  <2>1. e.sector \in DOMAIN d.dirs /\ Names(u) \in {Names(x) : x \in Homes(d)} /\ <<0>> \in Seq(Nat)
    BY <1>5, <1>6 DEF Readable
  <2> QED
    BY <1>2, <2>1 DEF Frame, Frames
<1> HIDE DEF g, h
<1>7. /\ n \in Nat \ {0} /\ DOMAIN w = 1 .. n /\ f = w[n]
      /\ v \in Seq(Frames(d)) /\ v[n] = g /\ \A k \in 1 .. n - 1 : v[k] = w[k]
      /\ IF enters THEN DOMAIN v = 1 .. n + 1 /\ v[n + 1] = h ELSE DOMAIN v = 1 .. n
  <2>1. CASE enters
    <3>1. entered = <<h>>
      BY <2>1 DEF h
    <3> QED
      BY <1>1, <1>4, <1>6, <2>1, <3>1, StackFacts
  <2>2. CASE ~enters
    <3>1. entered = <<>>
      BY <2>2
    <3> QED
      BY <1>1, <1>4, <2>2, <3>1, StackFacts
  <2> QED
    BY <2>1, <2>2
<1>8. Len(t) = n - 1
  OBVIOUS
<1> HIDE DEF n, v, f
<1>9. /\ \A k \in DOMAIN v : k \in 1 .. n - 1 \/ k = n \/ (enters /\ k = n + 1)
      /\ 1 .. n \subseteq DOMAIN v /\ (enters => n + 1 \in DOMAIN v)
  BY <1>7
(* No other directory holds the new file.                                  *)
<1>10. ASSUME NEW x \in Homes(d), x # t, NEW s, s = HomeSector(d, x),
              Readable(d, s, HomeSize(d, x)), NEW y, Todo(d, L, x, s, y)
       PROVE  Todo(d, M, x, s, y)
  <2>1. s \in DOMAIN d.dirs
    BY <1>10 DEF Readable
  <2>2. ASSUME NEW o \in InUse(d, s) PROVE Append(x, At(d, s, o)) # u
    <3>1. Child(d, x, At(d, s, o))
      BY <1>0, <1>10, ChildFacts
    <3> QED
      BY <1>0, <1>10, <3>1, OneParent
  <2>3. \A o \in InUse(d, s) : On(d, L, x, s, o) <=> On(d, M, x, s, o)
    BY <2>2 DEF On
  <2> QED
    BY <1>0, <1>10, <2>1, <2>3, TodoKept
<1>11. ASSUME NEW k \in DOMAIN v PROVE \E x \in Homes(d) : Len(x) = k - 1 /\ FrameAt(d, M, x, v[k])
  <2>1. CASE k \in 1 .. n - 1
    <3>1. PICK x \in Homes(d) : Len(x) = k - 1 /\ FrameAt(d, L, x, w[k])
      <4>1. k \in DOMAIN w
        BY <1>7, <2>1
      <4> QED
        BY <1>1, <4>1 DEF Framed
    <3>2. x # t
      BY <1>7, <1>8, <2>1, <3>1
    <3>3. FrameAt(d, M, x, v[k])
      BY <1>7, <1>10, <2>1, <3>1, <3>2 DEF FrameAt
    <3> QED
      BY <3>1, <3>3
  <2>2. CASE k = n
    <3>1. FrameAt(d, M, t, g)
      BY <1>4 DEF FrameAt, f, L
    <3> QED
      BY <1>7, <1>8, <2>2, <3>1
  <2>3. CASE enters /\ k = n + 1
    <3>1. u \in Homes(d) /\ Len(u) = k - 1
      BY <1>2, <1>5, <1>7, <1>8, <2>3
    <3>2. ASSUME NEW o \in InUse(d, e.sector) PROVE ~On(d, M, u, e.sector, o)
      <4>1. Child(d, u, At(d, e.sector, o)) /\ At(d, e.sector, o) \in Entries(d)
        BY <1>0, <1>5, <2>3, <3>1, ChildFacts, EntryFacts
      <4>2. Append(u, At(d, e.sector, o)) \notin L
        BY <1>1, <1>2, <3>1, <4>1 DEF Rooted, L
      <4>3. Append(u, At(d, e.sector, o)) # u
        <5>1. Len(Append(u, At(d, e.sector, o))) = Len(u) + 1 /\ Len(u) \in Nat
          BY <1>0, <3>1, <4>1, TrailGrows
        <5> QED
          BY <5>1
      <4> QED
        BY <4>2, <4>3 DEF On
    <3>3. Todo(d, M, u, e.sector, <<0>>)
      <4>1. e.sector \in DOMAIN d.dirs
        BY <2>3 DEF Readable
      <4> HIDE DEF M
      <4> QED
        BY <1>0, <3>2, <4>1, FreshTodo
    <3>4. FrameAt(d, M, u, h)
      BY <1>5, <1>6, <2>3, <3>3 DEF FrameAt
    <3> QED
      BY <1>7, <2>3, <3>1, <3>4
  <2> QED
    BY <1>9, <2>1, <2>2, <2>3
<1>12. Rooted(d, M)
  <2> SUFFICES ASSUME NEW x \in Homes(d), NEW y \in Entries(d), Child(d, x, y), Append(x, y) \in M
               PROVE  x = <<>> \/ x \in M
    BY DEF Rooted
  <2>1. CASE Append(x, y) \in L
    BY <1>1, <2>1 DEF Rooted
  <2>2. CASE Append(x, y) = u
    <3>1. x = t
      BY <1>0, <2>2, OneParent
    <3> QED
      BY <3>1 DEF FrameAt, L
  <2> QED
    BY <2>1, <2>2
<1>13. Finished(d, M, v)
  <2> SUFFICES ASSUME NEW x \in Homes(d), x = <<>> \/ x \in M,
                      ~\E k \in DOMAIN v : v[k].prefix = Names(x)
               PROVE  Complete(d, M, x)
    BY DEF Finished
  <2>1. CASE x = u
    <3>1. e.isDir
      BY <1>2, <2>1 DEF Homes
    <3>2. ~enters
      BY <1>6, <1>7, <1>9, <2>1
    <3> QED
      BY <1>5, <2>1, <3>1, <3>2 DEF Complete, Child, Opens
  <2>2. CASE x = <<>> \/ x \in L
    <3>1. \A k \in DOMAIN w : k \in DOMAIN v /\ v[k].prefix = w[k].prefix
      BY <1>4, <1>7, <1>9
    <3>2. Complete(d, L, x)
      BY <1>1, <2>2, <3>1 DEF Finished
    <3> QED
      BY <3>2 DEF Complete
  <2> QED
    BY <2>1, <2>2
<1>14. Framed(d, M, v)
  BY <1>11 DEF Framed
<1> QED
  BY <1>0, <1>3, <1>7, <1>12, <1>13, <1>14 DEF WalkingAt, v, g, f, more

(* A directory is left when all it holds is listed.                        *)
LEMMA TopLeaves ==
  ASSUME NEW d, NEW w, NEW list, WalkingAt(d, w, list), w # <<>>, Last(w).todo = <<>>
  PROVE  WalkingAt(d, Front(w), list)
<1> DEFINE L == ListedTrails(d, list)
           n == Len(w)
           v == Front(w)
<1>1. /\ Holds(d) /\ w \in Seq(Frames(d)) /\ Framed(d, L, w) /\ Finished(d, L, w)
      /\ Last(w) \in Frames(d)
  BY TopFacts DEF WalkingAt
<1>2. PICK t \in Homes(d) : Len(t) = n - 1 /\ FrameAt(d, L, t, Last(w))
  BY TopFacts
<1>3. /\ n \in Nat \ {0} /\ DOMAIN w = 1 .. n /\ Last(w) = w[n]
      /\ v \in Seq(Frames(d)) /\ DOMAIN v = 1 .. n - 1 /\ \A k \in 1 .. n - 1 : v[k] = w[k]
  BY <1>1, StackFacts
<1> HIDE DEF v, n, L
<1>4. Framed(d, L, v)
  BY <1>1, <1>3 DEF Framed
<1>5. Complete(d, L, t)
  <2> DEFINE s == HomeSector(d, t)
  <2>1. Todo(d, L, t, s, <<>>) /\ Readable(d, s, HomeSize(d, t))
    BY <1>2 DEF FrameAt
  <2>2. \A o \in InUse(d, s) : On(d, L, t, s, o)
    BY <1>1, <2>1, ChildFacts, TodoEnds
  <2> QED
    BY <1>1, <2>1, <2>2, ChildFacts DEF Complete, On
<1>6. Finished(d, L, v)
  <2> SUFFICES ASSUME NEW x \in Homes(d), x = <<>> \/ x \in L, ~Complete(d, L, x)
               PROVE  \E k \in DOMAIN v : v[k].prefix = Names(x)
    BY DEF Finished
  <2>1. PICK k \in DOMAIN w : w[k].prefix = Names(x)
    BY <1>1 DEF Finished
  <2>2. k # n
    <3> SUFFICES ASSUME k = n PROVE x = t
      BY <1>5
    <3>1. Names(t) = Names(x)
      BY <1>2, <1>3, <2>1 DEF FrameAt
    <3> QED
      BY <1>1, <3>1, OneHome
  <2> QED
    BY <1>3, <2>1, <2>2
<1> QED
  BY <1>3, <1>4, <1>6 DEF WalkingAt, v, L

(* The walk ends with everything listed.                                   *)
LEMMA WalkEnds ==
  ASSUME NEW d, NEW list, WalkingAt(d, <<>>, list)
  PROVE  \A f \in DiscContents(d) : \E i \in DOMAIN list : list[i] = f
<1> DEFINE L == ListedTrails(d, list)
           missing == {Len(u) : u \in Trails(d) \ L}
<1>1. Holds(d) /\ Finished(d, L, <<>>)
  BY DEF WalkingAt
<1>2. ASSUME NEW t \in Homes(d), t = <<>> \/ t \in L PROVE Complete(d, L, t)
  BY <1>1, <1>2 DEF Finished
<1>3. Trails(d) \subseteq L
  <2> SUFFICES ASSUME missing # {} PROVE FALSE
    OBVIOUS
  <2>1. missing \in SUBSET Nat
    BY <1>1, TrailDepth, DiscsAssumption
  <2>2. PICK n \in missing : \A m \in missing : n <= m
    <3> HIDE DEF missing
    <3> QED
      BY <2>1, Smallest
  <2>3. PICK u \in Trails(d) \ L : n = Len(u)
    OBVIOUS
  <2>4. PICK t \in Homes(d), e \in Entries(d) :
          /\ Child(d, t, e) /\ u = Append(t, e) /\ (t = <<>> \/ t \in Trails(d))
          /\ Len(u) = Len(t) + 1 /\ Len(t) \in Nat
    BY <1>1, TrailSplits
  <2>5. t = <<>> \/ t \in L
    <3>1. Len(t) \notin missing
      BY <2>2, <2>3, <2>4
    <3> QED
      BY <2>4, <3>1
  <2>6. u \in L
    BY <1>2, <2>4, <2>5 DEF Complete
  <2> QED
    BY <2>3, <2>6
<1>4. \A t \in Trails(d) : FileOf(t) \in Range(list)
  BY <1>3 DEF ListedTrails
<1> QED
  BY <1>4 DEF DiscContents, Range

(* The walk begins at the root, with nothing listed, or ends at once if    *)
(* the root cannot be read.                                                *)
LEMMA WalkBegins ==
  ASSUME NEW d, Holds(d)
  PROVE  WalkingAt(d, Entered(d, d.root, d.rootSize, <<>>), <<>>)
<1> DEFINE w == Entered(d, d.root, d.rootSize, <<>>)
           f == Frame(d.root, d.rootSize, <<>>)
<1>1. ListedTrails(d, <<>>) = {}
  BY DEF ListedTrails, Range
<1>2. <<>> \in Homes(d) /\ HomeSector(d, <<>>) = d.root /\ HomeSize(d, <<>>) = d.rootSize
  BY DEF Homes, HomeSector, HomeSize
<1>3. CASE Readable(d, d.root, d.rootSize)
  <2>1. w = <<f>>
    BY <1>3 DEF Entered
  <2>2. d.root \in DOMAIN d.dirs /\ d.rootSize \in Nat
    BY <1>3, DiscsAssumption DEF Readable, Holds
  <2>3. <<>> \in {Names(t) : t \in Homes(d)}
    BY <1>2, NoNames
  <2>4. /\ f \in Frames(d) /\ f.prefix = <<>> /\ f.sector = d.root /\ f.size = d.rootSize
        /\ f.todo = <<0>>
    BY <2>2, <2>3 DEF Frame, Frames
  <2> HIDE DEF f
  <2>5. Todo(d, {}, <<>>, d.root, <<0>>)
    <3>1. \A o \in InUse(d, d.root) : ~On(d, {}, <<>>, d.root, o)
      BY DEF On
    <3> QED
      BY <2>2, <3>1, FreshTodo, Zenon
  <2>6. FrameAt(d, {}, <<>>, f)
    BY <1>2, <1>3, <2>4, <2>5, NoNames DEF FrameAt
  <2>7. DOMAIN w = {1} /\ w[1] = f /\ w \in Seq(Frames(d)) /\ Len(<<>>) = 0
    <3> HIDE DEF w
    <3> QED
      BY <2>1, <2>4
  <2> HIDE DEF w
  <2>8. Framed(d, {}, w)
    BY <1>2, <2>6, <2>7 DEF Framed
  <2>9. Finished(d, {}, w)
    BY <2>4, <2>7, NoNames DEF Finished
  <2>10. Rooted(d, {}) /\ <<>> \in Seq(DiscContents(d))
    BY EmptySeq DEF Rooted
  <2> QED
    BY <1>1, <2>7, <2>8, <2>9, <2>10 DEF WalkingAt, w
<1>4. CASE ~Readable(d, d.root, d.rootSize)
  <2>1. w = <<>>
    BY <1>4 DEF Entered
  <2>2. Complete(d, {}, <<>>)
    BY <1>2, <1>4 DEF Complete, Child, Opens
  <2>3. Finished(d, {}, <<>>)
    BY <2>2 DEF Finished
  <2>4. Rooted(d, {}) /\ Framed(d, {}, <<>>)
    BY DEF Rooted, Framed
  <2>5. <<>> \in Seq(DiscContents(d)) /\ <<>> \in Seq(Frames(d))
    BY EmptySeq
  <2> QED
    BY <1>1, <2>1, <2>3, <2>4, <2>5 DEF WalkingAt
<1> QED
  BY <1>3, <1>4

-----------------------------------------------------------------------------
(* One step of the parser keeps the invariant and is one of Catalog's.     *)
DiscStep == [IsoCatalog!CatalogNext]_(IsoCatalog!catalogVars)
Top == Last(walk)

LEMMA OpenDiscStep ==
  ASSUME NEW d \in Discs, OpenDisc(d)
  PROVE  IsoInv' /\ DiscStep
<1>1. CASE d.format = "neither"
  <2>1. isoStatus' = "refused" /\ files' = <<>> /\ isoStatus # "reading"
    BY <1>1 DEF OpenDisc
  <2> QED
    BY <2>1 DEF IsoInv, DiscStep, IsoCatalog!CatalogNext, IsoCatalog!Start
<1>2. CASE d.format # "neither"
  <2>1. /\ isoStatus' = "reading" /\ files' = <<>> /\ isoStatus # "reading" /\ disc' = d
        /\ walk' = Entered(d, d.root, d.rootSize, <<>>)
    BY <1>2 DEF OpenDisc
  <2>2. WalkingAt(d, walk', files')
    BY <1>2, <2>1, WalkBegins DEF Holds
  <2> QED
    BY <2>1, <2>2 DEF IsoInv, DiscStep, IsoCatalog!CatalogNext, IsoCatalog!Start
<1> QED
  BY <1>1, <1>2

(* A round of a loop lists one new file, or none.                          *)
LEMMA WalkSteps ==
  ASSUME NEW d, NEW t, NEW e, IsoInv, isoStatus = "reading", isoStatus' = "reading",
         d = disc, disc' = d, WalkingAt(d, walk', files'),
         \/ files' = files
         \/ /\ t \in Homes(d) /\ Child(d, t, e) /\ Append(t, e) \notin ListedTrails(d, files)
            /\ files' = Append(files, FileOf(Append(t, e)))
  PROVE  IsoInv' /\ DiscStep
<1>1. IsoInv'
  BY DEF IsoInv
<1>2. CASE files' = files
  BY <1>1, <1>2 DEF DiscStep, IsoCatalog!catalogVars
<1>3. CASE /\ t \in Homes(d) /\ Child(d, t, e) /\ Append(t, e) \notin ListedTrails(d, files)
           /\ files' = Append(files, FileOf(Append(t, e)))
  <2> DEFINE u == Append(t, e)
             f == FileOf(u)
  <2>1. WalkingAt(d, walk, files)
    BY DEF IsoInv
  <2>2. Holds(d) /\ files \in Seq(DiscContents(d))
    BY <2>1 DEF WalkingAt
  <2>3. u \in Trails(d)
    BY <1>3, <2>2, TrailGrows
  <2>4. f \in DiscContents(d) /\ \A i \in DOMAIN files : files[i] # f
    BY <1>3, <2>2, <2>3, ListGrows
  <2>5. files' = Append(files, f)
    BY <1>3
  <2> HIDE DEF f
  <2>6. IsoCatalog!List(f)
    BY <2>4, <2>5 DEF IsoCatalog!List
  <2> QED
    BY <1>1, <2>4, <2>6 DEF DiscStep, IsoCatalog!CatalogNext
<1> QED
  BY <1>1, <1>2, <1>3

(* What a step of a walk starts from.                                      *)
LEMMA StepFacts ==
  ASSUME IsoInv, isoStatus = "reading", walk # <<>>, Top.todo # <<>>
  PROVE  /\ WalkingAt(disc, walk, files) /\ Holds(disc)
         /\ Top.size \in Nat /\ Top.todo \in Seq(Nat) /\ Offset \in Nat
         /\ Top.sector \in DOMAIN disc.dirs
         /\ Entry = At(disc, Top.sector, Offset)
         /\ Offset < Top.size =>
              (Offset \in InUse(disc, Top.sector) <=> Entry.name # NoName /\ ~Entry.isDots)
         /\ \A o \in InUse(disc, Top.sector) : o < Top.size
         /\ \E t \in Homes(disc) :
              /\ Len(t) = Len(walk) - 1 /\ FrameAt(disc, ListedTrails(disc, files), t, Top)
              /\ Top.prefix = Names(t)
              /\ \A o \in InUse(disc, Top.sector) : Child(disc, t, At(disc, Top.sector, o))
<1>1. WalkingAt(disc, walk, files) /\ Holds(disc)
  BY DEF IsoInv, WalkingAt
<1>2. Top \in Frames(disc)
  BY <1>1, TopFacts DEF Top
<1>3. PICK t \in Homes(disc) : /\ Len(t) = Len(walk) - 1
                               /\ FrameAt(disc, ListedTrails(disc, files), t, Top)
  BY <1>1, TopFacts DEF Top
<1> DEFINE f == Top
<1>4. Top.size \in Nat /\ Top.todo \in Seq(Nat) /\ Top.sector \in DOMAIN disc.dirs
  <2> HIDE DEF f
  <2>1. f.size \in Nat /\ f.todo \in Seq(Nat) /\ f.sector \in DOMAIN disc.dirs
    BY <1>2 DEF Frames, f
  <2> QED
    BY <2>1 DEF f
<1>5. Offset \in Nat
  BY <1>4, PopFacts DEF Offset, Top
<1>6. Entry = At(disc, Top.sector, Offset)
  BY DEF Entry, At, Top
<1>7. Readable(disc, Top.sector, Top.size) /\ Top.prefix = Names(t)
      /\ Top.sector = HomeSector(disc, t) /\ Top.size = HomeSize(disc, t)
  BY <1>3 DEF FrameAt
<1>8. /\ \A o \in InUse(disc, Top.sector) : Child(disc, t, At(disc, Top.sector, o))
      /\ \A o \in InUse(disc, Top.sector) : o < Top.size
  BY <1>1, <1>7, ChildFacts
<1>9. ASSUME Offset < Top.size
      PROVE  Offset \in InUse(disc, Top.sector) <=> Entry.name # NoName /\ ~Entry.isDots
  <2>1. IsDirectory(disc, Top.sector)
    BY <1>1, <1>4, DirectoryFacts
  <2>2. Offset \in DOMAIN Directory(disc, Top.sector).entries
    BY <1>4, <1>5, <1>7, <1>9, <2>1 DEF IsDirectory, Readable
  <2> QED
    BY <1>6, <2>2 DEF InUse, At
<1> QED
  BY <1>1, <1>3, <1>4, <1>5, <1>6, <1>7, <1>8, <1>9

LEMMA VisitEntryStep ==
  ASSUME IsoInv, VisitEntry
  PROVE  IsoInv' /\ DiscStep
<1> DEFINE s == Top.sector
           q == Top.todo
           L == ListedTrails(disc, files)
           e == At(disc, s, Offset)
<1>1. /\ isoStatus = "reading" /\ walk # <<>> /\ q # <<>> /\ disc.format = "xdvdfs"
      /\ isoStatus' = "reading" /\ disc' = disc
  BY DEF VisitEntry, Walking, Top
<1>2. /\ WalkingAt(disc, walk, files) /\ Holds(disc)
      /\ Top.size \in Nat /\ q \in Seq(Nat) /\ Offset \in Nat
      /\ s \in DOMAIN disc.dirs /\ Entry = e
      /\ Offset < Top.size =>
           (Offset \in InUse(disc, s) <=> Entry.name # NoName /\ ~Entry.isDots)
      /\ \A o \in InUse(disc, s) : o < Top.size
  BY <1>1, StepFacts
<1>3. PICK t \in Homes(disc) :
         /\ Len(t) = Len(walk) - 1 /\ FrameAt(disc, L, t, Top) /\ Top.prefix = Names(t)
         /\ \A o \in InUse(disc, s) : Child(disc, t, At(disc, s, o))
  BY <1>1, StepFacts
<1>4. Offset \in InUse(disc, s) <=> ~(Offset >= Top.size \/ Entry.name = NoName)
  <2>1. Tree(disc, s)
    BY <1>1, <1>2, DirectoryFacts
  <2>2. Offset \in InUse(disc, s) => Entry.name # NoName
    BY <1>2 DEF InUse, At
  <2>3. Offset < Top.size => ~Entry.isDots
    <3>1. IsDirectory(disc, s) /\ Readable(disc, s, Top.size)
      BY <1>2, <1>3, DirectoryFacts DEF FrameAt
    <3>2. Offset < Top.size => Offset \in DOMAIN Directory(disc, s).entries
      BY <1>2, <3>1 DEF IsDirectory, Readable
    <3> QED
      BY <1>2, <2>1, <3>2 DEF Tree, At
  <2> QED
    BY <1>2, <2>2, <2>3
<1>5. TreeTodo(disc, L, t, s, q) /\ Offset = Last(q)
  BY <1>1, <1>3 DEF FrameAt, Todo, Offset, Top
<1>6. CASE Offset \notin InUse(disc, s)
  <2>1. walk' = Append(Front(walk), [Top EXCEPT !.todo = Front(q)]) \o <<>> /\ files' = files
    BY <1>4, <1>6 DEF VisitEntry, Continue, Top
  <2>2. Todo(disc, L, t, s, Front(q))
    BY <1>1, <1>2, <1>5, <1>6, TreeSkips DEF Todo
  <2>3. WalkingAt(disc, walk', files')
    BY <1>1, <1>2, <1>3, <2>1, <2>2, TopStays DEF Top
  <2> QED
    BY <1>1, <2>1, <2>3, WalkSteps
<1>7. CASE Offset \in InUse(disc, s)
  <2> DEFINE u == Append(t, e)
             r == Front(q) \o Links(e)
             entered == IF e.isDir
                        THEN Entered(disc, Wrapped(e.sector), e.size, Append(Top.prefix, e.name))
                        ELSE <<>>
  <2>1. /\ walk' = Append(Front(walk), [Top EXCEPT !.todo = r]) \o entered
        /\ files' = Append(files, Listed(e, Top.prefix))
    BY <1>2, <1>4, <1>7 DEF VisitEntry, Continue, Top
  <2>2. u \notin L /\ r \in Seq(Nat) /\ TreeTodo(disc, L \cup {u}, t, s, r)
    BY <1>1, <1>2, <1>3, <1>5, <1>7, TreeLists
  <2>3. Todo(disc, L \cup {u}, t, s, r)
    BY <1>1, <2>2 DEF Todo
  <2>4. Child(disc, t, e)
    BY <1>3, <1>7
  <2>5. /\ Names(u) = Append(Top.prefix, e.name) /\ FileOf(u) = Listed(e, Top.prefix)
        /\ Wrapped(e.sector) = e.sector
    BY <1>2, <1>3, <2>4, LongerPath
  <2>6. IF e.isDir /\ Readable(disc, e.sector, e.size)
        THEN entered = <<Frame(e.sector, e.size, Names(u))>> ELSE entered = <<>>
    BY <2>5 DEF Entered
  <2> HIDE DEF u, r, entered, e, L
  <2>7. WalkingAt(disc, walk', files')
    BY <1>1, <1>2, <1>3, <2>1, <2>2, <2>3, <2>4, <2>5, <2>6, TopLists DEF Top, u, L
  <2> QED
    BY <1>1, <1>3, <2>1, <2>2, <2>4, <2>5, <2>7, WalkSteps DEF u, L
<1> QED
  BY <1>6, <1>7

LEMMA VisitRecordStep ==
  ASSUME IsoInv, VisitRecord
  PROVE  IsoInv' /\ DiscStep
<1> DEFINE s == Top.sector
           q == Top.todo
           n == Offset
           L == ListedTrails(disc, files)
           e == At(disc, s, Offset)
<1>1. /\ isoStatus = "reading" /\ walk # <<>> /\ q # <<>> /\ disc.format = "iso9660"
      /\ isoStatus' = "reading" /\ disc' = disc
  BY DEF VisitRecord, Walking, Top
<1>2. /\ WalkingAt(disc, walk, files) /\ Holds(disc)
      /\ Top.size \in Nat /\ q \in Seq(Nat) /\ n \in Nat
      /\ s \in DOMAIN disc.dirs /\ Entry = e
      /\ n < Top.size => (n \in InUse(disc, s) <=> Entry.name # NoName /\ ~Entry.isDots)
      /\ \A o \in InUse(disc, s) : o < Top.size
  BY <1>1, StepFacts
<1>3. PICK t \in Homes(disc) :
         /\ Len(t) = Len(walk) - 1 /\ FrameAt(disc, L, t, Top) /\ Top.prefix = Names(t)
         /\ \A o \in InUse(disc, s) : Child(disc, t, At(disc, s, o))
  BY <1>1, StepFacts
<1>4. RecordTodo(disc, L, t, s, <<n>>)
  <2>1. RecordTodo(disc, L, t, s, q)
    BY <1>1, <1>3 DEF FrameAt, Todo
  <2>2. PICK m \in Nat : q = <<m>>
    BY <1>1, <2>1 DEF RecordTodo
  <2>3. n = m
    BY <2>2 DEF Offset, Top, Last
  <2> QED
    BY <2>1, <2>2, <2>3
<1>5. /\ n \notin InUse(disc, s) => RecordTodo(disc, L, t, s, <<n + 1>>)
      /\ n \in InUse(disc, s) =>
           /\ Append(t, e) \notin L
           /\ RecordTodo(disc, L \cup {Append(t, e)}, t, s, <<n + 1>>)
      /\ (\A o \in InUse(disc, s) : o < n) => RecordTodo(disc, L, t, s, <<>>)
  <2> HIDE DEF L, n, s
  <2> QED
    BY <1>2, <1>3, <1>4, RecordStep DEF n
<1>6. ASSUME NEW r, RecordTodo(disc, L, t, s, r), r \in Seq(Nat), files' = files,
             walk' = Append(Front(walk), [Top EXCEPT !.todo = r]) \o <<>>
      PROVE  IsoInv' /\ DiscStep
  <2>1. Todo(disc, L, t, s, r)
    BY <1>1, <1>6 DEF Todo
  <2>2. WalkingAt(disc, walk', files')
    BY <1>1, <1>2, <1>3, <1>6, <2>1, TopStays DEF Top
  <2> QED
    BY <1>1, <1>6, <2>2, WalkSteps
<1>7. CASE n >= Top.size
  <2>1. walk' = Append(Front(walk), [Top EXCEPT !.todo = <<>>]) \o <<>> /\ files' = files
    BY <1>7 DEF VisitRecord, Continue, Top
  <2>2. \A o \in InUse(disc, s) : o < n
    BY <1>2, <1>7, DirectoryFacts
  <2> QED
    BY <1>5, <1>6, <2>1, <2>2, EmptySeq
<1>8. CASE n < Top.size /\ n \notin InUse(disc, s)
  <2>1. Skipped(Entry)
    BY <1>2, <1>8 DEF Skipped
  <2>2. ~(n >= Top.size)
    BY <1>2, <1>8
  <2>3. walk' = Append(Front(walk), [Top EXCEPT !.todo = <<n + 1>>]) \o <<>> /\ files' = files
    BY <2>1, <2>2 DEF VisitRecord, Continue, Top
  <2>4. <<n + 1>> \in Seq(Nat)
    BY <1>2
  <2> QED
    BY <1>5, <1>6, <1>8, <2>3, <2>4
<1>9. CASE n < Top.size /\ n \in InUse(disc, s)
  <2> DEFINE u == Append(t, e)
             entered == IF e.isDir /\ e.sector # s
                        THEN Entered(disc, e.sector, e.size, Append(Top.prefix, e.name)) ELSE <<>>
  <2>1. ~Skipped(Entry) /\ ~(n >= Top.size)
    BY <1>2, <1>9 DEF Skipped
  <2>2. /\ walk' = Append(Front(walk), [Top EXCEPT !.todo = <<n + 1>>]) \o entered
        /\ files' = Append(files, Listed(e, Top.prefix))
    BY <1>2, <2>1 DEF VisitRecord, Continue, Top
  <2>3. Child(disc, t, e)
    BY <1>3, <1>9
  <2>4. u \notin L /\ Todo(disc, L \cup {u}, t, s, <<n + 1>>)
    BY <1>1, <1>2, <1>5, <1>9 DEF Todo
  <2>5. Names(u) = Append(Top.prefix, e.name) /\ FileOf(u) = Listed(e, Top.prefix)
    BY <1>2, <1>3, <2>3, LongerPath
  <2>6. ~(e.isDir /\ Readable(disc, e.sector, e.size) /\ e.sector = s)
    <3> SUFFICES ASSUME e.isDir, Readable(disc, e.sector, e.size), e.sector = s PROVE FALSE
      OBVIOUS
    <3> HIDE DEF e
    <3>1. u \in Trails(disc) /\ Len(t) \in Nat /\ Len(u) = Len(t) + 1 /\ u[Len(u)] = e
      BY <1>2, <1>3, <2>3, TrailGrows
    <3>2. u # <<>>
      BY <1>2, <3>1, TrailDepth
    <3>3. e \in Used(disc, s)
      BY <1>2, <1>3, <2>3, EntryFacts DEF FrameAt
    <3> HIDE DEF u
    <3>4. Child(disc, u, e)
      BY <3>1, <3>2, <3>3 DEF Child, HomeSector, HomeSize, Opens
    <3> QED
      BY <1>2, <3>1, <3>4, NoLoop
  <2>7. IF e.isDir /\ Readable(disc, e.sector, e.size)
        THEN entered = <<Frame(e.sector, e.size, Names(u))>> ELSE entered = <<>>
    BY <2>5, <2>6 DEF Entered
  <2> HIDE DEF u, entered, e, L, n
  <2>8. WalkingAt(disc, walk', files')
    BY <1>1, <1>2, <1>3, <2>2, <2>3, <2>4, <2>5, <2>7, TopLists DEF Top, u, L
  <2> QED
    BY <1>1, <1>3, <2>2, <2>3, <2>4, <2>5, <2>8, WalkSteps DEF u, L
<1> QED
  BY <1>2, <1>7, <1>8, <1>9

LEMMA LeaveDirectoryStep ==
  ASSUME IsoInv, LeaveDirectory
  PROVE  IsoInv' /\ DiscStep
<1>1. /\ isoStatus = "reading" /\ isoStatus' = "reading" /\ disc' = disc /\ files' = files
      /\ walk' = Front(walk) /\ walk # <<>> /\ Last(walk).todo = <<>>
  BY DEF LeaveDirectory
<1>2. WalkingAt(disc, walk', files')
  BY <1>1, TopLeaves DEF IsoInv
<1> QED
  BY <1>1, <1>2, WalkSteps

LEMMA OpenReturnsStep ==
  ASSUME IsoInv, OpenReturns
  PROVE  IsoInv' /\ DiscStep
<1>1. WalkingAt(disc, <<>>, files)
  BY DEF IsoInv, OpenReturns
<1>2. \A f \in DiscContents(disc) : \E i \in DOMAIN files : files[i] = f
  BY <1>1, WalkEnds
<1>3. IsoCatalog!Done
  BY <1>2 DEF OpenReturns, IsoCatalog!Done
<1>4. IsoInv'
  BY DEF OpenReturns, IsoInv
<1> QED
  BY <1>3, <1>4 DEF DiscStep, IsoCatalog!CatalogNext

LEMMA CloseDiscStep ==
  ASSUME CloseDisc
  PROVE  IsoInv' /\ DiscStep
<1>1. IsoInv'
  BY DEF CloseDisc, IsoInv
<1>2. IsoCatalog!Forget
  BY DEF CloseDisc, IsoCatalog!Forget, DiscContents
<1> QED
  BY <1>1, <1>2 DEF DiscStep, IsoCatalog!CatalogNext

LEMMA IsoKept ==
  ASSUME IsoInv, UNCHANGED isoVars
  PROVE  IsoInv' /\ DiscStep
<1>1. IsoInv'
  BY DEF isoVars, IsoInv
<1>2. UNCHANGED IsoCatalog!catalogVars
  BY DEF isoVars, IsoCatalog!catalogVars
<1> QED
  BY <1>1, <1>2 DEF DiscStep

LEMMA ImageStep == IsoInv /\ [GameNext]_gameVars => IsoInv' /\ DiscStep
<1> SUFFICES ASSUME IsoInv, [GameNext]_gameVars PROVE IsoInv' /\ DiscStep
  OBVIOUS
<1>1. CASE IsoLoad
  BY <1>1, OpenDiscStep DEF IsoLoad
<1>2. CASE XexLoad \/ StfsLoad
  BY <1>2, IsoKept DEF XexLoad, StfsLoad
<1>3. CASE Parse
  BY <1>3, IsoKept, VisitEntryStep, VisitRecordStep, LeaveDirectoryStep, OpenReturnsStep
     DEF Parse, IsoStep
<1>4. CASE IsoReturns
  BY <1>4, CloseDiscStep DEF IsoReturns
<1>5. CASE XexRefused \/ XexLoaded \/ StfsReturns
  BY <1>5, IsoKept DEF XexRefused, XexLoaded, StfsReturns
<1>6. CASE UNCHANGED gameVars
  BY <1>6, IsoKept DEF gameVars
<1> QED
  BY <1>1, <1>2, <1>3, <1>4, <1>5, <1>6 DEF GameNext, Progress

(* Opening an image does what Catalog says, after any series of loads:     *)
(* every file of the directories that can be read gets into the list once, *)
(* with the path and the place it has, nothing else does, and the call     *)
(* returns only when all of them are there.                                *)
THEOREM DiscsAreListed == GameSpec => IsoCatalog!CatalogSafety
<1>1. GameInit => IsoInv /\ IsoCatalog!CatalogInit
  BY DEF GameInit, IsoInit, IsoInv, IsoCatalog!CatalogInit, DiscContents
<1> QED
  BY <1>1, ImageStep, PTL DEF GameSpec, IsoCatalog!CatalogSafety, DiscStep
===============================================================================
