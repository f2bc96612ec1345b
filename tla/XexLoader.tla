------------------------------- MODULE XexLoader -------------------------------
(***************************************************************************)
(* The loader of executables (xex_loader.cpp): load() parses the header    *)
(* with its directory, keeps the security information, unpacks the image.  *)
(*                                                                         *)
(* A file is a record: whether a header and its magic are there, whether   *)
(* the security information lies inside the file, its load address, what   *)
(* its signature holds where XexHeader has the format and the address, and *)
(* the entries of its directory: as many as the header counts and the file *)
(* holds, which is where the loop ends.  The title that is shown is left   *)
(* out, and with it the execution information that an entry points to and  *)
(* that is read wherever that is.                                          *)
(***************************************************************************)
EXTENDS Naturals, Sequences

CONSTANTS
  XexFiles,         \* files that are opened
  Addresses,        \* what a variable that was not initialised may hold
  NoXex

ASSUME XexFilesAssumption ==
  \A f \in XexFiles : Len(f.directory) \in Nat /\ DOMAIN f.directory = 1 .. Len(f.directory)

VARIABLES
  xexStage,         \* "idle", "directory", "parsed", "loaded" or "refused"
  xexFile,          \* the file that is read
  dirIndex,         \* i, over the entries of the directory
  img               \* the XexImage that is filled

xexVars == <<xexStage, xexFile, dirIndex, img>>

NoImg == [baseAddress |-> 0, entryPoint |-> 0, format |-> "none", raw |-> NoXex]
XexInit == xexStage = "idle" /\ xexFile = NoXex /\ dirIndex = 1 /\ img = NoImg

-----------------------------------------------------------------------------
(* load() up to the directory.  The caller's XexImage is not initialised:  *)
(* its entry point is anything until the directory has one.                *)
ReadXex(f) ==
  /\ xexStage = "idle"
  /\ xexFile' = f
  /\ dirIndex' = 1
  /\ IF f.hasHeader /\ f.hasSecurity
     THEN /\ xexStage' = "directory"
          /\ \E garbage \in Addresses :
               img' = [NoImg EXCEPT !.baseAddress = f.loadAddress, !.entryPoint = garbage]
     ELSE xexStage' = "refused" /\ UNCHANGED img

(* One entry of the directory.                                             *)
ParseDirectory ==
  /\ xexStage = "directory" /\ dirIndex <= Len(xexFile.directory)
  /\ dirIndex' = dirIndex + 1
  /\ LET entry == xexFile.directory[dirIndex]
     IN img' = CASE entry.key = "entryPoint" -> [img EXCEPT !.entryPoint = entry.value]
                 [] entry.key = "fileFormat" -> [img EXCEPT !.format = entry.value]
                 [] OTHER -> img
  /\ UNCHANGED <<xexStage, xexFile>>

(* "Store security key": the first bytes of the security information are   *)
(* copied over the whole XexHeader; the two words of its format are then   *)
(* bytes of the signature.                                                 *)
StoreSecurity_Base ==
  /\ xexStage = "directory" /\ dirIndex > Len(xexFile.directory)
  /\ xexStage' = "parsed"
  /\ img' = [img EXCEPT !.format = xexFile.signature.format, !.baseAddress = xexFile.signature.address]
  /\ UNCHANGED <<xexFile, dirIndex>>
StoreSecurity ==
  /\ xexStage = "directory" /\ dirIndex > Len(xexFile.directory)
  /\ xexStage' = "parsed"
  /\ img' = [img EXCEPT !.format = xexFile.signature.format]
  /\ UNCHANGED <<xexFile, dirIndex>>

(* Decryption and the imports are stubs that succeed; unpacking keeps the  *)
(* bytes as they are, for the three types of compression that it knows.    *)
Supported == {"none", "basic", "normal"}
Unpack ==
  /\ xexStage = "parsed"
  /\ IF img.format \in Supported
     THEN xexStage' = "loaded" /\ img' = [img EXCEPT !.raw = xexFile]
     ELSE xexStage' = "refused" /\ UNCHANGED img
  /\ UNCHANGED <<xexFile, dirIndex>>

(* The loader's caller drops the image.                                    *)
DropXex ==
  /\ xexStage \in {"loaded", "refused"}
  /\ xexStage' = "idle" /\ xexFile' = NoXex /\ dirIndex' = 1 /\ img' = NoImg

XexStep == ParseDirectory \/ StoreSecurity \/ Unpack

-----------------------------------------------------------------------------
(* Properties *)

(* The last of the directory's entries of a kind counts.                   *)
Keyed(f, key) == {i \in DOMAIN f.directory : f.directory[i].key = key}
IsLastValue(f, key, v) ==
  \E i \in Keyed(f, key) : v = f.directory[i].value /\ \A j \in Keyed(f, key) : j <= i

(* An executable is unpacked by the format its header gives, the entry     *)
(* that the code calls "File format info (compression + encryption type)". *)
FormatFromHeader ==
  xexStage = "parsed" /\ Keyed(xexFile, "fileFormat") # {}
    => IsLastValue(xexFile, "fileFormat", img.format)
===============================================================================
