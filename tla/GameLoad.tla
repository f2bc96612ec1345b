------------------------------- MODULE GameLoad -------------------------------
(***************************************************************************)
(* The entry points that load a game (jni_bridge.cpp): x360_xex_load puts  *)
(* an executable into guest memory and initialises the engine with it;     *)
(* x360_stfs_load and x360_iso_load list a container and leave it at that. *)
(* The parsers are local to a call, and calls are synchronous: one at a    *)
(* time.  Before x360_engine_init every one of them returns -1 at once.    *)
(***************************************************************************)
EXTENDS Integers, XexLoader, StfsParser, IsoParser

CONSTANTS
  MemorySize        \* GUEST_MEM_SIZE

VARIABLES
  call,             \* the entry point in progress, or "none"
  result,           \* what the last one returned
  mapped,           \* the image in guest memory, with its address
  entryPoint,       \* that the engine was initialised with
  initialisedFor    \* the file of the load that initialised the engine

loadVars == <<call, result, mapped, entryPoint, initialisedFor>>
gameVars == <<xexVars, stfsVars, isoVars, loadVars>>

GameInit ==
  /\ XexInit /\ StfsInit /\ IsoInit
  /\ call = "none" /\ result = 0
  /\ mapped = [image |-> NoXex, base |-> 0]
  /\ entryPoint = 0
  /\ initialisedFor = NoXex

Call(entry) == call = "none" /\ call' = entry /\ UNCHANGED <<result, mapped, entryPoint, initialisedFor>>
Return(code) == call' = "none" /\ result' = code
Kept == UNCHANGED <<mapped, entryPoint, initialisedFor>>

XexLoad == Call("xex") /\ (\E f \in XexFiles : ReadXex(f)) /\ UNCHANGED <<stfsVars, isoVars>>
StfsLoad == Call("stfs") /\ (\E p \in Packages : OpenPackage(p)) /\ UNCHANGED <<xexVars, isoVars>>
IsoLoad == Call("iso") /\ (\E d \in Discs : OpenDisc(d)) /\ UNCHANGED <<xexVars, stfsVars>>

Parse ==
  \/ XexStep /\ UNCHANGED <<stfsVars, isoVars, loadVars>>
  \/ StfsStep /\ UNCHANGED <<xexVars, isoVars, loadVars>>
  \/ IsoStep /\ UNCHANGED <<xexVars, stfsVars, loadVars>>

XexRefused ==
  /\ call = "xex" /\ xexStage = "refused"
  /\ DropXex /\ Return(-2) /\ Kept
  /\ UNCHANGED <<stfsVars, isoVars>>

(* An image that does not fit is not copied, and the engine is initialised *)
(* all the same; that fails only when the arena cannot be mapped.          *)
InMemory(i) == i.baseAddress + i.raw.length <= MemorySize
XexLoaded ==
  /\ call = "xex" /\ xexStage = "loaded"
  /\ mapped' = IF InMemory(img) THEN [image |-> img.raw, base |-> img.baseAddress] ELSE mapped
  /\ entryPoint' = img.entryPoint
  /\ initialisedFor' = xexFile
  /\ DropXex
  /\ Return(0) \/ Return(-3)
  /\ UNCHANGED <<stfsVars, isoVars>>

StfsReturns ==
  /\ call = "stfs" /\ stfsStatus \in {"open", "refused"}
  /\ DropPackage
  /\ Return(IF stfsStatus = "open" THEN 0 ELSE -2) /\ Kept
  /\ UNCHANGED <<xexVars, isoVars>>

IsoReturns ==
  /\ call = "iso" /\ isoStatus \in {"open", "refused"}
  /\ CloseDisc
  /\ Return(IF isoStatus = "open" THEN 0 ELSE -2) /\ Kept
  /\ UNCHANGED <<xexVars, stfsVars>>

Progress == Parse \/ XexRefused \/ XexLoaded \/ StfsReturns \/ IsoReturns
GameNext == XexLoad \/ StfsLoad \/ IsoLoad \/ Progress

(* A call that was made runs on; nothing says that another one is made.    *)
GameSpec == GameInit /\ [][GameNext]_gameVars /\ WF_gameVars(Progress)

-----------------------------------------------------------------------------
(* Properties *)

(* The engine starts in the executable that is in memory: after any series *)
(* of loads, refused ones and containers in between, memory holds the file *)
(* that the engine was last initialised for, at the address it asks for,   *)
(* and the entry point is its own.  It takes a file that fits and that has *)
(* an entry point; for another one the code does not see to it.            *)
EngineStartsInImage ==
  LET f == initialisedFor
  IN f # NoXex /\ f.loadAddress + f.length <= MemorySize /\ Keyed(f, "entryPoint") # {}
       => /\ mapped = [image |-> f, base |-> f.loadAddress]
          /\ IsLastValue(f, "entryPoint", entryPoint)
===============================================================================
