----------------------------- MODULE EngineSession -----------------------------
(***************************************************************************)
(* How the application drives the JIT engine: the emulation screen         *)
(* (emulation_screen.dart), the import flow (import_provider.dart) and the *)
(* C entry points between them and the engine (jni_bridge.cpp).            *)
(*                                                                         *)
(* All of the application runs on one Dart isolate and every native call   *)
(* is synchronous, so a callback that makes several calls runs them back   *)
(* to back: step is the call its current callback makes next.  An import   *)
(* gives the isolate up at every await; its native load comes later.       *)
(***************************************************************************)
EXTENDS JitEngine

CONSTANTS
  Games,            \* entries of the library
  NoGame,
  ImageOf,          \* ImageOf[g]: the executable a XEX entry holds, or NoImage
                    \* for an entry in a container (ISO, STFS)
  ImportsOverlap    \* the user may leave the import screen before it is done

ASSUME GamesAssumption ==
  /\ NoGame \notin Games
  /\ ImageOf \in [Games -> Images \cup {NoImage}]
  /\ ImportsOverlap \in BOOLEAN

VARIABLES
  screen,           \* the emulation screen: "closed", "open", "running"
                    \* (_isRunning)
  isPaused,         \* _isPaused
  wanted,           \* the game the screen was opened for
  step,             \* the next call of the callback in progress
  import            \* the game an import still has to parse

uiVars == <<screen, isPaused, wanted, step, import>>
sessionVars == <<vars, uiVars>>

Ready == Idle /\ step = "ready"

SessionInit ==
  /\ Init
  /\ screen = "closed"
  /\ isPaused = FALSE
  /\ wanted = NoGame
  /\ step = "ready"
  /\ import = NoGame

-----------------------------------------------------------------------------
(* The emulation screen *)

(* initState calls _startEmulation, which has no await before its end.     *)
OpenScreen(g) ==
  /\ Ready
  /\ screen = "closed"
  /\ ImportsOverlap \/ import = NoGame
  /\ screen' = "open"
  /\ isPaused' = FALSE
  /\ wanted' = g
  /\ step' = "load"
  /\ UNCHANGED <<vars, import>>

(* loadGame of a XEX file copies it and initialises the engine.            *)
LoadXex ==
  /\ step = "load"
  /\ ImageOf[wanted] # NoImage
  /\ LoadImage(ImageOf[wanted])
  /\ UNCHANGED uiVars

XexLoaded ==
  /\ step = "load"
  /\ InitEngine
  /\ step' = IF arena' THEN "start" ELSE "ready"
  /\ UNCHANGED <<screen, isPaused, wanted, import>>

(* x360_iso_load and x360_stfs_load parse the container and return 0; they *)
(* hand nothing to the engine.                                             *)
LoadContainer ==
  /\ Idle /\ step = "load"
  /\ ImageOf[wanted] = NoImage
  /\ step' = "start"
  /\ UNCHANGED <<vars, screen, isPaused, wanted, import>>

(* A file that does not parse: an error dialog, and nothing is started.    *)
LoadFails ==
  /\ Idle /\ step = "load"
  /\ step' = "ready"
  /\ UNCHANGED <<vars, screen, isPaused, wanted, import>>

(* startJit; when start() returns false, an error dialog.                  *)
StartJit ==
  /\ step = "start"
  /\ IF state = "Stopped"
     THEN (\E n \in Requests : StartEngine(n)) /\ UNCHANGED step
     ELSE Idle /\ step' = "ready" /\ UNCHANGED vars
  /\ UNCHANGED <<screen, isPaused, wanted, import>>

JitStarted ==
  /\ step = "start"
  /\ Spawn
  /\ screen' = "running"
  /\ step' = "ready"
  /\ UNCHANGED <<isPaused, wanted, import>>

(* The user, or the application going to the background and coming back.   *)
PauseEmulation ==
  /\ Ready /\ screen = "running" /\ ~isPaused
  /\ SetPause(TRUE)
  /\ isPaused' = TRUE
  /\ UNCHANGED <<screen, wanted, step, import>>

ResumeEmulation ==
  /\ Ready /\ screen = "running" /\ isPaused
  /\ SetPause(FALSE)
  /\ isPaused' = FALSE
  /\ UNCHANGED <<screen, wanted, step, import>>

(* dispose calls _stopEmulation, which does nothing unless _isRunning.     *)
CloseScreen_NoStop ==
  /\ Ready
  /\ screen # "closed"
  /\ screen' = "closed" /\ wanted' = NoGame
  /\ UNCHANGED <<vars, isPaused, step, import>>
CloseScreen ==
  /\ Ready
  /\ screen # "closed"
  /\ IF screen = "running"
     THEN step' = "stopJit" /\ UNCHANGED <<screen, wanted>>
     ELSE screen' = "closed" /\ wanted' = NoGame /\ UNCHANGED step
  /\ UNCHANGED <<vars, isPaused, import>>

(* stopJit and then unloadGame: both are JitEngine::stop().                *)
AfterStop_StopsOnce ==
  step' = "ready" /\ screen' = "closed" /\ wanted' = NoGame
AfterStop ==
  IF step = "stopJit"
  THEN step' = "unloadGame" /\ UNCHANGED <<screen, wanted>>
  ELSE step' = "ready" /\ screen' = "closed" /\ wanted' = NoGame

StopCalled ==
  /\ step \in {"stopJit", "unloadGame"}
  /\ StopEngine
  /\ UNCHANGED uiVars

StopJoined ==
  /\ step \in {"stopJit", "unloadGame"}
  /\ JoinWorkers
  /\ AfterStop
  /\ UNCHANGED <<isPaused, import>>

StopNotNeeded ==
  /\ Idle /\ step \in {"stopJit", "unloadGame"}
  /\ state = "Stopped"
  /\ AfterStop
  /\ UNCHANGED <<vars, isPaused, import>>

-----------------------------------------------------------------------------
(* The import flow *)

(* importGame starts on the import tab and awaits before it parses.        *)
BeginImport(g) ==
  /\ Ready
  /\ screen = "closed"
  /\ import = NoGame
  /\ import' = g
  /\ UNCHANGED <<vars, screen, isPaused, wanted, step>>

(* The continuation asks the native loader to parse the file, which for a  *)
(* XEX loads it: the same entry point as the emulation screen's.           *)
ParseImport ==
  /\ step = "ready"
  /\ import # NoGame
  /\ ImageOf[import] # NoImage
  /\ LoadImage(ImageOf[import])
  /\ step' = "import"
  /\ UNCHANGED <<screen, isPaused, wanted, import>>

ImportParsed ==
  /\ step = "import"
  /\ InitEngine
  /\ step' = "ready"
  /\ import' = NoGame
  /\ UNCHANGED <<screen, isPaused, wanted>>

(* A container, or a file that does not parse: the engine is not involved. *)
ImportWithoutLoad ==
  /\ Ready
  /\ import # NoGame
  /\ import' = NoGame
  /\ UNCHANGED <<vars, screen, isPaused, wanted, step>>

-----------------------------------------------------------------------------

Screen ==
  \/ \E g \in Games : OpenScreen(g)
  \/ LoadXex \/ XexLoaded \/ LoadContainer \/ LoadFails
  \/ StartJit \/ JitStarted
  \/ PauseEmulation \/ ResumeEmulation
  \/ CloseScreen \/ StopCalled \/ StopJoined \/ StopNotNeeded

Import ==
  \/ \E g \in Games : BeginImport(g)
  \/ ParseImport \/ ImportParsed \/ ImportWithoutLoad

SessionNext ==
  \/ Screen
  \/ Import
  \/ \E i \in Workers : Worker(i) /\ UNCHANGED uiVars

SessionSafety == SessionInit /\ [][SessionNext]_sessionVars

(* A callback runs to its end, and the operating system schedules every    *)
(* worker.  The user never has to do anything.                             *)
Callback ==
  \/ LoadXex \/ XexLoaded \/ LoadContainer \/ LoadFails
  \/ StartJit \/ JitStarted
  \/ StopCalled \/ StopJoined \/ StopNotNeeded
  \/ ImportParsed

SessionSpec ==
  /\ SessionSafety
  /\ \A i \in Workers : WF_sessionVars(Worker(i) /\ UNCHANGED uiVars)
  /\ WF_sessionVars(Callback)
-----------------------------------------------------------------------------
(* Properties *)

(* When the emulation screen is gone, so is everything it started: no      *)
(* worker is left and the engine is Stopped, even if a worker stored Error *)
(* after stopJit had stored Stopped; unloadGame stops a second time.       *)
ClosedMeansStopped ==
  Ready /\ screen = "closed" => state = "Stopped" /\ threads = {}

(* The user never sees "JIT engine failed to start": when the screen gets  *)
(* as far as startJit, the engine is Stopped.                              *)
StartNeverRefused == Alive /\ call = "idle" /\ step = "start" => state = "Stopped"

(* The pause button tells the truth: a running screen and the engine agree *)
(* on whether the game is paused, also when the last session was closed    *)
(* while it was paused.                                                    *)
PauseInSync == Ready /\ screen = "running" => pauseRequested = isPaused

(* What runs is the XEX game the screen was opened for, whatever was       *)
(* loaded or imported before.  (A container loads nothing: see the README.)*)
RunsWantedGame ==
  screen = "running" /\ at[0] = "execute" /\ ImageOf[wanted] # NoImage
    => block[0] = ImageOf[wanted]

(* The application is a client that JitEngine can serve: it never loads an *)
(* executable while a session has threads.                                 *)
Engine == INSTANCE JitEngine WITH OverlappedLoads <- FALSE
EngineUsedAsIntended == Engine!Safety

(* Leaving the screen does not hang the application: both stops return,    *)
(* unless the code that a worker runs keeps it, or the worker has no arena *)
(* to translate into, for a container is started after a failed init too.  *)
ScreenCloses == step = "stopJit" ~> (screen = "closed" \/ Hung # {})

===============================================================================
