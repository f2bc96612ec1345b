-------------------------- MODULE EngineSessionProofs --------------------------
(***************************************************************************)
(* Theorems about EngineSession: the application drives the engine so that *)
(* what JitEngineProofs asks of a client holds, and what the engine then   *)
(* promises is enough for the screen.  They hold for every library, every  *)
(* number of workers and executables that hang or end in an error, and for *)
(* an engine that would take overlapping loads (OverlappedLoads): that it  *)
(* gets none is proved, as long as an import ends before a game is opened. *)
(***************************************************************************)
EXTENDS EngineSession, JitEngineProofs

Steps == {"ready", "load", "start", "stopJit", "unloadGame", "import"}

UiTyping ==
  /\ screen \in {"closed", "open", "running"}
  /\ isPaused \in BOOLEAN
  /\ wanted \in Games \cup {NoGame}
  /\ step \in Steps
  /\ import \in Games \cup {NoGame}

(* Which call of the engine a callback can be in, on which screen, and     *)
(* that no import is left when a screen is open.                           *)
StepInv ==
  /\ call = "init" => step \in {"load", "import"}
  /\ call = "spawn" => step = "start"
  /\ call = "join" => step \in {"stopJit", "unloadGame"}
  /\ step = "import" => call = "init" /\ screen = "closed"
  /\ step \in {"load", "start"} => screen = "open"
  /\ step \in {"stopJit", "unloadGame"} => screen = "running"
  /\ screen # "closed" => wanted \in Games /\ import = NoGame

(* Threads exist on a running screen only, and not between its two stops;  *)
(* the second one leaves nobody who could store Error once more.           *)
QuietInv ==
  /\ screen # "running" => threads = {}
  /\ screen # "running" /\ call # "spawn" => state = "Stopped"
  /\ step = "unloadGame" => threads = {}
  /\ step = "unloadGame" /\ call = "join" => state = "Stopped"

(* The button follows the flag from the moment that start() clears it.     *)
ButtonInv ==
  /\ screen = "running" => pauseRequested = isPaused
  /\ screen = "open" => ~isPaused
  /\ call = "spawn" => ~pauseRequested

(* From a load that succeeded on, memory holds the game that was opened.   *)
GameInv ==
  /\ step = "load" /\ call = "init" => arg = ImageOf[wanted]
  /\ (step = "start" \/ screen = "running") /\ ImageOf[wanted] # NoImage
       => memory = ImageOf[wanted]

ScreenInv == UiTyping /\ StepInv /\ QuietInv /\ ButtonInv
EngineInv == Typing /\ SessionInv
UseInv == EngineInv /\ ScreenInv

-----------------------------------------------------------------------------
(* The steps of the application are steps of the engine *)

LEMMA SessionSteps ==
  ASSUME UiTyping, StepInv, [SessionNext]_sessionVars
  PROVE  [Next]_vars
<1> USE DEF Next, Application
<1>1. CASE \E g \in Games : OpenScreen(g)
  BY <1>1 DEF OpenScreen
<1>2. CASE LoadXex
  <2>1. ImageOf[wanted] \in Images
    BY <1>2, GamesAssumption DEF LoadXex, StepInv, UiTyping
  <2> QED
    BY <1>2, <2>1 DEF LoadXex
<1>3. CASE XexLoaded
  BY <1>3 DEF XexLoaded
<1>4. CASE LoadContainer \/ LoadFails
  BY <1>4 DEF LoadContainer, LoadFails
<1>5. CASE StartJit
  BY <1>5 DEF StartJit
<1>6. CASE JitStarted
  BY <1>6 DEF JitStarted
<1>7. CASE PauseEmulation \/ ResumeEmulation
  BY <1>7 DEF PauseEmulation, ResumeEmulation
<1>8. CASE CloseScreen
  BY <1>8 DEF CloseScreen
<1>9. CASE StopCalled \/ StopJoined \/ StopNotNeeded
  BY <1>9 DEF StopCalled, StopJoined, StopNotNeeded
<1>10. CASE \E g \in Games : BeginImport(g)
  BY <1>10 DEF BeginImport
<1>11. CASE ParseImport
  <2>1. ImageOf[import] \in Images
    BY <1>11, GamesAssumption DEF ParseImport, UiTyping
  <2> QED
    BY <1>11, <2>1 DEF ParseImport
<1>12. CASE ImportParsed \/ ImportWithoutLoad
  BY <1>12 DEF ImportParsed, ImportWithoutLoad
<1>13. CASE \E i \in Workers : Worker(i) /\ UNCHANGED uiVars
  BY <1>13
<1>14. CASE UNCHANGED sessionVars
  BY <1>14 DEF sessionVars
<1> HIDE DEF Next, Application
<1> QED
  BY <1>1, <1>2, <1>3, <1>4, <1>5, <1>6, <1>7, <1>8, <1>9, <1>10, <1>11, <1>12, <1>13, <1>14
     DEF SessionNext, Screen, Import

(* A load begins with a screen that has just opened, or with none.         *)
LEMMA SessionLoadsApart ==
  ASSUME UseInv, [SessionNext]_sessionVars
  PROVE  LoadsApart
<1> SUFFICES ASSUME call = "idle", call' = "init" PROVE screen # "running"
  BY DEF LoadsApart, UseInv, ScreenInv, QuietInv
<1>1. CASE LoadXex
  BY <1>1 DEF LoadXex, UseInv, ScreenInv, StepInv
<1>2. CASE ParseImport
  BY <1>2, GamesAssumption DEF ParseImport, UseInv, ScreenInv, StepInv
<1>3. ~\E i \in Workers : Worker(i)
  BY WorkerFacts DEF UseInv, EngineInv
<1>4. ~(JitStarted \/ StopJoined \/ XexLoaded \/ ImportParsed \/ StopCalled)
  BY DEF JitStarted, StopJoined, XexLoaded, ImportParsed, StopCalled, StopEngine, Spawn,
         JoinWorkers, InitEngine
<1>5. ~(StartJit \/ PauseEmulation \/ ResumeEmulation)
  BY DEF StartJit, StartEngine, PauseEmulation, ResumeEmulation, SetPause, vars
<1>6. ~UNCHANGED vars
  BY DEF vars
<1> QED
  BY <1>1, <1>2, <1>3, <1>4, <1>5, <1>6
     DEF SessionNext, Screen, Import, OpenScreen, LoadContainer, LoadFails, CloseScreen,
         StopNotNeeded, BeginImport, ImportWithoutLoad, sessionVars

-----------------------------------------------------------------------------
(* The screen *)

LEMMA ScreenInvInit == SessionInit => ScreenInv
BY GamesAssumption
   DEF SessionInit, Init, ScreenInv, UiTyping, StepInv, QuietInv, ButtonInv, Steps

LEMMA ScreenInvStep ==
  ASSUME ~ImportsOverlap, UseInv, [SessionNext]_sessionVars
  PROVE  ScreenInv'
<1> USE DEF UseInv, ScreenInv, UiTyping, StepInv, QuietInv, ButtonInv, Steps
<1>1. ASSUME NEW g \in Games, OpenScreen(g) PROVE ScreenInv'
  BY <1>1 DEF OpenScreen, Ready, Idle, vars, engineVars
<1>2. CASE LoadXex
  BY <1>2 DEF LoadXex, LoadImage, Idle, uiVars
<1>3. CASE XexLoaded
  BY <1>3 DEF XexLoaded, InitEngine
<1>4. CASE LoadContainer \/ LoadFails
  BY <1>4 DEF LoadContainer, LoadFails, Idle, vars, engineVars
<1>5. CASE StartJit
  BY <1>5 DEF StartJit, StartEngine, Idle, vars, engineVars
<1>6. CASE JitStarted
  <2>1. screen = "open" /\ call = "spawn" /\ threads = {}
    BY <1>6 DEF JitStarted, Spawn, EngineInv, SessionInv
  <2>2. pauseRequested = FALSE /\ isPaused = FALSE
    BY <2>1 DEF EngineInv, Typing, TypeOK
  <2> QED
    BY <1>6, <2>1, <2>2 DEF JitStarted, Spawn
<1>7. CASE PauseEmulation \/ ResumeEmulation
  BY <1>7 DEF PauseEmulation, ResumeEmulation, SetPause, Ready, Idle
<1>8. CASE CloseScreen
  BY <1>8 DEF CloseScreen, Ready, Idle, vars, engineVars
<1>9. CASE StopCalled
  BY <1>9 DEF StopCalled, StopEngine, Idle, uiVars
<1>10. CASE StopJoined
  BY <1>10 DEF StopJoined, JoinWorkers, AfterStop
<1>11. CASE StopNotNeeded
  BY <1>11 DEF StopNotNeeded, AfterStop, Idle, vars, engineVars, EngineInv, SessionInv
<1>12. ASSUME NEW g \in Games, BeginImport(g) PROVE ScreenInv'
  BY <1>12 DEF BeginImport, Ready, Idle, vars, engineVars
<1>13. CASE ParseImport
  BY <1>13, GamesAssumption DEF ParseImport, LoadImage, Idle
<1>14. CASE ImportParsed
  BY <1>14 DEF ImportParsed, InitEngine
<1>15. CASE ImportWithoutLoad
  BY <1>15 DEF ImportWithoutLoad, Ready, Idle, vars, engineVars
<1>16. ASSUME NEW i \in Workers, Worker(i), UNCHANGED uiVars PROVE ScreenInv'
  <2>1. /\ UNCHANGED <<threads, call, arg, pauseRequested>>
        /\ UNCHANGED state \/ state' = "Error"
        /\ i \in threads
    BY <1>16, WorkerFacts DEF EngineInv
  <2> QED
    BY <1>16, <2>1 DEF uiVars
<1>17. CASE UNCHANGED sessionVars
  BY <1>17 DEF sessionVars, uiVars, vars, engineVars
<1> HIDE DEF UseInv, ScreenInv, UiTyping, StepInv, QuietInv, ButtonInv, Steps
<1> QED
  BY <1>1, <1>2, <1>3, <1>4, <1>5, <1>6, <1>7, <1>8, <1>9, <1>10, <1>11, <1>12, <1>13, <1>14,
     <1>15, <1>16, <1>17 DEF SessionNext, Screen, Import

LEMMA UseInvStep ==
  ASSUME ~ImportsOverlap
  PROVE  UseInv /\ [SessionNext]_sessionVars => UseInv' /\ [Next]_vars /\ LoadsApart
<1> SUFFICES ASSUME UseInv, [SessionNext]_sessionVars
             PROVE  UseInv' /\ [Next]_vars /\ LoadsApart
  OBVIOUS
<1>1. [Next]_vars /\ LoadsApart
  BY SessionSteps, SessionLoadsApart DEF UseInv, ScreenInv
<1>2. EngineInv'
  BY <1>1, TypingStep, SessionInvStep DEF UseInv, EngineInv
<1>3. ScreenInv'
  BY ScreenInvStep
<1> QED
  BY <1>1, <1>2, <1>3 DEF UseInv

LEMMA UseInvariant ==
  ASSUME ~ImportsOverlap
  PROVE  SessionSafety => []UseInv
<1>1. SessionInit => UseInv
  BY ScreenInvInit, TypingInit, SessionInvInit DEF SessionInit, UseInv, EngineInv
<1>2. UseInv /\ [SessionNext]_sessionVars => UseInv'
  BY UseInvStep
<1> QED
  BY <1>1, <1>2, PTL DEF SessionSafety

(* When the screen is gone, so is everything it started.                   *)
THEOREM ClosedScreenIsStopped ==
  ASSUME ~ImportsOverlap
  PROVE  SessionSafety => []ClosedMeansStopped
<1>1. UseInv => ClosedMeansStopped
  BY DEF UseInv, ScreenInv, QuietInv, ClosedMeansStopped, Ready, Idle
<1> QED
  BY <1>1, UseInvariant, PTL

(* startJit is never refused: every way back to a screen passes a stop     *)
(* that no worker outlives.                                                *)
THEOREM StartIsNeverRefused ==
  ASSUME ~ImportsOverlap
  PROVE  SessionSafety => []StartNeverRefused
<1>1. UseInv => StartNeverRefused
  BY DEF UseInv, ScreenInv, StepInv, QuietInv, StartNeverRefused
<1> QED
  BY <1>1, UseInvariant, PTL

(* The pause button agrees with the engine.                                *)
THEOREM ButtonTellsTheTruth ==
  ASSUME ~ImportsOverlap
  PROVE  SessionSafety => []PauseInSync
<1>1. UseInv => PauseInSync
  BY DEF UseInv, ScreenInv, ButtonInv, PauseInSync
<1> QED
  BY <1>1, UseInvariant, PTL

-----------------------------------------------------------------------------
(* The game that runs *)

LEMMA GameInvStep ==
  ASSUME Oversized = {}, UseInv, GameInv, [SessionNext]_sessionVars
  PROVE  GameInv'
<1> USE DEF GameInv, UseInv, ScreenInv, StepInv
<1>1. ASSUME NEW g \in Games, OpenScreen(g) PROVE GameInv'
  BY <1>1 DEF OpenScreen, Ready, Idle, vars, engineVars
<1>2. CASE LoadXex
  BY <1>2 DEF LoadXex, LoadImage, Idle, uiVars
<1>3. CASE XexLoaded
  BY <1>3 DEF XexLoaded, InitEngine, Fits
<1>4. CASE LoadContainer \/ LoadFails
  BY <1>4 DEF LoadContainer, LoadFails, Idle, vars, engineVars
<1>5. CASE StartJit
  BY <1>5 DEF StartJit, StartEngine, Idle, vars, engineVars
<1>6. CASE JitStarted
  BY <1>6 DEF JitStarted, Spawn
<1>7. CASE PauseEmulation \/ ResumeEmulation
  BY <1>7 DEF PauseEmulation, ResumeEmulation, SetPause, Ready, Idle
<1>8. CASE CloseScreen
  BY <1>8 DEF CloseScreen, Ready, Idle, vars, engineVars
<1>9. CASE StopCalled
  BY <1>9 DEF StopCalled, StopEngine, Idle, uiVars
<1>10. CASE StopJoined
  BY <1>10 DEF StopJoined, JoinWorkers, AfterStop
<1>11. CASE StopNotNeeded
  BY <1>11 DEF StopNotNeeded, AfterStop, Idle, vars, engineVars
<1>12. ASSUME NEW g \in Games, BeginImport(g) PROVE GameInv'
  BY <1>12 DEF BeginImport, Ready, Idle, vars, engineVars
<1>13. CASE ParseImport
  BY <1>13, GamesAssumption DEF ParseImport, LoadImage, Idle
<1>14. CASE ImportParsed
  BY <1>14 DEF ImportParsed, InitEngine
<1>15. CASE ImportWithoutLoad
  BY <1>15 DEF ImportWithoutLoad, Ready, Idle, vars, engineVars
<1>16. ASSUME NEW i \in Workers, Worker(i), UNCHANGED uiVars PROVE GameInv'
  BY <1>16, WorkerFacts DEF EngineInv, uiVars
<1>17. CASE UNCHANGED sessionVars
  BY <1>17 DEF sessionVars, uiVars, vars, engineVars
<1> HIDE DEF GameInv, UseInv, ScreenInv, StepInv
<1> QED
  BY <1>1, <1>2, <1>3, <1>4, <1>5, <1>6, <1>7, <1>8, <1>9, <1>10, <1>11, <1>12, <1>13, <1>14,
     <1>15, <1>16, <1>17 DEF SessionNext, Screen, Import

(* What runs is the XEX game that was opened, whatever was loaded, imported *)
(* or played before: the engine promises that blocks are fresh, and the    *)
(* screen that memory holds its game.                                      *)
THEOREM WantedGameRuns ==
  ASSUME ~ImportsOverlap, DistinctEntries, Oversized = {}
  PROVE  SessionSafety => []RunsWantedGame
<1> DEFINE Inv == UseInv /\ CacheInv /\ GameInv
<1>1. SessionInit => Inv
  <2>1. SessionInit => GameInv
    BY DEF SessionInit, GameInv
  <2> QED
    BY <2>1, ScreenInvInit, TypingInit, SessionInvInit, CacheInvInit
       DEF SessionInit, UseInv, EngineInv
<1>2. Inv /\ [SessionNext]_sessionVars => Inv'
  <2> SUFFICES ASSUME Inv, [SessionNext]_sessionVars PROVE Inv'
    OBVIOUS
  <2>1. UseInv' /\ [Next]_vars /\ LoadsApart
    BY UseInvStep
  <2>2. CacheInv'
    BY <2>1, CacheInvStep DEF UseInv, EngineInv
  <2>3. GameInv'
    BY GameInvStep
  <2> QED
    BY <2>1, <2>2, <2>3
<1>3. Inv => RunsWantedGame
  <2> SUFFICES ASSUME Inv, screen = "running", at[0] = "execute", ImageOf[wanted] # NoImage
               PROVE  block[0] = ImageOf[wanted]
    BY DEF RunsWantedGame
  <2>1. 0 \in threads
    BY ThreadsAssumption DEF UseInv, EngineInv, Typing, TypeOK, Workers
  <2>2. block[0] = memory
    BY <2>1 DEF CacheInv
  <2> QED
    BY <2>2 DEF GameInv
<1> HIDE DEF Inv
<1> QED
  BY <1>1, <1>2, <1>3, PTL DEF SessionSafety

-----------------------------------------------------------------------------
(* The application is a client that the engine was proved for *)

LEMMA SameInit == Init <=> Engine!Init
BY DEF Init, Engine!Init, Workers, Engine!Workers

(* A step of the engine in which no load begins beside threads is one of   *)
(* the engine that never lets a load begin there.                          *)
LEMMA ApartStep == Typing /\ [Next]_vars /\ LoadsApart => [Engine!Next]_(Engine!vars)
<1> SUFFICES ASSUME Typing, [Next]_vars, LoadsApart PROVE [Engine!Next]_(Engine!vars)
  OBVIOUS
<1>1. ASSUME NEW x \in Images, LoadImage(x) PROVE Engine!LoadImage(x)
  BY <1>1 DEF LoadImage, Engine!LoadImage, LoadsApart, Idle, Alive, Engine!Idle, Engine!Alive,
              Fits, Engine!Fits, workerVars, Engine!workerVars
<1>2. InitEngine => Engine!InitEngine
  BY DEF InitEngine, Engine!InitEngine, Alive, Engine!Alive, Fits, Engine!Fits, workerVars,
         Engine!workerVars
<1>3. ASSUME NEW n \in Requests, StartEngine(n) PROVE Engine!StartEngine(n)
  BY <1>3 DEF StartEngine, Engine!StartEngine, Idle, Alive, Engine!Idle, Engine!Alive, Clamp,
              Engine!Clamp, workerVars, Engine!workerVars, Workers, Engine!Workers
<1>4. Spawn => Engine!Spawn
  BY DEF Spawn, Engine!Spawn, Alive, Engine!Alive, Workers, Engine!Workers, workerVars,
         Engine!workerVars
<1>5. ASSUME NEW b \in BOOLEAN, SetPause(b) PROVE Engine!SetPause(b)
  BY <1>5 DEF SetPause, Engine!SetPause, Idle, Alive, Engine!Idle, Engine!Alive, workerVars,
              Engine!workerVars, Workers, Engine!Workers
<1>6. StopEngine => Engine!StopEngine
  BY DEF StopEngine, Engine!StopEngine, Idle, Alive, Engine!Idle, Engine!Alive, workerVars,
         Engine!workerVars
<1>7. JoinWorkers => Engine!JoinWorkers
  BY DEF JoinWorkers, Engine!JoinWorkers, Alive, Engine!Alive, Exited, Engine!Exited, Workers,
         Engine!Workers
<1>8. ASSUME NEW i \in Workers, Worker(i) PROVE i \in Engine!Workers /\ Engine!Worker(i)
  <2> USE DEF Go, Engine!Go, Alive, Engine!Alive, engineVars, Engine!engineVars
  <2>1. TestRunning(i) => Engine!TestRunning(i)
    BY DEF TestRunning, Engine!TestRunning
  <2>2. TestPause(i) => Engine!TestPause(i)
    BY DEF TestPause, Engine!TestPause
  <2>3. Park(i) => Engine!Park(i)
    BY DEF Park, Engine!Park
  <2>4. KernelCall(i) => Engine!KernelCall(i)
    BY DEF KernelCall, Engine!KernelCall
  <2>5. OutOfRange(i) => Engine!OutOfRange(i)
    BY DEF OutOfRange, Engine!OutOfRange
  <2>6. SkipWord(i) => Engine!SkipWord(i)
    BY DEF SkipWord, Engine!SkipWord
  <2>7. Hit(i) => Engine!Hit(i)
    BY DEF Hit, Engine!Hit, CountRun, Engine!CountRun
  <2>8. Miss(i) => Engine!Miss(i)
    BY DEF Miss, Engine!Miss, CountRun, Engine!CountRun
  <2>9. Compile(i) => Engine!Compile(i)
    BY DEF Compile, Engine!Compile
  <2>10. Insert(i) => Engine!Insert(i)
    BY DEF Insert, Engine!Insert
  <2>11. Execute(i) => Engine!Execute(i)
    BY DEF Execute, Engine!Execute
  <2>12. Trap(i) => Engine!Trap(i)
    BY DEF Trap, Engine!Trap
  <2> QED
    BY <1>8, <2>1, <2>2, <2>3, <2>4, <2>5, <2>6, <2>7, <2>8, <2>9, <2>10, <2>11, <2>12
       DEF Worker, Engine!Worker, Workers, Engine!Workers
<1>9. UNCHANGED vars => UNCHANGED Engine!vars
  BY DEF vars, Engine!vars, engineVars, Engine!engineVars, workerVars, Engine!workerVars
<1> QED
  BY <1>1, <1>2, <1>3, <1>4, <1>5, <1>6, <1>7, <1>8, <1>9
     DEF Next, Application, Engine!Next, Engine!Application

(* The application implements the engine's specification without           *)
(* overlapping loads: it waits for both of its stops before it opens,      *)
(* loads or imports again.  Everything proved of such an engine holds of   *)
(* the application.                                                        *)
THEOREM EngineServesSession ==
  ASSUME ~ImportsOverlap
  PROVE  SessionSafety => EngineUsedAsIntended
<1>1. SessionInit => Engine!Init
  BY SameInit DEF SessionInit
<1>2. UseInv /\ [SessionNext]_sessionVars => [Engine!Next]_(Engine!vars)
  BY UseInvStep, ApartStep DEF UseInv, EngineInv
<1> QED
  BY <1>1, <1>2, UseInvariant, PTL DEF SessionSafety, EngineUsedAsIntended, Engine!Safety

(* The promises of the engine, for the application that uses it: no thread *)
(* is destroyed unjoined, a pause is bounded, and sessions open and close  *)
(* one at a time.                                                          *)
THEOREM EngineKeepsItsPromises ==
  ASSUME ~ImportsOverlap
  PROVE  SessionSafety => [](NeverTerminated /\ StoppedMeansJoined /\ PauseBound) /\ LifecycleSafety
<1>1. SessionInit => PauseInv /\ Lifecycle!LifecycleInit
  BY LifecycleInitially DEF SessionInit, Init, PauseInv
<1>2. UseInv /\ PauseInv /\ [SessionNext]_sessionVars => PauseInv'
  BY UseInvStep, PauseInvStep DEF UseInv, EngineInv
<1>3. UseInv /\ UseInv' /\ [SessionNext]_sessionVars
        => [Lifecycle!LifecycleNext]_(Lifecycle!lifecycleVars)
  BY UseInvStep, LifecycleStep DEF UseInv, EngineInv
<1>4. UseInv /\ PauseInv => NeverTerminated /\ StoppedMeansJoined /\ PauseBound
  BY DEF UseInv, EngineInv, SessionInv, PauseInv, NeverTerminated, StoppedMeansJoined, PauseBound
<1> QED
  BY <1>1, <1>2, <1>3, <1>4, UseInvariant, PTL
     DEF SessionSafety, LifecycleSafety, Lifecycle!LifecycleSafety
===============================================================================
