---------------------------- MODULE JitEngineProofs ----------------------------
(***************************************************************************)
(* Theorems about JitEngine, for every number of threads, executables and  *)
(* addresses.  The inductive invariant IInv has one part per question:     *)
(* what the arguments of a call are, when threads exist, what a pause      *)
(* still lets through, and which executable a block comes from.            *)
(***************************************************************************)
EXTENDS JitEngine, TLAPS

(* The argument of the call in progress has the kind that the call needs.  *)
ArgOK ==
  /\ call = "init" => arg \in Images
  /\ call = "spawn" => arg \in 1 .. MaxThreads

Typing == TypeOK /\ ArgOK

(* Threads exist between the end of start() and the end of stop(), and     *)
(* outside of stop() the state tells whether they do.                      *)
SessionInv ==
  /\ call \in {"init", "spawn"} => threads = {}
  /\ call = "spawn" => state = "Running"
  /\ call \in {"init", "join"} => state # "Running"
  /\ call = "idle" /\ state = "Stopped" => threads = {}
  /\ call = "idle" /\ state = "Running" => threads # {}
  /\ process # "terminated"

(* A worker can pass its test of the pause flag only while nobody asks for *)
(* a pause, so a worker about to dispatch has run nothing in this pause.   *)
PauseInv ==
  /\ \A i \in Workers : ~pauseRequested => pausedRuns[i] = 0
  /\ \A i \in Workers : at[i] = "dispatch" => pausedRuns[i] = 0
  /\ \A i \in Workers : pausedRuns[i] <= 1

(* A block in the cache comes from the executable with that entry point,   *)
(* and workers that have code to run are at the loaded one's entry point.  *)
CacheInv ==
  /\ \A a \in CodePcs : cache[a] # NoImage => cache[a] \in Images /\ Entry[cache[a]] = a
  /\ call # "init" => \/ memory \in Images /\ entry = Entry[memory]
                      \/ memory = NoImage /\ entry = "zero"
  /\ \A i \in threads : pc[i] \in CodePcs => pc[i] = entry
  /\ \A i \in threads : at[i] \in {"compile", "insert", "execute"} => pc[i] \in CodePcs
  /\ \A i \in threads : at[i] \in {"insert", "execute"} => block[i] = memory

(* No two executables share an entry point at which a block is translated. *)
DistinctEntries ==
  \A x, y \in Images : Entry[x] = Entry[y] /\ Entry[x] \in CodePcs => x = y

-----------------------------------------------------------------------------
(* Types *)

LEMMA TypingInit == Init => Typing
<1>1. 0 \in 0 .. 2
  OBVIOUS
<1> QED
  BY <1>1, PcsAssumption, ThreadsAssumption DEF Init, Typing, TypeOK, ArgOK, Workers, Pcs, PcClasses, Ats, Blocks

(* Clamp() returns a number of threads the engine has contexts for.        *)
LEMMA ClampBound == ASSUME NEW n \in Nat PROVE Clamp(n) \in 1 .. MaxThreads
BY ThreadsAssumption DEF Clamp

LEMMA TypingStep == Typing /\ [Next]_vars => Typing'
<1> SUFFICES ASSUME Typing, [Next]_vars PROVE Typing'
  OBVIOUS
<1> USE DEF Typing, TypeOK, ArgOK
<1>1. ASSUME NEW img \in Images, LoadImage(img) PROVE Typing'
  BY <1>1 DEF LoadImage, Idle, Alive, workerVars, Blocks
<1>2. CASE InitEngine
  BY <1>2, PcsAssumption DEF InitEngine, Alive, workerVars, Blocks, Pcs
<1>3. ASSUME NEW n \in Requests, StartEngine(n) PROVE Typing'
  <2>1. Clamp(n) \in 1 .. MaxThreads
    BY ClampBound, ThreadsAssumption
  <2>2. pausedRuns' \in [Workers -> 0 .. 2]
    BY <1>3 DEF StartEngine
  <2>3. arg' \in 1 .. MaxThreads /\ call' = "spawn" /\ state' = "Running" /\ pauseRequested' = FALSE
    BY <1>3, <2>1 DEF StartEngine
  <2> QED
    BY <1>3, <2>2, <2>3 DEF StartEngine, workerVars
<1>4. CASE Spawn
  <2>1. CASE threads # {}
    BY <1>4, <2>1 DEF Spawn, Alive, workerVars
  <2>2. CASE threads = {}
    <3>1. arg \in 1 .. MaxThreads /\ MaxThreads \in Nat
      BY <1>4, ThreadsAssumption DEF Spawn
    <3>2. /\ threads' \in SUBSET Workers
          /\ at' \in [Workers -> Ats]
          /\ \A i \in Workers : i \in threads' <=> at'[i] # "none"
      BY <1>4, <2>2, <3>1 DEF Spawn, Workers, Ats
    <3>3. pc' \in [Workers -> Pcs] /\ block' \in [Workers -> Blocks]
      BY <1>4, <2>2 DEF Spawn, Pcs, PcClasses, Blocks
    <3>4. pausedRuns' \in [Workers -> 0 .. 2]
      BY <1>4, <2>2 DEF Spawn
    <3> QED
      BY <1>4, <2>2, <3>2, <3>3, <3>4 DEF Spawn
  <2> QED
    BY <2>1, <2>2
<1>5. ASSUME NEW b \in BOOLEAN, SetPause(b) PROVE Typing'
  BY <1>5 DEF SetPause, Idle, Alive, workerVars
<1>6. CASE StopEngine
  BY <1>6 DEF StopEngine, Idle, Alive, workerVars
<1>7. CASE JoinWorkers
  BY <1>7 DEF JoinWorkers, Alive, Ats
<1>8. ASSUME NEW i \in Workers, Worker(i) PROVE Typing'
  <2> USE DEF Go, engineVars, Ats
  <2>1. CASE TestRunning(i)
    BY <1>8, <2>1 DEF TestRunning
  <2>2. CASE TestPause(i)
    BY <1>8, <2>2 DEF TestPause
  <2>3. CASE Park(i)
    BY <1>8, <2>3 DEF Park
  <2>4. CASE KernelCall(i)
    BY <1>8, <2>4 DEF KernelCall, Pcs, PcClasses
  <2>5. CASE OutOfRange(i)
    BY <1>8, <2>5 DEF OutOfRange
  <2>6. CASE SkipWord(i)
    BY <1>8, <2>6 DEF SkipWord, Pcs, PcClasses
  <2>7. CASE Hit(i)
    BY <1>8, <2>7 DEF Hit, CountRun
  <2>8. CASE Miss(i)
    BY <1>8, <2>8 DEF Miss, CountRun
  <2>9. CASE Compile(i)
    BY <1>8, <2>9 DEF Compile
  <2>10. CASE Insert(i)
    BY <1>8, <2>10 DEF Insert
  <2>11. CASE Execute(i)
    BY <1>8, <2>11 DEF Execute
  <2>12. CASE Trap(i)
    BY <1>8, <2>12 DEF Trap
  <2> QED
    BY <1>8, <2>1, <2>2, <2>3, <2>4, <2>5, <2>6, <2>7, <2>8, <2>9, <2>10, <2>11, <2>12 DEF Worker
<1>9. CASE UNCHANGED vars
  BY <1>9 DEF vars, engineVars, workerVars
<1> QED
  BY <1>1, <1>2, <1>3, <1>4, <1>5, <1>6, <1>7, <1>8, <1>9 DEF Next, Application

(* The variables of the engine keep their types, and threadLoop runs on    *)
(* exactly the threads that m_threads holds.                               *)
THEOREM TypeCorrect == Safety => []TypeOK
<1>1. Safety => []Typing
  BY TypingInit, TypingStep, PTL DEF Safety
<1>2. Typing => TypeOK
  BY DEF Typing
<1> QED
  BY <1>1, <1>2, PTL

-----------------------------------------------------------------------------
(* Threads and the state *)

(* What a worker leaves to the application.                                *)
LEMMA WorkerFacts ==
  ASSUME Typing, NEW i \in Workers, Worker(i)
  PROVE  /\ UNCHANGED <<threads, call, arg, pauseRequested, memory, arena, entry>>
         /\ UNCHANGED state \/ state' = "Error"
         /\ process' = process \/ process' = "trapped"
         /\ i \in threads
BY DEF Worker, TestRunning, TestPause, Park, KernelCall, OutOfRange, SkipWord, Hit, Miss,
       Compile, Insert, Execute, Trap, Go, engineVars, Typing, TypeOK

(* What the engine asks of its client in a step: if it loads an executable *)
(* then no session has threads.                                            *)
LoadsApart == call = "idle" /\ call' = "init" => threads = {}

LEMMA LoadsAreApart == ASSUME ~OverlappedLoads PROVE Typing /\ [Next]_vars => LoadsApart
<1> SUFFICES ASSUME Typing, [Next]_vars, call = "idle", call' = "init" PROVE threads = {}
  BY DEF LoadsApart
<1>1. \A img \in Images : LoadImage(img) => threads = {}
  BY DEF LoadImage
<1>2. ~InitEngine /\ ~Spawn /\ ~StopEngine /\ ~JoinWorkers
  BY DEF InitEngine, Spawn, StopEngine, JoinWorkers
<1>3. \A n \in Requests : ~StartEngine(n)
  BY DEF StartEngine
<1>4. \A b \in BOOLEAN : ~SetPause(b)
  BY DEF SetPause
<1>5. \A i \in Workers : ~Worker(i)
  BY WorkerFacts
<1> QED
  BY <1>1, <1>2, <1>3, <1>4, <1>5 DEF Next, Application, vars


LEMMA SessionInvInit == Init => SessionInv
BY DEF Init, SessionInv

LEMMA SessionInvStep == Typing /\ SessionInv /\ [Next]_vars /\ LoadsApart => SessionInv'
<1> SUFFICES ASSUME Typing, SessionInv, [Next]_vars, LoadsApart PROVE SessionInv'
  OBVIOUS
<1> USE DEF SessionInv
<1>1. ASSUME NEW img \in Images, LoadImage(img) PROVE SessionInv'
  <2>1. threads = {}
    BY <1>1 DEF LoadsApart, LoadImage, Idle
  <2> QED
    BY <1>1, <2>1 DEF LoadImage, Idle, Alive
<1>2. CASE InitEngine
  BY <1>2 DEF InitEngine, Alive
<1>3. ASSUME NEW n \in Requests, StartEngine(n) PROVE SessionInv'
  BY <1>3 DEF StartEngine, Idle, Alive
<1>4. CASE Spawn
  <2>1. 0 \in threads'
    BY <1>4, ThreadsAssumption DEF Spawn, Typing, ArgOK
  <2> QED
    BY <1>4, <2>1 DEF Spawn, Alive
<1>5. ASSUME NEW b \in BOOLEAN, SetPause(b) PROVE SessionInv'
  BY <1>5 DEF SetPause, Idle, Alive
<1>6. CASE StopEngine
  BY <1>6 DEF StopEngine, Idle, Alive
<1>7. CASE JoinWorkers
  BY <1>7 DEF JoinWorkers, Alive
<1>8. ASSUME NEW i \in Workers, Worker(i) PROVE SessionInv'
  <2>1. /\ UNCHANGED <<threads, call>>
        /\ UNCHANGED state \/ state' = "Error"
        /\ process' = process \/ process' = "trapped"
        /\ i \in threads
    BY <1>8, WorkerFacts
  <2> QED
    BY <2>1
<1>9. CASE UNCHANGED vars
  BY <1>9 DEF vars, engineVars
<1> QED
  BY <1>1, <1>2, <1>3, <1>4, <1>5, <1>6, <1>7, <1>8, <1>9 DEF Next, Application

LEMMA SessionInvariant ==
  ASSUME ~OverlappedLoads
  PROVE  Safety => [](Typing /\ SessionInv)
<1>1. Init => Typing /\ SessionInv
  BY TypingInit, SessionInvInit
<1>2. Typing /\ SessionInv /\ [Next]_vars => (Typing /\ SessionInv)'
  BY TypingStep, SessionInvStep, LoadsAreApart
<1> QED
  BY <1>1, <1>2, PTL DEF Safety

(* start() destroys no thread that was not joined, as long as nothing is   *)
(* loaded while a session has threads.                                     *)
THEOREM StartNeverTerminates ==
  ASSUME ~OverlappedLoads
  PROVE  Safety => []NeverTerminated
<1>1. SessionInv => NeverTerminated
  BY DEF SessionInv, NeverTerminated
<1> QED
  BY <1>1, SessionInvariant, PTL

(* Outside of its calls, an engine that is Stopped has joined its threads. *)
THEOREM StoppedIsJoined ==
  ASSUME ~OverlappedLoads
  PROVE  Safety => []StoppedMeansJoined
<1>1. SessionInv => StoppedMeansJoined
  BY DEF SessionInv, StoppedMeansJoined
<1> QED
  BY <1>1, SessionInvariant, PTL

-----------------------------------------------------------------------------
(* Pausing *)

LEMMA PauseInvStep == Typing /\ PauseInv /\ [Next]_vars => PauseInv'
<1> SUFFICES ASSUME Typing, PauseInv, [Next]_vars PROVE PauseInv'
  OBVIOUS
<1> USE DEF PauseInv, Typing, TypeOK
<1>1. ASSUME NEW img \in Images, LoadImage(img) PROVE PauseInv'
  BY <1>1 DEF LoadImage, workerVars
<1>2. CASE InitEngine
  BY <1>2 DEF InitEngine, workerVars
<1>3. ASSUME NEW n \in Requests, StartEngine(n) PROVE PauseInv'
  BY <1>3 DEF StartEngine, workerVars
<1>4. CASE Spawn
  BY <1>4 DEF Spawn, workerVars
<1>5. ASSUME NEW b \in BOOLEAN, SetPause(b) PROVE PauseInv'
  BY <1>5 DEF SetPause, workerVars
<1>6. CASE StopEngine
  BY <1>6 DEF StopEngine, workerVars
<1>7. CASE JoinWorkers
  BY <1>7 DEF JoinWorkers
<1>8. ASSUME NEW i \in Workers, Worker(i) PROVE PauseInv'
  <2> USE DEF Go, engineVars
  <2>1. CASE TestRunning(i)
    BY <2>1 DEF TestRunning
  <2>2. CASE TestPause(i)
    BY <2>2 DEF TestPause
  <2>3. CASE Park(i) \/ KernelCall(i) \/ OutOfRange(i) \/ SkipWord(i)
    BY <2>3 DEF Park, KernelCall, OutOfRange, SkipWord
  <2>4. CASE Hit(i) \/ Miss(i)
    BY <2>4 DEF Hit, Miss, CountRun
  <2>5. CASE Compile(i) \/ Insert(i) \/ Execute(i) \/ Trap(i)
    BY <2>5 DEF Compile, Insert, Execute, Trap
  <2> QED
    BY <1>8, <2>1, <2>2, <2>3, <2>4, <2>5 DEF Worker
<1>9. CASE UNCHANGED vars
  BY <1>9 DEF vars, engineVars, workerVars
<1> QED
  BY <1>1, <1>2, <1>3, <1>4, <1>5, <1>6, <1>7, <1>8, <1>9 DEF Next, Application

(* However the flag is tested and set, a pause lets a worker start at most *)
(* one more block.                                                         *)
THEOREM PauseIsBounded == Safety => []PauseBound
<1>1. Init => PauseInv
  BY DEF Init, PauseInv
<1>2. PauseInv => PauseBound
  BY DEF PauseInv, PauseBound
<1> QED
  BY <1>1, <1>2, TypingInit, TypingStep, PauseInvStep, PTL DEF Safety

-----------------------------------------------------------------------------
(* The block cache *)

LEMMA CacheInvInit == Init => CacheInv
BY DEF Init, CacheInv

LEMMA CacheInvStep ==
  ASSUME DistinctEntries, Oversized = {}
  PROVE  Typing /\ SessionInv /\ CacheInv /\ [Next]_vars /\ LoadsApart => CacheInv'
<1> SUFFICES ASSUME Typing, SessionInv, CacheInv, [Next]_vars, LoadsApart PROVE CacheInv'
  OBVIOUS
<1> USE DEF CacheInv
<1>1. ASSUME NEW img \in Images, LoadImage(img) PROVE CacheInv'
  <2>1. threads = {}
    BY <1>1 DEF LoadsApart, LoadImage, Idle
  <2> QED
    BY <1>1, <2>1 DEF LoadImage, Idle, workerVars
<1>2. CASE InitEngine
  BY <1>2 DEF InitEngine, Fits, workerVars, Typing, ArgOK, SessionInv
<1>3. ASSUME NEW n \in Requests, StartEngine(n) PROVE CacheInv'
  BY <1>3 DEF StartEngine, Idle, workerVars
<1>4. CASE Spawn
  <2>1. threads = {}
    BY <1>4 DEF Spawn, SessionInv
  <2>2. /\ UNCHANGED <<entry, memory, cache>>
        /\ threads' \subseteq Workers
        /\ \A i \in Workers : at'[i] \in {"loop", "none"} /\ pc'[i] \in {entry, "zero"}
    BY <1>4, <2>1, TypingStep DEF Spawn, Typing, TypeOK
  <2>3. "zero" \notin CodePcs
    BY PcsAssumption DEF PcClasses
  <2> QED
    BY <1>4, <2>2, <2>3 DEF Spawn
<1>5. ASSUME NEW b \in BOOLEAN, SetPause(b) PROVE CacheInv'
  BY <1>5 DEF SetPause, workerVars
<1>6. CASE StopEngine
  BY <1>6 DEF StopEngine, Idle, workerVars
<1>7. CASE JoinWorkers
  BY <1>7 DEF JoinWorkers
<1>8. ASSUME NEW i \in Workers, Worker(i) PROVE CacheInv'
  <2>0. /\ i \in threads /\ call # "init"
        /\ at \in [Workers -> Ats] /\ threads \subseteq Workers
        /\ pc \in [Workers -> Pcs]
        /\ block \in [Workers -> Blocks]
        /\ cache \in [CodePcs -> Blocks]
    BY <1>8 DEF Worker, TestRunning, TestPause, Park, KernelCall, OutOfRange, SkipWord,
                Hit, Miss, Compile, Insert, Execute, Trap, Go, Typing, TypeOK, SessionInv
  <2> USE <2>0 DEF Go, engineVars
  <2>1. CASE TestRunning(i) \/ TestPause(i) \/ Park(i) \/ OutOfRange(i)
    BY <2>1 DEF TestRunning, TestPause, Park, OutOfRange
  <2>2. CASE KernelCall(i) \/ SkipWord(i)
    BY <2>2, PcsAssumption DEF KernelCall, SkipWord, PcClasses
  <2>3. CASE Hit(i)
    <3>1. pc[i] = entry /\ entry \in CodePcs
      BY <2>3 DEF Hit
    <3>2. memory \in Images /\ entry = Entry[memory]
      BY <3>1, PcsAssumption DEF PcClasses
    <3>3. cache[pc[i]] \in Images /\ Entry[cache[pc[i]]] = entry
      BY <2>3, <3>1 DEF Hit
    <3>4. cache[pc[i]] = memory
      BY <3>1, <3>2, <3>3 DEF DistinctEntries
    <3> QED
      BY <2>3, <3>4 DEF Hit
  <2>4. CASE Miss(i)
    BY <2>4 DEF Miss
  <2>5. CASE Compile(i)
    BY <2>5 DEF Compile
  <2>6. CASE Insert(i)
    <3>1. pc[i] = entry /\ pc[i] \in CodePcs /\ block[i] = memory
      BY <2>6 DEF Insert
    <3>2. memory \in Images /\ entry = Entry[memory]
      BY <3>1, PcsAssumption DEF PcClasses
    <3> QED
      BY <2>6, <3>1, <3>2 DEF Insert
  <2>7. CASE Execute(i) \/ Trap(i)
    BY <2>7 DEF Execute, Trap
  <2> QED
    BY <1>8, <2>1, <2>2, <2>3, <2>4, <2>5, <2>6, <2>7 DEF Worker
<1>9. CASE UNCHANGED vars
  BY <1>9 DEF vars, engineVars, workerVars
<1> QED
  BY <1>1, <1>2, <1>3, <1>4, <1>5, <1>6, <1>7, <1>8, <1>9 DEF Next, Application

(* The cache is never emptied and never asks where a block came from; what *)
(* keeps stale translations out is only that executables are entered at    *)
(* addresses of their own, and that each of them was really copied.        *)
THEOREM BlocksAreFresh ==
  ASSUME ~OverlappedLoads, DistinctEntries, Oversized = {}
  PROVE  Safety => []FreshBlocks
<1> DEFINE IInv == Typing /\ SessionInv /\ CacheInv
<1>1. Init => IInv
  BY TypingInit, SessionInvInit, CacheInvInit
<1>2. IInv /\ [Next]_vars => IInv'
  BY TypingStep, SessionInvStep, CacheInvStep, LoadsAreApart
<1>3. IInv => FreshBlocks
  BY DEF Typing, TypeOK, CacheInv, FreshBlocks
<1> QED
  <2> HIDE DEF IInv
  <2> QED
    BY <1>1, <1>2, <1>3, PTL DEF Safety

-----------------------------------------------------------------------------
(* The abstract specification *)

LEMMA LifecycleInitially == Init => Lifecycle!LifecycleInit
BY DEF Init, Lifecycle!LifecycleInit, Exited, Hung, Alive

LEMMA LifecycleStep ==
  ASSUME Typing, Typing', SessionInv, SessionInv', [Next]_vars
  PROVE  [Lifecycle!LifecycleNext]_(Lifecycle!lifecycleVars)
<1> DEFINE live == threads \ Exited
           phase == IF call = "join" THEN "closing" ELSE IF threads = {} THEN "off" ELSE "on"
           failed == state = "Error"
           Same == live' = live /\ phase' = phase /\ failed' = failed
           Stutter == Same /\ Hung' = Hung
<1>0. Stutter => UNCHANGED Lifecycle!lifecycleVars
  BY DEF Lifecycle!lifecycleVars
<1> USE DEF Typing, TypeOK, SessionInv, Exited, Hung, Alive
<1>1. ASSUME NEW img \in Images, LoadImage(img) PROVE Stutter
  BY <1>1 DEF LoadImage, Idle, workerVars
<1>2. CASE InitEngine
  <2>1. CASE state = "Error" /\ state' = "Stopped"
    <3>1. Lifecycle!Forget
      BY <1>2, <2>1 DEF InitEngine, workerVars, Lifecycle!Forget
    <3> QED
      BY <3>1 DEF Lifecycle!LifecycleNext
  <2>2. CASE ~(state = "Error" /\ state' = "Stopped")
    <3>1. Stutter
      BY <1>2, <2>2 DEF InitEngine, workerVars
    <3> QED
      BY <3>1, <1>0
  <2> QED
    BY <2>1, <2>2
<1>3. ASSUME NEW n \in Requests, StartEngine(n) PROVE Stutter
  BY <1>3 DEF StartEngine, Idle, workerVars
<1>4. CASE Spawn
  <2>1. threads = {} /\ call = "spawn" /\ state = "Running" /\ UNCHANGED state
    BY <1>4 DEF Spawn
  <2>2. 0 \in live' /\ live' \subseteq Workers
    BY <1>4, <2>1, ThreadsAssumption DEF Spawn, ArgOK, Workers
  <2>3. phase' = "on" /\ phase = "off" /\ live = {} /\ ~failed /\ ~failed'
    BY <1>4, <2>1, <2>2 DEF Spawn
  <2>4. UNCHANGED <<Hung, state>>
    BY <1>4, <2>1, ThreadsAssumption DEF Spawn, ArgOK, Workers
  <2>5. Lifecycle!Open
    BY <2>2, <2>3, <2>4 DEF Lifecycle!Open
  <2> QED
    BY <2>5 DEF Lifecycle!LifecycleNext
<1>5. ASSUME NEW b \in BOOLEAN, SetPause(b) PROVE Stutter
  BY <1>5 DEF SetPause, workerVars
<1>6. CASE StopEngine
  <2>1. Lifecycle!Close
    BY <1>6 DEF StopEngine, Idle, workerVars, Lifecycle!Close
  <2> QED
    BY <2>1 DEF Lifecycle!LifecycleNext
<1>7. CASE JoinWorkers
  <2>1. Lifecycle!Closed
    BY <1>7 DEF JoinWorkers, Lifecycle!Closed
  <2> QED
    BY <2>1 DEF Lifecycle!LifecycleNext
<1>8. ASSUME NEW i \in Workers, Worker(i)
      PROVE  Stutter \/ Lifecycle!Leave(i) \/ Lifecycle!Fail(i) \/ Lifecycle!Hang
  <2> USE DEF Go, engineVars
  <2>1. CASE TestRunning(i)
    <3>1. CASE state = "Running"
      BY <2>1, <3>1 DEF TestRunning
    <3>2. CASE state # "Running"
      BY <2>1, <3>2 DEF TestRunning, Lifecycle!Leave
    <3> QED
      BY <3>1, <3>2
  <2>2. CASE OutOfRange(i)
    BY <2>2 DEF OutOfRange, Lifecycle!Fail
  <2>3. CASE TestPause(i) \/ Park(i) \/ KernelCall(i) \/ SkipWord(i)
    BY <2>3 DEF TestPause, Park, KernelCall, SkipWord
  <2>4. CASE Hit(i) \/ Miss(i) \/ Insert(i) \/ Execute(i)
    BY <2>4 DEF Hit, Miss, Insert, Execute
  <2>5. CASE Compile(i) \/ Trap(i)
    <3>1. Same /\ i \in live /\ Hung \subseteq Hung' /\ Hung' \subseteq Workers
      BY <2>5 DEF Compile, Trap
    <3> QED
      BY <3>1 DEF Lifecycle!Hang
  <2> HIDE DEF Stutter, Same, Go, engineVars, Typing, TypeOK, SessionInv, Exited, Hung, Alive
  <2> QED
    BY <1>8, <2>1, <2>2, <2>3, <2>4, <2>5 DEF Worker
<1>9. ASSUME UNCHANGED vars PROVE Stutter
  BY <1>9 DEF vars, engineVars, workerVars
<1>10. Stutter \/ Lifecycle!LifecycleNext => [Lifecycle!LifecycleNext]_(Lifecycle!lifecycleVars)
  BY <1>0
<1>11. ASSUME NEW i \in Workers, Lifecycle!Leave(i) \/ Lifecycle!Fail(i) \/ Lifecycle!Hang
       PROVE  Lifecycle!LifecycleNext
  BY <1>11 DEF Lifecycle!LifecycleNext
<1> HIDE DEF Stutter
<1>12. ASSUME NEW i \in Workers, Worker(i) PROVE Stutter \/ Lifecycle!LifecycleNext
  BY <1>8, <1>11, <1>12
<1> QED
  BY <1>1, <1>2, <1>3, <1>4, <1>5, <1>6, <1>7, <1>9, <1>10, <1>12 DEF Next, Application

(* Whatever the workers do, the application sees sessions that open one at *)
(* a time, after every worker of the last one is gone.                     *)
THEOREM ImplementsLifecycle ==
  ASSUME ~OverlappedLoads
  PROVE  Safety => LifecycleSafety
<1>1. Typing /\ Typing' /\ SessionInv /\ SessionInv' /\ [Next]_vars
        => [Lifecycle!LifecycleNext]_(Lifecycle!lifecycleVars)
  BY LifecycleStep
<1> QED
  BY <1>1, LifecycleInitially, SessionInvariant, PTL
     DEF Safety, LifecycleSafety, Lifecycle!LifecycleSafety
===============================================================================
