------------------------------- MODULE JitEngine -------------------------------
(***************************************************************************)
(* The JIT engine of the recompiler (class JitEngine, jit_engine.cpp): the *)
(* calls that the application's one calling thread makes (load, start,     *)
(* pause, resume, stop), the worker threads that run the guest, and the    *)
(* block cache they fill.  A call that touches shared state more than once *)
(* is split where a worker can get in between.                             *)
(*                                                                         *)
(* Data is abstracted to what control depends on: an executable is a       *)
(* member of Images, a translated block is the executable it was           *)
(* translated from, and a guest address is a member of CodePcs or one of   *)
(* the classes of addresses that threadLoop treats in a way of its own.    *)
(***************************************************************************)
EXTENDS Naturals, FiniteSets

CONSTANTS
  MaxThreads,       \* the upper clamp of start(), 6 in the code
  Requests,         \* the thread counts start() is called with
  Images,           \* executables that can be loaded
  NoImage,          \* guest memory before the first load, an empty cache slot
  Torn,             \* guest memory while an executable is being copied over it
  CodePcs,          \* addresses at which a block can be translated
  Entry,            \* Entry[img]: the entry point in img's header
  Oversized,        \* executables that do not fit guest memory at their base
  Trapping,         \* guest memory whose translated entry block does not return
  MapMayFail,       \* mmap() may refuse the code arena
  OverlappedLoads   \* an executable may be loaded while a session has threads

(* Address classes: 0 parks a worker, "kernel" is the HLE range            *)
(* 0x80xxxxxx, "tail" the last three bytes of guest memory, where no whole *)
(* instruction fits, and "beyond" is past its end.                         *)
PcClasses == {"zero", "kernel", "tail", "beyond"}
Pcs == CodePcs \cup PcClasses

Workers == 0 .. (MaxThreads - 1)

ASSUME ThreadsAssumption ==
  /\ MaxThreads \in Nat \ {0}
  /\ Requests \subseteq Nat
ASSUME ImagesAssumption ==
  /\ NoImage \notin Images
  /\ Torn \notin Images
  /\ NoImage # Torn
  /\ Oversized \subseteq Images
  /\ Trapping \subseteq Images \cup {NoImage}
ASSUME PcsAssumption ==
  /\ CodePcs \cap PcClasses = {}
  /\ Entry \in [Images -> Pcs \ {"beyond"}]
ASSUME FlagsAssumption ==
  /\ MapMayFail \in BOOLEAN
  /\ OverlappedLoads \in BOOLEAN

VARIABLES
  state,            \* m_state; the code never stores JitState::Paused
  pauseRequested,   \* m_pauseRequested
  arena,            \* m_codeArena is mapped
  entry,            \* m_entryPoint
  memory,           \* the executable in guest memory
  threads,          \* the joinable threads in m_threads
  at,               \* at[i]: where worker i is in threadLoop
  pc,               \* pc[i]: m_threadContexts[i].pc
  block,            \* block[i]: the block worker i is about to insert or run
  cache,            \* m_blockCache
  call,             \* the call the application's thread is in
  arg,              \* its argument: the executable copied, the threads to spawn
  process,          \* "alive", or how the process died
  pausedRuns        \* history: blocks worker i started during this pause

workerVars == <<at, pc, block>>
engineVars == <<state, pauseRequested, arena, entry, memory, threads, cache>>
vars == <<engineVars, workerVars, call, arg, process, pausedRuns>>

Alive == process = "alive"
Idle == Alive /\ call = "idle"
Go(i, from, to) == at[i] = from /\ at' = [at EXCEPT ![i] = to]

Init ==
  /\ state = "Stopped"
  /\ pauseRequested = FALSE
  /\ arena = FALSE
  /\ entry = "zero"
  /\ memory = NoImage
  /\ threads = {}
  /\ at = [i \in Workers |-> "none"]
  /\ pc = [i \in Workers |-> "zero"]
  /\ block = [i \in Workers |-> NoImage]
  /\ cache = [a \in CodePcs |-> NoImage]
  /\ call = "idle"
  /\ arg = NoImage
  /\ process = "alive"
  /\ pausedRuns = [i \in Workers |-> 0]

-----------------------------------------------------------------------------
(* The application's calls *)

(* x360_xex_load copies the executable over guest memory, if it fits...    *)
Fits(img) == img \notin Oversized
LoadImage(img) ==
  /\ Idle
  /\ OverlappedLoads \/ threads = {}
  /\ memory' = IF Fits(img) THEN Torn ELSE memory
  /\ call' = "init"
  /\ arg' = img
  /\ UNCHANGED <<state, pauseRequested, arena, entry, threads, cache>>
  /\ UNCHANGED <<workerVars, process, pausedRuns>>

(* ... and, fitting or not, initialises the engine: a new arena, an engine *)
(* that is Stopped whatever it was before, and the block cache as it was.  *)
InitEngine_KeepsEntry ==
  /\ Alive /\ call = "init"
  /\ memory' = IF Fits(arg) THEN arg ELSE memory
  /\ entry' = IF arena THEN entry ELSE Entry[arg]
  /\ arena' = TRUE
  /\ state' = "Stopped"
  /\ call' = "idle"
  /\ arg' = NoImage
  /\ UNCHANGED <<pauseRequested, threads, cache>>
  /\ UNCHANGED <<workerVars, process, pausedRuns>>
InitEngine ==
  /\ Alive /\ call = "init"
  /\ memory' = IF Fits(arg) THEN arg ELSE memory
  /\ entry' = Entry[arg]
  /\ \/ arena' = TRUE /\ state' = "Stopped"
     \/ MapMayFail /\ arena' = FALSE /\ UNCHANGED state
  /\ call' = "idle"
  /\ arg' = NoImage
  /\ UNCHANGED <<pauseRequested, threads, cache>>
  /\ UNCHANGED <<workerVars, process, pausedRuns>>

Clamp(n) == IF n < 1 THEN 1 ELSE IF n > MaxThreads THEN MaxThreads ELSE n

(* start(): refused unless Stopped; the state and the pause flag are       *)
(* published before the contexts are prepared and the threads spawned.     *)
StartEngine_NoStateCheck(n) ==
  /\ Idle
  /\ state' = "Running"
  /\ pauseRequested' = FALSE
  /\ call' = "spawn"
  /\ arg' = Clamp(n)
  /\ pausedRuns' = [i \in Workers |-> 0]
  /\ UNCHANGED <<arena, entry, memory, threads, cache>>
  /\ UNCHANGED <<workerVars, process>>
StartEngine_KeepsPause(n) ==
  /\ Idle
  /\ state = "Stopped"
  /\ state' = "Running"
  /\ call' = "spawn"
  /\ arg' = Clamp(n)
  /\ pausedRuns' = [i \in Workers |-> 0]
  /\ UNCHANGED <<pauseRequested, arena, entry, memory, threads, cache>>
  /\ UNCHANGED <<workerVars, process>>
StartEngine(n) ==
  /\ Idle
  /\ state = "Stopped"
  /\ state' = "Running"
  /\ pauseRequested' = FALSE
  /\ call' = "spawn"
  /\ arg' = Clamp(n)
  /\ pausedRuns' = [i \in Workers |-> 0]
  /\ UNCHANGED <<arena, entry, memory, threads, cache>>
  /\ UNCHANGED <<workerVars, process>>

(* The rest of start().  m_threads.clear() destroys whatever the vector    *)
(* still holds; destroying a std::thread that was never joined is          *)
(* std::terminate.                                                         *)
Spawn ==
  /\ Alive /\ call = "spawn"
  /\ IF threads # {}
     THEN /\ process' = "terminated"
          /\ UNCHANGED <<threads, workerVars, call, arg, pausedRuns>>
     ELSE /\ threads' = 0 .. (arg - 1)
          /\ at' = [i \in Workers |-> IF i < arg THEN "loop" ELSE "none"]
          /\ pc' = [i \in Workers |-> IF i = 0 THEN entry ELSE "zero"]
          /\ block' = [i \in Workers |-> NoImage]
          /\ pausedRuns' = [i \in Workers |-> 0]
          /\ call' = "idle"
          /\ arg' = NoImage
          /\ UNCHANGED process
  /\ UNCHANGED <<state, pauseRequested, arena, entry, memory, cache>>

(* pause() and resume() only set the flag that the workers poll.           *)
SetPause(b) ==
  /\ Idle
  /\ pauseRequested' = b
  /\ pausedRuns' = IF pauseRequested = b THEN pausedRuns ELSE [i \in Workers |-> 0]
  /\ UNCHANGED <<state, arena, entry, memory, threads, cache>>
  /\ UNCHANGED <<workerVars, call, arg, process>>

(* stop() returns at once when the engine is Stopped already...            *)
StopEngine_WithoutJoin ==
  /\ Idle
  /\ state # "Stopped"
  /\ state' = "Stopped"
  /\ UNCHANGED <<pauseRequested, arena, entry, memory, threads, cache>>
  /\ UNCHANGED <<workerVars, call, arg, process, pausedRuns>>
StopEngine ==
  /\ Idle
  /\ state # "Stopped"
  /\ state' = "Stopped"
  /\ call' = "join"
  /\ UNCHANGED <<pauseRequested, arena, entry, memory, threads, cache>>
  /\ UNCHANGED <<workerVars, arg, process, pausedRuns>>

(* ... and otherwise returns when it has joined every thread.              *)
Exited == {i \in Workers : at[i] = "exited"}
JoinWorkers_NoWait ==
  /\ Alive /\ call = "join"
  /\ threads' = {}
  /\ at' = [i \in Workers |-> IF i \in Exited THEN "none" ELSE at[i]]
  /\ call' = "idle"
  /\ UNCHANGED <<state, pauseRequested, arena, entry, memory, cache>>
  /\ UNCHANGED <<pc, block, arg, process, pausedRuns>>
JoinWorkers ==
  /\ Alive /\ call = "join"
  /\ threads \subseteq Exited
  /\ threads' = {}
  /\ at' = [i \in Workers |-> "none"]
  /\ call' = "idle"
  /\ UNCHANGED <<state, pauseRequested, arena, entry, memory, cache>>
  /\ UNCHANGED <<pc, block, arg, process, pausedRuns>>

(* Nothing ties a call to what an earlier one answered: after an init that *)
(* failed, opening a container starts the engine all the same.             *)
Application ==
  \/ \E img \in Images : LoadImage(img)
  \/ InitEngine
  \/ \E n \in Requests : StartEngine(n)
  \/ Spawn
  \/ \E b \in BOOLEAN : SetPause(b)
  \/ StopEngine
  \/ JoinWorkers

-----------------------------------------------------------------------------
(* The worker threads: threadLoop, one action per access to shared state *)

(* while (m_state.load() == JitState::Running)                             *)
TestRunning_OnlyError(i) ==
  /\ Alive
  /\ IF state # "Error" THEN Go(i, "loop", "pauseCheck") ELSE Go(i, "loop", "exited")
  /\ UNCHANGED <<engineVars, pc, block, call, arg, process, pausedRuns>>
TestRunning_UntilStopped(i) ==
  /\ Alive
  /\ IF state # "Stopped" THEN Go(i, "loop", "pauseCheck") ELSE Go(i, "loop", "exited")
  /\ UNCHANGED <<engineVars, pc, block, call, arg, process, pausedRuns>>
TestRunning(i) ==
  /\ Alive
  /\ IF state = "Running" THEN Go(i, "loop", "pauseCheck") ELSE Go(i, "loop", "exited")
  /\ UNCHANGED <<engineVars, pc, block, call, arg, process, pausedRuns>>

(* if (m_pauseRequested.load()) { sleep; continue; }                       *)
TestPause_IfParked(i) ==
  /\ Alive
  /\ IF pauseRequested /\ pc[i] = "zero"
     THEN Go(i, "pauseCheck", "loop") ELSE Go(i, "pauseCheck", "dispatch")
  /\ UNCHANGED <<engineVars, pc, block, call, arg, process, pausedRuns>>
TestPause_Exits(i) ==
  /\ Alive
  /\ IF pauseRequested
     THEN Go(i, "pauseCheck", "exited") ELSE Go(i, "pauseCheck", "dispatch")
  /\ UNCHANGED <<engineVars, pc, block, call, arg, process, pausedRuns>>
TestPause(i) ==
  /\ Alive
  /\ IF pauseRequested
     THEN Go(i, "pauseCheck", "loop") ELSE Go(i, "pauseCheck", "dispatch")
  /\ UNCHANGED <<engineVars, pc, block, call, arg, process, pausedRuns>>

(* A worker without work sleeps and polls again.                           *)
Park(i) ==
  /\ Alive
  /\ pc[i] = "zero"
  /\ Go(i, "dispatch", "loop")
  /\ UNCHANGED <<engineVars, pc, block, call, arg, process, pausedRuns>>

(* The HLE range: no handler is ever registered, and the worker goes on at *)
(* ctx.lr, which start() cleared and nothing writes.                       *)
KernelCall(i) ==
  /\ Alive
  /\ pc[i] = "kernel"
  /\ Go(i, "dispatch", "loop")
  /\ pc' = [pc EXCEPT ![i] = "zero"]
  /\ UNCHANGED <<engineVars, block, call, arg, process, pausedRuns>>

(* An address outside guest memory stops every worker through m_state.     *)
OutOfRange(i) ==
  /\ Alive
  /\ pc[i] = "beyond"
  /\ Go(i, "dispatch", "exited")
  /\ state' = "Error"
  /\ UNCHANGED <<pauseRequested, arena, entry, memory, threads, cache>>
  /\ UNCHANGED <<pc, block, call, arg, process, pausedRuns>>

(* getOrCompile() finds a block under the cache lock...                    *)
CountRun(i) ==
  pausedRuns' = [pausedRuns EXCEPT ![i] = IF pauseRequested /\ @ < 2 THEN @ + 1 ELSE @]
Hit_AnyAddress(i) ==
  /\ Alive
  /\ pc[i] \in CodePcs
  /\ Go(i, "dispatch", "execute")
  /\ \E a \in CodePcs : cache[a] # NoImage /\ block' = [block EXCEPT ![i] = cache[a]]
  /\ CountRun(i)
  /\ UNCHANGED <<engineVars, pc, call, arg, process>>
Hit(i) ==
  /\ Alive
  /\ pc[i] \in CodePcs
  /\ cache[pc[i]] # NoImage
  /\ Go(i, "dispatch", "execute")
  /\ block' = [block EXCEPT ![i] = cache[pc[i]]]
  /\ CountRun(i)
  /\ UNCHANGED <<engineVars, pc, call, arg, process>>

(* ... or goes on to compileBlock() with the lock released.                *)
Miss(i) ==
  /\ Alive
  /\ pc[i] \in CodePcs
  /\ cache[pc[i]] = NoImage
  /\ Go(i, "dispatch", "compile")
  /\ CountRun(i)
  /\ UNCHANGED <<engineVars, pc, block, call, arg, process>>

(* compileBlock() gives up where no whole instruction fits in guest memory *)
(* and the worker skips four bytes.                                        *)
SkipWord(i) ==
  /\ Alive
  /\ pc[i] = "tail"
  /\ Go(i, "dispatch", "loop")
  /\ pc' = [pc EXCEPT ![i] = "beyond"]
  /\ UNCHANGED <<engineVars, block, call, arg, process, pausedRuns>>

(* compileBlock() translates what guest memory holds now into the arena.   *)
(* With no arena the first store faults: segvHandler returns to the same   *)
(* store, for ever; or the process ends, if no init() has succeeded before *)
(* and installed the handler.                                              *)
Compile(i) ==
  /\ Alive
  /\ \/ arena /\ Go(i, "compile", "insert") /\ UNCHANGED process
     \/ ~arena /\ Go(i, "compile", "refault") /\ UNCHANGED process
     \/ ~arena /\ at[i] = "compile" /\ process' = "trapped" /\ UNCHANGED at
  /\ block' = [block EXCEPT ![i] = memory]
  /\ UNCHANGED <<engineVars, pc, call, arg, pausedRuns>>

(* m_blockCache[guestPc] = std::move(block), under the lock.               *)
Insert(i) ==
  /\ Alive
  /\ Go(i, "insert", "execute")
  /\ cache' = [cache EXCEPT ![pc[i]] = block[i]]
  /\ UNCHANGED <<state, pauseRequested, arena, entry, memory, threads>>
  /\ UNCHANGED <<pc, block, call, arg, process, pausedRuns>>

(* executeBlock(): the emitted code stores nothing to the context, so a    *)
(* block that returns leaves ctx.pc where it was.                          *)
Execute(i) ==
  /\ Alive
  /\ block[i] \notin Trapping
  /\ Go(i, "execute", "loop")
  /\ UNCHANGED <<engineVars, pc, block, call, arg, process, pausedRuns>>

(* A block of three or more instructions does not come back: the unwritten *)
(* words between its instructions are undefined instructions (SIGILL), and *)
(* a load through an unmapped host address faults again and again, because *)
(* segvHandler resolves nothing outside guest memory.                      *)
Trap(i) ==
  /\ Alive
  /\ block[i] \in Trapping \cup {Torn}
  /\ \/ Go(i, "execute", "refault") /\ UNCHANGED process
     \/ at[i] = "execute" /\ process' = "trapped" /\ UNCHANGED at
  /\ UNCHANGED <<engineVars, pc, block, call, arg, pausedRuns>>

Worker(i) ==
  \/ TestRunning(i) \/ TestPause(i)
  \/ Park(i) \/ KernelCall(i) \/ OutOfRange(i) \/ SkipWord(i)
  \/ Hit(i) \/ Miss(i) \/ Compile(i) \/ Insert(i)
  \/ Execute(i) \/ Trap(i)

-----------------------------------------------------------------------------

Next == Application \/ \E i \in Workers : Worker(i)

Safety == Init /\ [][Next]_vars

(* The operating system schedules every thread that can run; a call that   *)
(* the application has made runs on.  Which calls it makes is its choice.  *)
Fairness ==
  /\ \A i \in Workers : WF_vars(Worker(i))
  /\ WF_vars(InitEngine) /\ WF_vars(Spawn) /\ WF_vars(JoinWorkers)

Spec == Safety /\ Fairness

-----------------------------------------------------------------------------
(* Properties *)

Ats == {"none", "loop", "pauseCheck", "dispatch", "compile", "insert",
        "execute", "refault", "exited"}
Blocks == Images \cup {NoImage, Torn}

(* Every variable keeps its type, and a worker is somewhere in threadLoop  *)
(* exactly while its std::thread is in m_threads.                          *)
TypeOK ==
  /\ state \in {"Stopped", "Running", "Error"}
  /\ pauseRequested \in BOOLEAN
  /\ arena \in BOOLEAN
  /\ entry \in Pcs
  /\ memory \in Blocks
  /\ threads \in SUBSET Workers
  /\ at \in [Workers -> Ats]
  /\ pc \in [Workers -> Pcs]
  /\ block \in [Workers -> Blocks]
  /\ cache \in [CodePcs -> Blocks]
  /\ call \in {"idle", "init", "spawn", "join"}
  /\ arg \in Images \cup {NoImage} \cup 1 .. MaxThreads
  /\ process \in {"alive", "terminated", "trapped"}
  /\ pausedRuns \in [Workers -> 0 .. 2]
  /\ \A i \in Workers : i \in threads <=> at[i] # "none"

(* start() never destroys a thread that was not joined (std::terminate),   *)
(* although m_threads.clear() at jit_engine.cpp:93 does not look.          *)
NeverTerminated == process # "terminated"

(* Between two calls, an engine that says Stopped has no threads left: the *)
(* early return of stop() and the clear() in start() both rest on it.  A   *)
(* worker may store Error after stop() stored Stopped, so the converse     *)
(* does not hold.                                                          *)
StoppedMeansJoined == call = "idle" /\ state = "Stopped" => threads = {}

(* pause() does not wait, so a worker may be past its test of the flag;    *)
(* but it starts at most that one block before it sleeps.                  *)
PauseBound == \A i \in Workers : pausedRuns[i] <= 1

(* A worker only runs blocks translated from the executable that is        *)
(* loaded, although the cache is never emptied between executables.        *)
FreshBlocks == \A i \in Workers : at[i] = "execute" => block[i] = memory

(* Workers the guest's code keeps for ever: all of them, once it took the  *)
(* process down.                                                           *)
Hung == IF Alive THEN {i \in Workers : at[i] = "refault"} ELSE Workers

(* stop() returns: every worker notices that the state changed, unless the *)
(* code it runs keeps it.                                                  *)
StopReturns == call = "join" ~> (call # "join" \/ Hung # {})

(* A worker that leaves guest memory takes the others with it.             *)
ErrorEndsSession ==
  state = "Error" ~> (state # "Error" \/ threads \subseteq Exited \/ Hung # {})

(* resume() is not lost: the first worker gets to run its block, unless    *)
(* the application pauses or stops again first.                            *)
ResumedWorkerRuns ==
  (state = "Running" /\ ~pauseRequested /\ 0 \in threads /\ pc[0] \in CodePcs)
    ~> (at[0] = "execute" \/ pauseRequested \/ state # "Running" \/ Hung # {})

(* The engine keeps the promises of JitLifecycle.                          *)
Lifecycle == INSTANCE JitLifecycle WITH
  Workers <- Workers,
  phase   <- IF call = "join" THEN "closing" ELSE IF threads = {} THEN "off" ELSE "on",
  live    <- threads \ Exited,
  hung    <- Hung,
  failed  <- state = "Error"
LifecycleSafety == Lifecycle!LifecycleSafety
LifecycleSpec == Lifecycle!LifecycleSpec

===============================================================================
