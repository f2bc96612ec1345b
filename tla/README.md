# Xbox360RecompAndroid: a verification development

Xbox360RecompAndroid runs Xbox 360 executables on ARM64 Android: a Flutter
application (Dart) keeps a library of games, imports files into it and shows the
running game; a native engine (C++, called through dart:ffi) loads executables into
a 4 GB guest address space, translates PowerPC blocks to ARM64 code, answers the
guest's kernel calls and presents its frames. This directory holds TLA+ models of
the parts of it whose correctness depends on the order in which things happen, TLC
configurations that check them on small instances, and TLAPS proofs of the
properties that matter most for instances of every size.

Every definition that models code names its lines in `PROJECT.json` ("map"). The
same file lists the runs, the theorems, the hazards found while reading the code and
the disagreements between the code and its own comments. An operator whose name has
a suffix (`StopEngine_WithoutJoin`) is a plausible mistake in the code that the
operator it is named after models; substituting it makes the property listed beside
it under "mutants" fail, which shows that the property depends on that code.

## 1. The system

| Component | State | Operations | Talks to |
|---|---|---|---|
| Emulation screen (`emulation_screen.dart`) | `_isRunning`, `_isPaused`, timers | open, pause, resume, close; reacts to the app's lifecycle | engine binding, library |
| Import flow (`import_screen.dart`, `import_provider.dart`) | import progress | hash, parse natively, copy, add to the library, with awaits between | engine binding, library |
| Library (`library_provider.dart`) | a Hive box of games | add, update, remove, playtime | the screens |
| Engine binding (`engine_bridge.dart`) | function pointers, stub mode | one synchronous native call per method | C entry points |
| C entry points (`jni_bridge.cpp`) | guest memory, one engine, kernel and GPU layer | init, shutdown, load XEX/ISO/STFS, start, stop, unload, surface, input | everything native |
| JIT engine (`jit_engine.cpp`) | `m_state`, `m_pauseRequested`, threads, contexts, code arena, block cache | init, start, pause, resume, stop; `threadLoop` on each worker | IR builder, ARM64 backend, HLE |
| IR builder, optimizer, ARM64 backend | none of their own | decode a block, emit its code | JIT engine |
| HLE kernel (`xboxkrnl.cpp`, `threading.cpp`, `memory.cpp`, `filesystem.cpp`, `input.cpp`, `audio.cpp`, `xam.cpp`) | handle table, events, mutexes, heap pointer, open files, pads, voices | one handler per ordinal | guest memory |
| Loaders (`xex_loader.cpp`, `iso_parser.cpp`, `stfs_parser.cpp`) | the file being parsed | parse headers, walk directories, extract | C entry points |
| GPU layer (`pm4_parser.cpp`, `vulkan_renderer.cpp`, `texture_manager.cpp`, `shader_recompiler.cpp`) | registers, swapchain, fence, texture cache | walk a ring buffer, draw, present, upload | guest memory, surface |

How they interact. All Dart code runs on one isolate and every native call is
synchronous, so the engine has one calling thread; the workers that `start()` spawns
run beside it and share `m_state`, `m_pauseRequested`, the block cache (a mutex), the
arena's offset (an atomic) and guest memory (nothing). Kernel objects are shared
between guest threads under a table lock and a lock per object. Only awaits let
another Dart callback in, and only the import flow has awaits before a native call.

What is hard. The lifecycle is spread over a state, a flag and a vector of threads
that are not written together; a worker can store `Error` while `stop()` joins it; an
import may load an executable while a game runs; blocks outlive the executable they
were translated from; `pause()` does not wait; the code arena is shared with no lock;
waits, signals, timeouts and mutex ownership interleave; the heap pointer is moved
before it is checked. `PROJECT.json` lists each hazard at its line, with the
properties that cover it or the reason why none does yet.

What makes each component correct:

- JIT engine: no `std::thread` is destroyed unjoined; a Stopped engine has no
  threads; `stop()` returns; a pause lets each worker start one more block at most;
  workers run the loaded executable's code and no other.
- Translation: stores stay inside the block's reservation, code is never
  overwritten, a block ends behind its branch, and it returns.
- Session: when the screen is gone so is the game; the engine is always ready when
  the screen starts it; the pause button and the engine agree; the game that was
  opened is the game that runs.
- Kernel objects: a granted mutex is locked by its owner, no wake-up is lost, an
  auto-reset event lets one wait through, waits end, status codes tell the truth.
- Guest heap: memory is handed out twice only where a guest named the address itself or
  a 64-bit sum wrapped round; refused calls and frees do not make it happen.
- File system: a file that is open is held by one handle and closed once; what was
  written and closed is still there until an `fopen` empties the file.
- Pads: a title sees whole and recent states.
- GPU: frames are presented with everything they need, and never recorded while in
  flight; a frame that fails does not stop the next one; the command walker ends and
  stays in its buffers.
- Loaders: the engine starts in the executable that is in memory; each file of a disc,
  and each entry in the blocks of a package that are read, is listed once, nothing else
  is, and the walk ends.

## 2. The modules

| Module | Models | State and actions |
|---|---|---|
| `JitLifecycle` | what the engine promises | `phase`, `live`, `hung`, `failed`; sessions open, close, fail; workers leave, unless the code they run never ends |
| `JitEngine` | `JitEngine` without translation | a variable per member; one action per call of the application, split where a worker can get in between (`StopEngine`/`JoinWorkers`, `StartEngine`/`Spawn`, `LoadImage`/`InitEngine`), and one action per access of `threadLoop` to shared state |
| `JitEngineProofs` | theorems about it | |
| `JitCompile` | `compileBlock`, `buildIrBlock`, `jitCompileBlock`, `emitIr` | the arena word by word; reserve, emit one instruction, emit RET, insert |
| `JitCompileProofs` | theorems about it | |
| `EngineSession` | emulation screen, import flow, C entry points | extends `JitEngine`; `step` is the native call that the running callback makes next |
| `EngineSessionProofs` | theorems about it | |
| `KernelObjects` | handle table, events, mutexes, semaphores, waits | one action per section under one lock, one per unlocked access |
| `GuestHeap` | `allocVirtualMemory`, `xMemAlloc`, free | one action per call, all under one lock; `Word`-bit arithmetic that wraps. `blocks` records every request that was granted, with the address it got, where that came from (the pointer, the guest, a sum that wrapped) and how often sums had wrapped before |
| `KernelObjectsProofs` | theorems about the objects | |
| `GuestFiles` | `filesystem.cpp` on top of the C library's FILEs | the host's files, the FILEs with their positions and buffers, the handle table; `createFile` step by step (open; if that fails, for whatever reason, and the disposition creates, open with `"wb"`; open again; take a handle; publish it), on a host that may refuse any `fopen`; every other call in two steps: the table, the file |
| `GuestFilesProofs` | theorems about it | |
| `Pads` | `input.cpp` | the fields of a pad, its lock, the packet counter; each field a step |
| `KernelCalls` | `dispatchKernelCall` | extends `KernelObjects`, `GuestHeap`, `GuestFiles` and `Pads`; arguments read from guest memory |
| `KernelCallsProofs` | theorems about the heap, the pads and the whole | |
| `Catalog` | what opening a container promises | a list that grows by files of the container, each once, until all are there |
| `XexLoader`, `IsoParser`, `StfsParser` | the three loaders | one action per round of a loop: directory entries, tree nodes and records of a disc (the recursion is a stack), slots of a file table |
| `GameLoad` | `x360_xex_load`, `x360_stfs_load`, `x360_iso_load` | extends the loaders; one action per call, refusal and success |
| `GameLoadProofs` | theorems about the loaders and the calls | |
| `FramePresenter` | `GpuLayer::init`, `presentFrame`, the surface callbacks, and the part of Vulkan they use | `created`/`creating` for the chain of objects, `at` for where `presentFrame` is; the fence, two semaphores, the queue, the presents that wait for theirs in any order, the place of each image; creations, acquires and submissions may fail |
| `CommandProcessor` | `processPm4RingBuffer` and its handlers | extends `FramePresenter`; `calls` is the stack of activations, one action per packet; an end-of-pipe packet is `PresentFrame`. Sizes in bytes are 32-bit products, and what lies behind guest memory and how deep the stack is are constants |
| `CommandProcessorProofs` | theorems about the presenter and the walk | |
| `MC*` | instances for TLC | constants only |

`KernelCalls` composes the services of the kernel: `service` is the one that a
session's title calls. The services share the handle counter and nothing else, so that
their product would only multiply states; a handle of one is never a handle of another,
which each of them has from its own counter. `GameLoad` composes the loaders with the
entry points that use them. `IsoParser` and `StfsParser` are shown to implement
`Catalog`, whose `contents` are what a reference definition reads off the same
directories or blocks without walking them (`DiscContents`, `PackageContents`).

`EngineSession` composes the application with `JitEngine`: each of its actions that
calls the engine is a conjunction with the engine's own action. `JitEngine` is shown
to implement `JitLifecycle` under the mapping at its end (`phase` from the call in
progress and the threads, `live` from the workers that have not left, `failed` from
`JitState::Error`), safety and liveness both. `EngineSession` is shown to be a client
that `JitEngine` was proved for: with imports that end before a game is opened, it
implements `JitEngine`'s specification with `OverlappedLoads = FALSE`, so that the
theorems about the engine hold of the application. `CommandProcessor` composes the
walk over the guest's buffers with the presenter the same way: while `presentFrame` is
under way the walk stands still, and the user interface and the device go on.

Abstractions. An executable is a model value with an entry point, a size (fits or
not) and a behaviour of its entry block (returns, traps or never ends); a translated block is, in
`JitEngine`, the executable it came from, and, in `JitCompile`, the words of its code
(`none`, `code`, `ret`); a guest address is a code address or one of the classes that
`threadLoop` treats alike; a handle is its number; a timeout is zero, long or
forever; a 30-second deadline may pass at any moment. Left out everywhere: logging,
counters that only metrics read, user interface layout.

Facts about the code that the models contain and a reader may not expect:

- `ctx.pc` never advances. The backend emits no store to the context, so a block
  that returns is run again, and the address changes only in `Spawn`, `KernelCall`
  (to 0, since `lr` is never set) and `SkipWord`.
- Only the first worker gets an address; the others park at 0. `JitCompile` lets
  every worker have one (see its header), `JitEngine` does not.
- A block of three or more instructions does not return, because of the words the
  backend leaves unwritten (finding 4); `Trapping` names such executables.
- Opening a disc image or an STFS package parses it, loads nothing into the engine
  and starts it all the same, on whatever executable was loaded last.
  `RunsWantedGame` therefore speaks of XEX games only. A container that is opened after
  an `init()` that could not map its arena starts an engine that has none: its worker
  faults on its first store over and over, and `stop()` waits for it.
- `NtAllocateVirtualMemory` reads two 32-bit arguments as 64-bit big-endian values
  (`GuestRead64`), so that a size that is not zero is at least 2^32: the call fails, and
  the heap pointer has moved by it for good. A few such calls, or one with a size of
  nearly 2^64, take the pointer round to memory that was handed out before, and
  a request whose size is rounded up to 0, or whose sum wraps, is granted although the
  heap has no room for it. `OverlapsExplained` says that this is the only way, besides
  addresses that guests give, in which memory is handed out twice.
- Paths have their back slashes replaced before they are compared with the mapped
  drives, which end in one: no mapping ever applies, and every path, drive included,
  is one below the game's directory.
- `createFile` creates a file with `"wb"` when its first `fopen` failed, whatever the
  reason was: what another guest created, wrote and closed in between, or what was there
  all the time on a host that refused for a moment, is emptied, also for a guest that asked
  to append. `KeptDataStays` therefore speaks of data written since an `fopen` last
  emptied the file, and not since a guest last asked for an empty one.
- The packet number is one counter for all pads, incremented under the lock of one: with
  two pads polled at once an increment is lost and a number comes twice, on one pad for
  two states. The model has the counter and its races; no property speaks of the numbers.
  The application only ever sets pad 0.
- Spin locks and critical sections are calls that do nothing.
- `StoreSecurity` overwrites the header that `ParseDirectory` filled (finding 6). An
  image that does not fit guest memory is not copied, and one without an entry point
  leaves the field uninitialised; the engine is initialised all the same.
  `EngineStartsInImage` therefore speaks of files that fit and name an entry point.
- Sectors become byte offsets of 32 bits (`Wrapped`), which is right for images of less
  than 4 GB; an XDVDFS link of 0 and a directory that lists an ancestor would be followed
  for ever. `DiscsAssumption` says what the walks rely on: the entries of an XDVDFS
  directory form a binary tree, no name is twice in a directory, the size given for a
  directory covers its entries, and none is its own ancestor.
- A package's directory is taken to be its first four blocks behind `STFS_HEADER_SIZE`.
  The volume descriptor is not read: the data behind a short table is listed as entries,
  and what lies beyond the fourth block is not. `StfsListsPackage` is about
  the blocks that are read, whatever they hold; nothing is assumed of them. The directory
  of an entry is ignored.
- The Dart binding looks up `x360_jit_pause` and ten more functions that the
  native library does not export under these names, so that with this library
  the application stays in its stub mode. `EngineSession` models what the calls do once
  they are bound.
- A semaphore and a thread count as signaled in every wait, and no count is kept
  that anything reads.
- Nothing calls `dispatchKernelCall`, `registerHle`, `initMemorySubsystem`,
  `optimizeBlock`, `processPm4RingBuffer` or the Kotlin surface callbacks yet. The
  kernel is modelled as what its functions do when guest threads call them, as
  `dispatchKernelCall` would, and the command processor as what it does for one guest
  thread that submits buffers.
- The opcode of a type-3 packet is read from bits 8 to 15 of its header and its length
  from bits 0 to 13, so that the opcode counts in the length (`OpWeight`, 256 in the
  code and 1 in the instance; the theorems hold for every value).
- Each attempt of `init()` starts from the first object, and what earlier attempts
  created stays.
- The result of `vkQueueSubmit` is ignored: after one that fails, nothing signals the
  fence that was reset for it, and the next frame waits for ever.
- One `m_renderDoneSem` serves all images, and no fence covers a present: a frame can
  signal it before the present of the last one has taken its signal, and one of the two
  signals is lost (`clashed`).
- An indirect buffer is tested with a product of 32 bits: one of 2^30 words or more
  passes, and the walk may leave guest memory; one that contains itself nests until the
  stack is used up. Before the first `init()` of the presenter there is no guest memory,
  and indirect buffers are ignored.

## 3. The runs

| Run | Question | Instance |
|---|---|---|
| `engine` | Is the lifecycle sound with every kind of executable and failure, does `stop()` return, do errors end the session and resumes take effect? | 3 workers, thread counts 0, 2 and 7 (below, inside and above the clamp), entry points in code, in the HLE range and cut off by the end of memory, an executable that is too large, blocks that never return, an arena that may be refused |
| `engine_stale` | Does the cache serve only the loaded executable's blocks? (violation) | two executables with one entry point |
| `session` | Does the application use the engine as intended, and does the screen close? | two XEX games, one of which ends in `Error`, and a disc image; an arena that may be refused; imports that end before a game is opened |
| `session_overlap` | And when an import is still running? (violation) | one worker, imports that overlap a game |
| `jit_compile` | Do blocks keep apart in the arena? | 2 workers, 8 instructions of every size, an arena of 44 words that is exhausted in the middle of a session, blocks that end at a branch, a return, the limit of 4 and the end of memory |
| `jit_returns` | Does a block return? (violation) | one worker |
| `kernel` | Are objects right under interleaved waits, signals, timeouts and closes; is every overlap of memory explained; are files held and kept; are pads seen whole? | objects: 3 guests, one object of every kind, a wait for a list that names it twice, guests that wait for a mutex they own. Memory: a heap of 15 bytes in a word of 4096, pages of 4, three calls, sizes from none to more than the heap and words of a guest region read in pairs (`HalfWord` 64, words 0, 1 and 63, so that sums wrap and one size is rounded up to 0), alignments that are and are not powers of two, addresses below and beyond the heap with sizes that reach into it. Files: 2 guests, one path with either slash, opened by both at once, 2 FILEs, files of one byte, present at first or not, a host that refuses. Pads: 2 guests, 2 pads and the user interface, 3 states of 2 fields, 3 polls |
| `kernel_status` | Do status codes tell the truth? (violation) | one guest, two objects |
| `loaders` | Does the engine start in the executable that is in memory, are containers listed completely and once? | series of calls on 7 executables, 8 packages and 5 discs: refused ones, an executable at the end of memory, without an entry point, with two; tables of no, one and two blocks and of more than are read, full, with deleted entries, with data behind them, behind other blocks; trees with nested, empty, too large and cut-off directories; records with padding and two levels |
| `xex_format` | Is an executable unpacked by the format that its header gives? (violation) | the same |
| `gpu_frames` | Does the walk stay in its buffers, and does everything return unless an acquire or a submission failed, the render-done semaphore clashed or the walk is lost? | 2 images; six buffers that share 39 words with packets of every kind, one cut off in the middle of a packet, one with lengths and offsets that leave the 5 registers, two that refer to other buffers (one of which does not lie in memory), one that contains itself (on a stack of 3 activations), one whose size wraps; every creation, acquisition and submission may fail |
| `gpu_eop` | Is presenting at every event safe, as the code says? (violation) | the same |

Why these bounds are enough. Workers differ in two ways, the one with an address and
the ones without, so that two show every interleaving with the application and a
third that nothing depends on two. One object is enough for each property of objects,
since no property relates two; three guests are the least for one that signals, one
that is woken and one that gets in between, and the list that names the object twice
has the effect of two waits in a row. Two guests are enough for files and pads: the
hazards there are between one that opens or sets and one that closes or polls; a file of
one byte tells kept data from lost data, and the theorem covers every size. Three allocations
are one before a sum wraps, one whose sum wraps, and one that is handed the same memory;
the second pad is there for the lock and the counter that are not those of the first. Every loader
run starts a call over and over, so that what one call leaves behind meets each other
kind of file. The arena is small enough that the reservation
that exhausts it comes while another worker still stores. Two images are the least a swapchain has here, and one frame is in flight at a time
whatever their number. Counters that only history
needs stop at the first value that breaks the property (2).

Deadlock is looked for except where a run may stop legally: a process that has been
terminated or has trapped (`engine`, `session`), all blocks translated (`jit_compile`),
guests that all wait for ever for an event or a mutex, or have used up their
handles, FILEs, allocations and polls (`kernel`), a walk that has lost
its swapchain while the user interface waits for the device (`gpu_frames`, `gpu_eop`).

Fairness. `JitEngine!Spec` and `SessionSpec` assume weak fairness of each worker (the
operating system schedules every runnable thread) and of the steps that finish a call
already made; nothing is assumed of the user or of which calls the application makes.
A worker's step is never disabled by another thread for long: its only waits are the
cache lock, held for a lookup, and sleeps of a few milliseconds. `KernelSpec`
assumes the same of a guest inside a call, and strong fairness of a timeout: a wait
with a deadline cannot be woken so often that its deadline never passes, because
`wait_for` and the `try_lock` loop compare with the clock. Mutex waits without a
deadline are not assumed to succeed. The liveness properties of the kernel are checked
for one guest; guests are interchangeable in the specification.

`StopReturns`, `ScreenCloses`, `ErrorEndsSession` and `ResumedWorkerRuns` end in "or a
worker hangs": executables whose block never returns are part of the `engine` run, a start
without an arena is part of both, and `JitLifecycle` says of a
worker that hangs that it need not leave. `GameSpec` assumes that a call that was made
runs on, and nothing about which calls are made.

`GpuSpec` assumes weak fairness of the thread that walks as long as the walk stays in
memory and on its stack, of the device's queue and presentation engine, and of the
return of a wait for an idle device; nothing is assumed of the guest, the user or how an
acquire or a submission ends. `WalksEnd` therefore ends in "or an acquire or a submission
failed, the semaphore clashed, or the walk is lost", and `SurfaceCallReturns` in "or an
acquire or a submission failed"; `gpu_eop` shows what a failed acquire does.

## 4. Findings

1. `engine_stale`: the block cache is keyed by guest address and survives `init()`,
   so a second executable with the same entry point runs the first one's code.
   XEX files commonly share their base address.
2. `session_overlap`: an import's native load goes through the same entry point as
   the emulation screen's; one that is still running when a game is opened resets
   `m_state` under the game's threads, and `stop()` then returns without joining them.
3. `kernel_status`: a wait for any of several objects answers 0 (`STATUS_WAIT_0`)
   when none was signaled, and a wait for all when some timed out.
4. `jit_returns`: the backend adds the size of an instruction's code to a cursor that
   has moved by it already, so that each instruction is followed by as many unwritten
   words, and blocks of one or two instructions consist of a RET alone, because
   the room check asks for 64 bytes of the 32 reserved for each.
5. `gpu_eop`: `presentFrame` resets its fence before it acquires an image. After an
   acquire that fails, the next frame waits for a fence that nothing will signal.
   `pm4_parser.cpp:106` calls presenting at every event safe.
6. `xex_format`: the copy that is to keep the security information for decryption goes
   over all of `XexHeader`, so that the compression type is four bytes of the RSA
   signature, and not what the directory gave. Almost every executable is then refused as
   "Unsupported compression type".

## 5. The proofs

`JitEngineProofs`, for every number of workers, set of executables, entry points and
flags:

- `TypeCorrect`: `TypeOK`, from `Typing` (types, and the kind of argument that the
  call in progress has).
- `StartNeverTerminates` and `StoppedIsJoined`: from `SessionInv`, which says in which
  calls threads exist and what the state says about them. `StoppedMeansJoined` alone
  is not inductive: while `start()` is between its two halves the state is Running
  without threads, and while `stop()` joins it is Stopped with threads. They need the
  assumption `~OverlappedLoads`, which `session_overlap` shows to be necessary and
  `EngineUsedAsIntended` shows to hold of the application without overlapping imports.
- `PauseIsBounded`: from `PauseInv`: a worker about to dispatch saw the flag clear, so
  it has started nothing in this pause.
- `BlocksAreFresh`: from `CacheInv`: a cached block comes from the executable whose
  entry point is its address. Needs distinct entry points (`DistinctEntries`, which
  `engine_stale` shows to be necessary), executables that fit and `~OverlappedLoads`.
- `ImplementsLifecycle`: initial states map to initial states of `JitLifecycle`, and
  every step to a step of it or a stutter. Needs the invariants above.

`EngineSessionProofs`, for every library of games, number of workers and kind of
executable, under the assumption that imports end before a game is opened
(`~ImportsOverlap`, which `session_overlap` shows to be necessary):

- `EngineServesSession`: the application implements the engine's specification without
  overlapping loads. The engine's invariants and the screen's (`ScreenInv`) are proved
  together, because neither stands alone: a load is apart from a session only because the
  screen has stopped the engine twice, and the second stop finds no worker only because
  the engine joins them. `ScreenInv` says in which call of the engine each callback can be,
  that threads exist on a running screen only, and that between its two stops nobody is
  left who could store `Error`.
- `ClosedScreenIsStopped`, `StartIsNeverRefused`, `ButtonTellsTheTruth`: parts of it.
- `WantedGameRuns`: from `GameInv` (from a load that succeeded on, memory holds the game
  that was opened) and the engine's `CacheInv`; like `BlocksAreFresh`, for distinct entry
  points and executables that fit.
- `EngineKeepsItsPromises`: the engine's theorems hold of the application.

`JitCompileProofs`, for every guest program, arena, block limit and set of workers:

- `StoresStayInside`: from `Places`: a reservation in use lies within the used part of
  the arena, no two overlap, and while a worker emits there is room for a RET behind
  its cursor. That holds although the cursor moves twice as far as the code is long,
  because an instruction becomes five words at most (`SizeBound`) and the room check
  leaves sixteen.
- `CodeIsNeverOverwritten`: from `Blank`: what lies beyond a cursor in a reservation,
  and beyond the offset in the arena, has never been stored to.
- `CachedBlocksAreFinished`: from `ReturnInv`: a worker about to insert a block has stored
  a RET within the reservation that the block's length asks for, and a RET that is stored
  stays.

`KernelObjectsProofs`, for every number of guests and handles, lists of every length and
guests that may or may not wait for their own mutexes:

- `MutexExcludes`, `FreeMutexIsClear`, `WakeupsAreNotLost`, `AutoResetIsExclusive`: from
  one invariant, `IInv`, which adds to the types what each place in a call means: a
  guest that is about to write the fields of a mutex holds it, one that is about to
  unlock it has cleared them and no longer owns it, and an event that satisfied a wait
  since it was set is no longer signaled if it resets itself. None of the four is
  inductive alone: `recursionCount` is written without a lock, and only the place of the
  holder says what it is.

`GuestFilesProofs`, for every number of guests, paths, files and bytes:

- `FilesAreHeldOnce`: from `HeldInv`: handles that were taken are distinct and not
  published yet, so that publishing overwrites nothing, and a FILE is in one handle or one
  call exactly while it is open.
- `KeptDataIsKept`: from `HostInv` and `RequestInv`, with nothing assumed of how opens
  overlap or which of them fail: flushing a FILE takes its file as far as anything that was
  written through it since the file was last emptied.

`KernelCallsProofs`, for every heap and rounding, and every number of guests, pads, fields
and states:

- `OverlapsAreExplained`: from `HeapInv`: of what came from the pointer, and was granted
  since a sum last wrapped, everything lies below the pointer (`BehindPointer`). The
  rounding operators are parameters, of which only the types are assumed
  (`RoundingAssumption`, which TLC evaluates for the code's formulas), and sizes and
  addresses are any of the word.
- `PadsAreSeenWhole`: from `PadInv`: the thread that holds a pad's lock and how far it has
  come say which fields of the pad, and of a guest's copy, are new.
- `KernelKeepsItsPromises`: what is proved of the objects, the heap, the files and the pads
  holds of the kernel that guests call; for the heap this takes that the arguments guests
  read (`Arguments`) are among the sizes and addresses it was proved for
  (`ArgumentsAssumption`).

`CommandProcessorProofs`, for every number of images, contents of memory, set of buffers and
sequence of callbacks, calls and failures:

- `PresenterIsSafe`: `PresentsWithEverything`, `RecordingNotInFlight` and
  `AcquireSemaphoreFree`, whichever acquires and submissions fail and whenever a present
  takes its signal. None is inductive: they follow from an invariant that relates the
  fence to the queue (a signaled fence means that no drawing is queued, a reset one
  that at most one is), the acquire semaphore to the fence (while it is pending or
  signaled the fence is reset, which keeps the next frame from acquiring), and
  `created` to the progress of `init()`.
- `WalkIsTyped` and `WalkIsInside`: `WalkTypeOK` and `WalkStaysInside`, from an invariant
  on every activation on the stack: its index is in its buffer, and its buffer in memory
  unless its size in bytes needs more than 32 bits.
- `FramesNeedEverything`, `RecordingIsSafe` and `AcquireSemaphoreIsFree`: the properties of
  the presenter hold while buffers are walked, because every step of the walk is a step of
  the presenter or a stutter.

`GameLoadProofs`, for every set of executables and packages, the images that the
assumptions of the loaders allow, and every series of loads:

- `EngineStartsInItsImage`: from `LoadInv`: how far the loop over an executable's directory
  has come says which of its entries the entry point comes from (`EntryBefore`), and from
  the unpacking on the image is that of the file being loaded (`XexInv`).
- `PackagesAreListed`: `StfsParser` implements `Catalog`, its fairness aside, whatever the
  blocks hold. `ReadingAt`
  relates the block and the slot to the list: it holds exactly the entries in use before
  them, each once, and no end of the table lies in between.
- `DiscsAreListed`: `IsoParser` implements `Catalog`, its fairness aside. `WalkingAt`
  relates the stack of directories to the list, file by file: a trail is the series of
  entries that leads to a file, and determines it (`OneFile`). Every directory on the stack
  is the one at its depth of a trail, and what is left to visit in it is what it takes to
  reach its unlisted entries (`Framed`); what is listed lies in directories that are listed
  (`Rooted`); and a directory that is listed is on the stack or done with (`Finished`).
  None of these is inductive without the others. At the end everything is listed, because
  the shortest trail that is not would lie in a directory that is (`WalkEnds`); no
  directory is entered from itself, because its trail could be continued without end
  (`NoLoop`). Both are arguments by a least counterexample (`Smallest`), and the tree of
  an XDVDFS directory is given by closure under its links, so that no induction over data
  is needed.

Only model-checked: the liveness properties and the fair parts of `LifecycleSpec` and of
the two refinements of `Catalog` (`IsoListsDisc`, `StfsListsPackage`: that the walks end),
because liveness under fairness and ENABLED are out of the prover's reach. Every invariant that a passing run checks has a
theorem. The properties that the findings refute have no proofs, of course, except under
the assumptions above.

## 6. Not modelled

- Library, settings, themes, the controls editor, widgets: each change of the library
  reads, changes and writes its box without an await in between, so that there is nothing
  to interleave; the rest stores and shows values.
- Engine binding: decided once, at start, by which symbols exist (see section 2).
- Audio and xam: the mixer has no caller; xam writes constants.
- Texture manager, shader translation, EDRAM: no caller; data.
- The optimizer, the PPC decoder, the block cache helpers, the memory guard, LZX and AES:
  no caller; the last two are data transformations. Which ARM64 word an instruction
  becomes is data too.
- `bridge/engine.cpp` has no caller. It is the only user of the extracting half of the
  loaders (`findFile`, `readFile`, `extractFile`, `extractAll`), which is therefore left
  out. (Its `loadIsoGame` keeps a pointer into a list that is a temporary, and
  `extractAll` creates a directory and extracts nothing.)
- Metrics, the compatibility database and the build workflows: counters, data, scripts.
- A guest that closes a handle or a mutex which another guest is using, or releases a
  mutex of another's: nothing in the code protects it, and what follows is undefined. These
  are listed under "hazards".
- The results of waiting and presenting, which the presenter ignores, are taken to be
  success. The sum of a packet's index and length wraps only in the last words of a buffer
  of 2^32, and the masks with which the walk reads opcodes and offsets select a part of a
  word that may have any value: both are left out.
- An executable's directory that the end of the file cuts off, and the execution
  information it points to, which only the title that is shown comes from.
- The bytes behind a damaged record of a container: the parsers read what the file
  has there; the instances are files that are cut off, refused or complete.
