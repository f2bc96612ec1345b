------------------------ MODULE CommandProcessorProofs ------------------------
(***************************************************************************)
(* The walk over command buffers stays inside the buffer and inside the    *)
(* register file for every memory, every ring and every size of a packet;  *)
(* and it uses the presenter only through presentFrame, so that what is    *)
(* proved of the presenter holds under it.                                 *)
(***************************************************************************)
EXTENDS CommandProcessor, FiniteSetTheorems, TLAPS

-----------------------------------------------------------------------------
(* The presenter never reuses what the device still works on, for every    *)
(* number of images and every way in which creating objects, acquiring     *)
(* images and submitting may fail.  The invariant: at most one submission  *)
(* is in the queue, and only while the fence is not signaled; and as long  *)
(* as m_imageAvailSem is in use the fence is not signaled either.          *)

(* init() fills the members in order, before anything uses them.           *)
CreationInv ==
  /\ creating > 0 => \A k \in 1 .. creating - 1 : Objects[k] \in created
  /\ initialized => \A k \in 1 .. Len(Objects) : Objects[k] \in created
  /\ at # "none" => initialized
  /\ ~initialized => queue = <<>> /\ imageAvail = "free"

FenceInv ==
  /\ fence => queue = <<>>
  /\ at \in {"acquire", "record", "submit"} => queue = <<>> /\ ~fence
  /\ Len(queue) <= 1
  /\ imageAvail # "free" => ~fence /\ at # "acquire"

PresenterInv == PresenterTypeOK /\ CreationInv /\ FenceInv

-----------------------------------------------------------------------------

LEMMA ObjectsType == Len(Objects) \in Nat
<1>1. Len(Objects) = 10
  BY DEF Objects, DeviceObjects, SwapchainObjects, FrameObjects
<1> QED
  BY <1>1

LEMMA EmptyQueue ==
  ASSUME NEW S, NEW t \in Seq(S), Len(t) = 0
  PROVE  t = <<>>
OBVIOUS

(* What is left when the only submission is finished.                      *)
LEMMA OneFinished ==
  ASSUME NEW S, NEW q \in Seq(S), q # <<>>, Len(q) <= 1
  PROVE  Len(q) = 1 /\ Tail(q) = <<>>
<1>1. Len(q) \in Nat /\ Len(q) # 0
  OBVIOUS
<1>2. Tail(q) \in Seq(S) /\ Len(Tail(q)) = Len(q) - 1
  OBVIOUS
<1>3. Len(q) = 1
  BY <1>1
<1>4. Len(Tail(q)) = 0
  BY <1>2, <1>3
<1> QED
  BY <1>2, <1>3, <1>4, EmptyQueue

LEMMA InitInv == PresenterInit => PresenterInv
<1> SUFFICES ASSUME PresenterInit PROVE PresenterInv
  OBVIOUS
<1> USE NumImagesAssumption, ObjectsType DEF PresenterInit
<1>1. PresenterTypeOK
  <2>1. 0 \in Images
    BY DEF Images
  <2>2. queue \in Seq(Images) /\ Len(queue) = 0
    OBVIOUS
  <2>3. images \in [Images -> {"free", "held", "presented", "shown"}]
    OBVIOUS
  <2>4. creating \in 0 .. Len(Objects) + 1 /\ drain \in 0 .. Len(queue)
    BY <2>2
  <2>5. created \subseteq {Objects[k] : k \in 1 .. Len(Objects)}
    OBVIOUS
  <2> QED
    BY <2>1, <2>2, <2>3, <2>4, <2>5 DEF PresenterTypeOK
<1>2. CreationInv /\ FenceInv
  BY DEF CreationInv, FenceInv
<1> QED
  BY <1>1, <1>2 DEF PresenterInv

(* A step of the user interface's thread.                                  *)
LEMMA UiStep == PresenterInv /\ Ui => PresenterInv'
<1> SUFFICES ASSUME PresenterInv, Ui PROVE PresenterInv'
  OBVIOUS
<1> USE ObjectsType DEF PresenterInv, uiVars, frameVars, deviceVars
<1>1. CASE SurfaceCreated
  BY <1>1 DEF SurfaceCreated, UiIdle, PresenterTypeOK, CreationInv, FenceInv
<1>2. CASE CreateObject
  <2>1. ~initialized /\ queue = <<>> /\ at = "none" /\ imageAvail = "free"
        /\ queue' = queue /\ at' = at /\ imageAvail' = imageAvail
    BY <1>2 DEF CreateObject, PresenterTypeOK, CreationInv
  <2>2. fence' \in BOOLEAN
    BY <1>2 DEF CreateObject, CreateSyncObjects, PresenterTypeOK
  <2>3. PresenterTypeOK'
    BY <1>2, <2>1, <2>2 DEF CreateObject, PresenterTypeOK
  <2>4. CreationInv'
    BY <1>2, <2>1 DEF CreateObject, PresenterTypeOK, CreationInv
  <2>5. FenceInv'
    BY <1>2, <2>1 DEF CreateObject, FenceInv
  <2> QED
    BY <2>3, <2>4, <2>5
<1>3. CASE CreateFails
  BY <1>3 DEF CreateFails, PresenterTypeOK, CreationInv, FenceInv
<1>4. CASE Initialized
  BY <1>4 DEF Initialized, PresenterTypeOK, CreationInv, FenceInv
<1>5. CASE ClearSurface
  BY <1>5 DEF ClearSurface, UiIdle, PresenterTypeOK, CreationInv, FenceInv
<1>6. CASE SurfaceCleared
  BY <1>6 DEF SurfaceCleared, PresenterTypeOK, CreationInv, FenceInv
<1> QED
  BY <1>1, <1>2, <1>3, <1>4, <1>5, <1>6 DEF Ui

(* A step of presentFrame.                                                 *)
LEMMA FrameStep == PresenterInv /\ (PresentFrame \/ Frame) => PresenterInv'
<1> SUFFICES ASSUME PresenterInv, PresentFrame \/ Frame PROVE PresenterInv'
  OBVIOUS
<1> USE DEF PresenterInv, uiVars, frameVars, deviceVars
<1>1. CASE PresentFrame
  BY <1>1 DEF PresentFrame, PresenterTypeOK, CreationInv, FenceInv
<1>2. CASE WaitForFence
  BY <1>2 DEF WaitForFence, PresenterTypeOK, CreationInv, FenceInv
<1>3. CASE AcquireImage
  BY <1>3 DEF AcquireImage, AcquireSemaphore, PresenterTypeOK, CreationInv, FenceInv
<1>4. CASE OutOfDate
  BY <1>4 DEF OutOfDate, PresenterTypeOK, CreationInv, FenceInv
<1>5. CASE AcquireFails
  BY <1>5, NumImagesAssumption DEF AcquireFails, Images, PresenterTypeOK, CreationInv, FenceInv
<1>6. CASE Record
  BY <1>6 DEF Record, PresenterTypeOK, CreationInv, FenceInv
<1>7. CASE Submit
  <2>1. queue = <<>> /\ imgIdx \in Images /\ queue' = Append(queue, imgIdx)
    BY <1>7 DEF Submit, PresenterTypeOK, FenceInv
  <2>2. queue' \in Seq(Images) /\ Len(queue') = 1 /\ Len(queue) = 0 /\ queue' # <<>>
    BY <2>1
  <2>3. PresenterTypeOK'
    BY <1>7, <2>2 DEF Submit, PresenterTypeOK
  <2>4. CreationInv' /\ FenceInv'
    BY <1>7, <2>2 DEF Submit, CreationInv, FenceInv
  <2> QED
    BY <2>3, <2>4
<1>8. CASE SubmitFails
  BY <1>8 DEF SubmitFails, PresenterTypeOK, CreationInv, FenceInv
<1>9. CASE Present
  BY <1>9 DEF Present, PresenterTypeOK, CreationInv, FenceInv
<1> QED
  BY <1>1, <1>2, <1>3, <1>4, <1>5, <1>6, <1>7, <1>8, <1>9 DEF Frame

(* A step of the device.                                                   *)
LEMMA DeviceStep == PresenterInv /\ Device => PresenterInv'
<1> SUFFICES ASSUME PresenterInv, Device PROVE PresenterInv'
  OBVIOUS
<1> USE DEF PresenterInv, uiVars, frameVars, deviceVars
<1>1. CASE ImageAvailable
  BY <1>1 DEF ImageAvailable, PresenterTypeOK, CreationInv, FenceInv
<1>2. CASE Draw
  <2>1. queue \in Seq(Images) /\ queue # <<>> /\ queue' = Tail(queue) /\ Len(queue) <= 1
    BY <1>2 DEF Draw, PresenterTypeOK, FenceInv
  <2>2. queue' \in Seq(Images) /\ Len(queue') = 0 /\ Len(queue) = 1 /\ queue' = <<>>
    BY <2>1, OneFinished
  <2>3. drain' \in 0 .. Len(queue')
    BY <1>2, <2>2 DEF Draw, PresenterTypeOK
  <2>4. PresenterTypeOK'
    BY <1>2, <2>2, <2>3 DEF Draw, PresenterTypeOK
  <2>5. initialized /\ at \notin {"acquire", "record", "submit"}
    BY <2>1 DEF CreationInv, FenceInv
  <2>6. CreationInv'
    BY <1>2, <2>5 DEF Draw, CreationInv
  <2>7. FenceInv'
    BY <1>2, <2>2, <2>5 DEF Draw, FenceInv
  <2> QED
    BY <2>4, <2>6, <2>7
<1>3. CASE HandOver
  <2>1. images' \in [Images -> {"free", "held", "presented", "shown"}] /\ presents' \subseteq Images
    BY <1>3 DEF HandOver, PresenterTypeOK
  <2> QED
    BY <1>3, <2>1 DEF HandOver, PresenterTypeOK, CreationInv, FenceInv
<1>4. CASE Show
  <2>1. images' \in [Images -> {"free", "held", "presented", "shown"}]
    BY <1>4 DEF Show, PresenterTypeOK
  <2> QED
    BY <1>4, <2>1 DEF Show, PresenterTypeOK, CreationInv, FenceInv
<1> QED
  BY <1>1, <1>2, <1>3, <1>4 DEF Device

LEMMA PresenterInductive == PresenterInv /\ [PresenterNext]_presenterVars => PresenterInv'
<1>1. PresenterInv /\ UNCHANGED presenterVars => PresenterInv'
  BY DEF PresenterInv, PresenterTypeOK, CreationInv, FenceInv,
         presenterVars, uiVars, frameVars, deviceVars
<1> QED
  BY <1>1, UiStep, FrameStep, DeviceStep DEF PresenterNext

(* What the invariant is for.                                              *)
LEMMA PresenterConsequences ==
  PresenterInv => PresentsWithEverything /\ RecordingNotInFlight /\ AcquireSemaphoreFree
<1> SUFFICES ASSUME PresenterInv
             PROVE  PresentsWithEverything /\ RecordingNotInFlight /\ AcquireSemaphoreFree
  OBVIOUS
<1> USE DEF PresenterInv
<1>1. PresentsWithEverything
  BY DEF PresentsWithEverything, CreationInv, PresenterTypeOK
<1>2. RecordingNotInFlight
  BY DEF RecordingNotInFlight, FenceInv
<1>3. AcquireSemaphoreFree
  BY DEF AcquireSemaphoreFree, FenceInv
<1> QED
  BY <1>1, <1>2, <1>3

(* The presenter by itself: it is only used complete, it does not record   *)
(* what is in flight, and it acquires with a semaphore that is free, also  *)
(* after an acquire or a submission has failed.                            *)
THEOREM PresenterIsSafe ==
  PresenterSafety =>
    [](PresentsWithEverything /\ RecordingNotInFlight /\ AcquireSemaphoreFree)
<1>1. PresenterSafety => []PresenterInv
  BY InitInv, PresenterInductive, PTL DEF PresenterSafety
<1> QED
  BY <1>1, PresenterConsequences, PTL

-----------------------------------------------------------------------------
(* The walk: every activation is inside its buffer, and every buffer is    *)
(* inside the memory unless its size in bytes is beyond 32 bits.           *)

Activation == [start : Nat, size : Nat, i : Nat]

InBuffer(c) ==
  /\ c.i <= c.size
  /\ c.start + c.size <= MemWords + MaxValue
  /\ c.size < MemWords => c.start + c.size <= MemWords

Inside(c) ==
  /\ c \in Seq(Activation) /\ Len(c) <= StackDepth + 1
  /\ \A k \in 1 .. Len(c) : InBuffer(c[k])

WalkInv == /\ Inside(calls)
           /\ read \in [at : Nat, size : Nat]
           /\ WalkStaysInside

-----------------------------------------------------------------------------
(* Operators *)

LEMMA MinFacts ==
  ASSUME NEW a \in Nat, NEW b \in Nat
  PROVE  Min({a, b}) \in Nat /\ Min({a, b}) <= a /\ Min({a, b}) <= b
<1>1. \E x \in {a, b} : \A y \in {a, b} : x <= y
  <2>1. CASE a <= b
    BY <2>1
  <2>2. CASE b <= a
    BY <2>2
  <2> QED
    BY <2>1, <2>2
<1>2. Min({a, b}) \in {a, b} /\ \A y \in {a, b} : Min({a, b}) <= y
  BY <1>1 DEF Min
<1> QED
  BY <1>2

(* The register indexes SET_CONSTANT stores to are no more than the values *)
(* that follow the offset.                                                 *)
LEMMA TargetsFacts ==
  ASSUME NEW a \in Nat, NEW n \in Nat, n >= 2,
         NEW T, T = {g \in a .. a + n - 2 : g < NumRegs}
  PROVE  Cardinality(T) \in Nat /\ Cardinality(T) <= n - 1 /\ T \subseteq 0 .. NumRegs - 1
<1>1. IsFiniteSet(a .. a + n - 2) /\ Cardinality(a .. a + n - 2) = n - 1
  BY FS_Interval
<1>2. T \in SUBSET (a .. a + n - 2)
  OBVIOUS
<1>3. IsFiniteSet(T) /\ Cardinality(T) <= n - 1
  BY <1>1, <1>2, FS_Subset
<1>4. Cardinality(T) \in Nat
  BY <1>3, FS_CardinalityType
<1>5. T \subseteq 0 .. NumRegs - 1
  BY MemoryAssumption
<1> QED
  BY <1>3, <1>4, <1>5

-----------------------------------------------------------------------------
(* The activations *)

LEMMA BufferFacts ==
  ASSUME Inside(calls), calls # <<>>
  PROVE  /\ Len(calls) \in 1 .. Len(calls) /\ Len(calls) \in Nat
         /\ Buffer = calls[Len(calls)] /\ Buffer \in Activation
         /\ InBuffer(Buffer) /\ Buffer.i <= Buffer.size
         /\ Buffer.i \in Nat /\ Buffer.size \in Nat /\ Buffer.start \in Nat
<1>1. Len(calls) \in Nat /\ Len(calls) >= 1
  BY DEF Inside
<1>2. calls[Len(calls)] \in Activation
  BY <1>1 DEF Inside
<1> QED
  BY <1>1, <1>2 DEF Inside, InBuffer, Last, Buffer, Activation

LEMMA SetIndex ==
  ASSUME Inside(calls), calls # <<>>, NEW k \in Nat, k <= Buffer.size
  PROVE  Inside([calls EXCEPT ![Len(calls)].i = k])
<1> DEFINE c == [calls EXCEPT ![Len(calls)].i = k]
           b == [Buffer EXCEPT !.i = k]
<1>1. /\ Len(calls) \in 1 .. Len(calls) /\ Buffer = calls[Len(calls)]
      /\ Buffer \in Activation /\ InBuffer(Buffer)
  BY BufferFacts
<1>2. b \in Activation /\ InBuffer(b)
  BY <1>1 DEF Activation, InBuffer
<1>3. c = [calls EXCEPT ![Len(calls)] = b]
  BY <1>1
<1> HIDE DEF b
<1>4. c \in Seq(Activation) /\ Len(c) = Len(calls)
  BY <1>2, <1>3 DEF Inside
<1>5. \A j \in 1 .. Len(c) : c[j] = IF j = Len(calls) THEN b ELSE calls[j]
  BY <1>3, <1>4 DEF Inside
<1> HIDE DEF c
<1>6. Inside(c)
  BY <1>1, <1>2, <1>4, <1>5 DEF Inside
<1> QED
  BY <1>6 DEF c

LEMMA PopCall ==
  ASSUME Inside(calls), calls # <<>>
  PROVE  Inside(Front(calls))
<1>1. StackDepth \in Nat
  BY MemoryAssumption
<1>2. calls \in Seq(Activation) /\ Len(calls) \in Nat /\ Len(calls) >= 1
  BY DEF Inside
<1> DEFINE n == Len(calls) - 1
           f == SubSeq(calls, 1, n)
<1>4. n \in Nat /\ n <= Len(calls) /\ Front(calls) = f
  BY <1>2 DEF Front
<1> HIDE DEF n
<1>5. f \in Seq(Activation) /\ Len(f) = n /\ \A k \in 1 .. n : f[k] = calls[k]
  BY ONLY <1>2, <1>4
<1> HIDE DEF f
<1>3. /\ Front(calls) \in Seq(Activation) /\ Len(Front(calls)) = Len(calls) - 1
      /\ \A k \in 1 .. Len(Front(calls)) : Front(calls)[k] = calls[k]
  BY <1>4, <1>5 DEF n
<1> QED
  BY <1>1, <1>2, <1>3 DEF Inside

LEMMA PushCall ==
  ASSUME NEW c, Inside(c), Len(c) <= StackDepth, NEW s \in Nat, NEW n \in Nat,
         s + n <= MemWords + MaxValue, n < MemWords => s + n <= MemWords
  PROVE  Inside(Append(c, [start |-> s, size |-> n, i |-> 0]))
<1> DEFINE b == [start |-> s, size |-> n, i |-> 0]
<1>1. b \in Activation /\ InBuffer(b)
  BY DEF Activation, InBuffer
<1> HIDE DEF b
<1>2. Append(c, b) \in Seq(Activation) /\ Len(Append(c, b)) = Len(c) + 1 /\ Len(c) \in Nat
  BY <1>1 DEF Inside
<1>3. \A k \in 1 .. Len(c) + 1 : Append(c, b)[k] = IF k = Len(c) + 1 THEN b ELSE c[k]
  BY <1>1 DEF Inside
<1>4. Inside(Append(c, b))
  BY <1>1, <1>2, <1>3, MemoryAssumption DEF Inside
<1> QED
  BY <1>4 DEF b

(* The product of 32 bits is the size in bytes as long as that fits.       *)
LEMMA Remainder ==
  ASSUME NEW n \in Nat, NEW m \in Nat \ {0}
  PROVE  n % m \in Nat /\ (n < m => n % m = n)
OBVIOUS

(* What the words inside the buffer hold.                                  *)
LEMMA WordFacts ==
  ASSUME Inside(calls), calls # <<>>, NEW k \in Nat, k < Buffer.size
  PROVE  /\ Word(k).opcode \in Nat /\ Word(k).low \in Nat
         /\ Word(k).regbase \in Nat /\ Word(k).num \in Nat
         /\ Word(k).value \in Nat /\ Word(k).value <= MaxValue
<1>1. Buffer.start + k \in DOMAIN Memory
  BY BufferFacts, MemoryAssumption DEF InBuffer
<1> QED
  BY <1>1, MemoryAssumption DEF Word

LEMMA HeaderFacts ==
  ASSUME Inside(calls), Walking
  PROVE  /\ calls # <<>>
         /\ Header.regbase \in Nat /\ Type0Count \in Nat /\ Type0Count >= 1
         /\ Type3Params \in Nat
         /\ Buffer.i \in Nat /\ Buffer.size \in Nat /\ Buffer.i < Buffer.size
<1>1. calls # <<>> /\ Buffer.i < Buffer.size
  BY DEF Walking, Running
<1>2. Buffer.i \in Nat /\ Buffer.size \in Nat
  BY <1>1, BufferFacts
<1>3. /\ Header.opcode \in Nat /\ Header.low \in Nat
      /\ Header.regbase \in Nat /\ Header.num \in Nat
  BY <1>1, <1>2, WordFacts DEF Header
<1>4. Header.opcode * OpWeight \in Nat
  BY <1>3, MemoryAssumption
<1>5. Type3Params \in Nat
  BY <1>3, <1>4 DEF Type3Params
<1> QED
  BY <1>1, <1>2, <1>3, <1>5 DEF Type0Count

(* After a complete type-3 packet, with n of its parameters looked at.     *)
LEMMA PacketStep ==
  ASSUME WalkInv, NEW ops, Type3(ops), NEW n \in Nat, n <= Type3Params, ReadParams(n),
         registers' \subseteq 0 .. NumRegs - 1
  PROVE  /\ Inside(AfterPacket)
         /\ Inside(calls') => WalkInv'
<1>1. Walking /\ Complete /\ Inside(calls)
  BY DEF Type3, WalkInv
<1>2. /\ calls # <<>> /\ Type3Params \in Nat
      /\ Buffer.i \in Nat /\ Buffer.size \in Nat /\ Buffer.i < Buffer.size
      /\ Buffer.start \in Nat
  BY <1>1, HeaderFacts, BufferFacts
<1>3. Buffer.i + 1 + Type3Params <= Buffer.size
  BY <1>1 DEF Complete
<1> DEFINE k == Buffer.i + 1 + Type3Params
<1>6. k \in Nat /\ k <= Buffer.size
  BY <1>2, <1>3
<1> HIDE DEF k
<1>7. Inside([calls EXCEPT ![Len(calls)].i = k])
  BY <1>1, <1>2, <1>6, SetIndex
<1>4. Inside(AfterPacket)
  BY <1>7 DEF AfterPacket, k
<1>5. read' \in [at : Nat, size : Nat] /\ read'.at < read'.size
  BY <1>2, <1>3 DEF ReadParams, Reads
<1> QED
  BY <1>4, <1>5 DEF WalkInv, WalkStaysInside

-----------------------------------------------------------------------------

LEMMA WalkInit == GpuInit => WalkInv
BY MemoryAssumption DEF GpuInit, WalkInv, Inside, WalkStaysInside

LEMMA WalkStep == WalkInv /\ Walk => WalkInv'
<1> SUFFICES ASSUME WalkInv, Walk PROVE WalkInv'
  OBVIOUS
<1>0. Inside(calls) /\ registers \subseteq 0 .. NumRegs - 1
  BY DEF WalkInv, WalkStaysInside
<1>1. CASE SkipPacket
  <2>1. Walking
    BY <1>1 DEF SkipPacket
  <2>2. calls # <<>> /\ Buffer.i \in Nat /\ Buffer.size \in Nat /\ Buffer.i < Buffer.size
    BY <1>0, <2>1, HeaderFacts
  <2>6. Buffer.start \in Nat
    BY <1>0, <2>2, BufferFacts
  <2> DEFINE k == Buffer.i + 1
  <2>5. k \in Nat /\ k <= Buffer.size /\ calls' = [calls EXCEPT ![Len(calls)].i = k]
    BY <1>1, <2>2 DEF SkipPacket, Advance
  <2> HIDE DEF k
  <2>3. Inside(calls')
    BY <1>0, <2>2, <2>5, SetIndex
  <2>4. read' \in [at : Nat, size : Nat] /\ read'.at < read'.size
    BY <1>1, <2>2, <2>6 DEF SkipPacket, Advance, Reads
  <2> QED
    BY <1>0, <1>1, <2>3, <2>4 DEF SkipPacket, WalkInv, WalkStaysInside
<1>2. CASE SetRegisters
  <2> DEFINE n == Min({Type0Count, Buffer.size - Buffer.i - 1})
  <2>1. Walking
    BY <1>2 DEF SetRegisters
  <2>2. /\ calls # <<>> /\ Header.regbase \in Nat /\ Type0Count \in Nat
        /\ Buffer.i \in Nat /\ Buffer.size \in Nat /\ Buffer.i < Buffer.size
    BY <1>0, <2>1, HeaderFacts
  <2>3. Buffer.size - Buffer.i - 1 \in Nat
    BY <2>2
  <2>4. n \in Nat /\ n <= Buffer.size - Buffer.i - 1
    BY <2>2, <2>3, MinFacts
  <2>5. /\ registers' = registers \cup
             {g \in Header.regbase .. Header.regbase + n - 1 : g < NumRegs}
        /\ calls' = [calls EXCEPT ![Len(calls)].i = Buffer.i + 1 + n]
        /\ read' = [at |-> Buffer.i + n, size |-> Buffer.size]
    BY <1>2 DEF SetRegisters, Advance, Reads
  <2> HIDE DEF n
  <2>6. Buffer.i + 1 + n \in Nat /\ Buffer.i + 1 + n <= Buffer.size
    BY <2>2, <2>4
  <2>7. Inside(calls')
    BY <1>0, <2>2, <2>5, <2>6, SetIndex
  <2>10. Buffer.start \in Nat
    BY <1>0, <2>2, BufferFacts
  <2>8. read' \in [at : Nat, size : Nat] /\ read'.at < read'.size
    BY <2>2, <2>4, <2>5, <2>10
  <2>11. NumRegs \in Nat
    BY MemoryAssumption
  <2>9. registers' \subseteq 0 .. NumRegs - 1
    BY <1>0, <2>2, <2>4, <2>5, <2>11
  <2> QED
    BY <2>7, <2>8, <2>9 DEF WalkInv, WalkStaysInside
<1>3. CASE Truncated
  <2>1. Walking
    BY <1>3 DEF Truncated
  <2>2. calls # <<>> /\ Buffer.i \in Nat /\ Buffer.size \in Nat /\ Buffer.i < Buffer.size
    BY <1>0, <2>1, HeaderFacts
  <2>3. Inside(calls')
    BY <1>0, <1>3, <2>2, PopCall DEF Truncated
  <2>4. Buffer.start \in Nat
    BY <1>0, <2>2, BufferFacts
  <2> QED
    BY <1>0, <1>3, <2>2, <2>3, <2>4 DEF Truncated, Reads, WalkInv, WalkStaysInside
<1>4. CASE HandleDrawIndx
  <2> DEFINE n == IF initialized THEN Min({2, Type3Params}) ELSE 0
  <2>1. Type3({DrawIndx}) /\ ReadParams(n) /\ calls' = AfterPacket /\ registers' = registers
    BY <1>4 DEF HandleDrawIndx
  <2>2. n \in Nat /\ n <= Type3Params
    BY <1>0, <2>1, HeaderFacts, MinFacts DEF Type3
  <2> HIDE DEF n
  <2> QED
    BY <1>0, <2>1, <2>2, PacketStep
<1>5. CASE IgnorePacket
  <2> DEFINE n == IF Header.opcode = LoadState /\ Type3Params >= 2 THEN 2 ELSE 0
             ops == Nat \ {DrawIndx, SetConstant, IndirectBuffer, EventWriteEop,
                           SetShaderConstants}
  <2>1. Type3(ops) /\ ReadParams(n) /\ calls' = AfterPacket /\ registers' = registers
    BY <1>5 DEF IgnorePacket
  <2>2. n \in Nat /\ n <= Type3Params
    BY <1>0, <2>1, HeaderFacts DEF Type3
  <2> HIDE DEF n, ops
  <2> QED
    BY <1>0, <2>1, <2>2, PacketStep
<1>6. CASE HandleSetConstant
  <2> DEFINE T == IF Type3Params >= 2 THEN ConstantTargets ELSE {}
             n == IF Type3Params >= 2 THEN 1 + Cardinality(T) ELSE 0
  <2>1. Type3({SetConstant}) /\ ReadParams(n) /\ calls' = AfterPacket
        /\ registers' = registers \cup T
    BY <1>6 DEF HandleSetConstant
  <2>2. /\ Walking /\ Complete /\ calls # <<>> /\ Type3Params \in Nat
        /\ Buffer.i \in Nat /\ Buffer.size \in Nat
    BY <1>0, <2>1, HeaderFacts DEF Type3
  <2>3. CASE Type3Params >= 2
    <3>1. Buffer.i + 1 \in Nat /\ Buffer.i + 1 < Buffer.size
      BY <2>2, <2>3 DEF Complete
    <3>2. Param(1).value \in Nat
      BY <1>0, <2>2, <3>1, WordFacts DEF Param
    <3>3. T = {g \in Param(1).value .. Param(1).value + Type3Params - 2 : g < NumRegs}
      BY <2>3 DEF ConstantTargets
    <3>4. /\ Cardinality(T) \in Nat /\ Cardinality(T) <= Type3Params - 1
          /\ T \subseteq 0 .. NumRegs - 1
      BY <2>2, <2>3, <3>2, <3>3, TargetsFacts
    <3>5. n = 1 + Cardinality(T)
      BY <2>3
    <3> HIDE DEF T, n
    <3>6. n \in Nat /\ n <= Type3Params /\ registers' \subseteq 0 .. NumRegs - 1
      BY <1>0, <2>1, <2>2, <3>4, <3>5
    <3> QED
      BY <2>1, <3>6, PacketStep
  <2>4. CASE ~(Type3Params >= 2)
    <3>1. n = 0 /\ T = {}
      BY <2>4
    <3> HIDE DEF T, n
    <3>2. n \in Nat /\ n <= Type3Params /\ registers' \subseteq 0 .. NumRegs - 1
      BY <1>0, <2>1, <2>2, <3>1
    <3> QED
      BY <2>1, <3>2, PacketStep
  <2> QED
    BY <2>3, <2>4
<1>7. CASE HandleShaderConstants
  <2>1. Type3({SetShaderConstants}) /\ ReadParams(Min({1, Type3Params}))
        /\ calls' = AfterPacket
    BY <1>7 DEF HandleShaderConstants
  <2>2. Min({1, Type3Params}) \in Nat /\ Min({1, Type3Params}) <= Type3Params
    BY <1>0, <2>1, HeaderFacts, MinFacts DEF Type3
  <2>3. registers' \subseteq 0 .. NumRegs - 1
    BY <1>0, <1>7, MemoryAssumption DEF HandleShaderConstants
  <2> QED
    BY <2>1, <2>2, <2>3, PacketStep
<1>8. CASE HandleIndirectBuffer
  <2> DEFINE n == IF Type3Params >= 2 THEN 2 ELSE 0
  <2>1. Type3({IndirectBuffer}) /\ ReadParams(n) /\ registers' = registers
    BY <1>8 DEF HandleIndirectBuffer
  <2>2. /\ Walking /\ Complete /\ calls # <<>> /\ Type3Params \in Nat
        /\ Buffer.i \in Nat /\ Buffer.size \in Nat
    BY <1>0, <2>1, HeaderFacts DEF Type3
  <2>3. n \in Nat /\ n <= Type3Params
    BY <2>2
  <2> HIDE DEF n
  <2>4. Inside(AfterPacket) /\ (Inside(calls') => WalkInv')
    BY <1>0, <2>1, <2>3, PacketStep
  <2>5. CASE Type3Params >= 2 /\ guestMemory /\ InMemory(Param(1).value, Param(2).value)
    <3>1. /\ Buffer.i + 1 \in Nat /\ Buffer.i + 1 < Buffer.size
          /\ Buffer.i + 2 \in Nat /\ Buffer.i + 2 < Buffer.size
      BY <2>2, <2>5 DEF Complete
    <3> DEFINE s == Param(1).value
               n2 == Param(2).value
    <3>2. s \in Nat /\ n2 \in Nat /\ n2 <= MaxValue
      BY <1>0, <2>2, <3>1, WordFacts DEF Param
    <3>3. calls' = Append(AfterPacket, [start |-> s, size |-> n2, i |-> 0])
      BY <1>8, <2>5 DEF HandleIndirectBuffer
    <3>5. s + (n2 % MemWords) <= MemWords
      BY <2>5 DEF InMemory
    <3>6. Len(AfterPacket) <= StackDepth
      BY <1>0, <2>2 DEF AfterPacket, Walking, Running, Inside
    <3> HIDE DEF s, n2
    <3>7. n2 % MemWords \in Nat /\ (n2 < MemWords => n2 % MemWords = n2)
      BY <3>2, Remainder, MemoryAssumption
    <3>8. s + n2 <= MemWords + MaxValue /\ (n2 < MemWords => s + n2 <= MemWords)
      BY <3>2, <3>5, <3>7, MemoryAssumption
    <3>4. Inside(calls')
      BY <2>4, <3>2, <3>3, <3>6, <3>8, PushCall
    <3> QED
      BY <2>4, <3>4
  <2>6. CASE ~(Type3Params >= 2 /\ guestMemory /\ InMemory(Param(1).value, Param(2).value))
    BY <1>8, <2>4, <2>6 DEF HandleIndirectBuffer
  <2> QED
    BY <2>5, <2>6
<1>9. CASE HandleSwap
  <2>1. Type3({EventWriteEop}) /\ ReadParams(0) /\ calls' = AfterPacket
        /\ registers' = registers
    BY <1>9 DEF HandleSwap
  <2>2. 0 <= Type3Params
    BY <1>0, <2>1, HeaderFacts DEF Type3
  <2> QED
    BY <1>0, <2>1, <2>2, PacketStep
<1>10. CASE EndOfBuffer
  BY <1>0, <1>10, PopCall DEF EndOfBuffer, Running, WalkInv, WalkStaysInside
<1> QED
  BY <1>1, <1>2, <1>3, <1>4, <1>5, <1>6, <1>7, <1>8, <1>9, <1>10 DEF Walk

LEMMA WalkInductive == WalkInv /\ [GpuNext]_gpuVars => WalkInv'
<1> SUFFICES ASSUME WalkInv, [GpuNext]_gpuVars PROVE WalkInv'
  OBVIOUS
<1>1. ASSUME NEW r \in Rings, SubmitRing(r) PROVE WalkInv'
  <2>1. calls' = Append(calls, [start |-> r.start, size |-> r.size, i |-> 0])
        /\ Len(calls) = 0
    BY <1>1 DEF SubmitRing
  <2>3. /\ r.start \in Nat /\ r.size \in Nat /\ Len(calls) <= StackDepth
        /\ r.start + r.size <= MemWords /\ r.start + r.size <= MemWords + MaxValue
    BY <2>1, MemoryAssumption
  <2>2. Inside(calls')
    BY <2>1, <2>3, PushCall DEF WalkInv
  <2> QED
    BY <1>1, <2>2 DEF SubmitRing, WalkInv, WalkStaysInside
<1>2. CASE UNCHANGED walkVars
  BY <1>2 DEF walkVars, WalkInv, WalkStaysInside
<1> QED
  BY <1>1, <1>2, WalkStep DEF GpuNext, gpuVars

(* The walk is a client of the presenter: every step of it is a call of    *)
(* presentFrame or leaves the presenter alone.                             *)
LEMMA PresenterSteps == [GpuNext]_gpuVars => [PresenterNext]_presenterVars
<1> SUFFICES ASSUME [GpuNext]_gpuVars PROVE [PresenterNext]_presenterVars
  OBVIOUS
<1>1. CASE Walk
  BY <1>1 DEF Walk, SkipPacket, SetRegisters, Truncated, HandleDrawIndx, IgnorePacket,
     HandleSetConstant, HandleShaderConstants, HandleIndirectBuffer, HandleSwap,
     EndOfBuffer, PresenterNext
<1>2. CASE \E r \in Rings : SubmitRing(r)
  BY <1>2 DEF SubmitRing
<1> QED
  BY <1>1, <1>2 DEF GpuNext, PresenterNext, gpuVars

LEMMA GpuInvariant == GpuSafety => [](WalkInv /\ PresenterInv)
<1>1. GpuInit => WalkInv /\ PresenterInv
  BY WalkInit, InitInv DEF GpuInit
<1>2. WalkInv /\ PresenterInv /\ [GpuNext]_gpuVars => WalkInv' /\ PresenterInv'
  BY WalkInductive, PresenterSteps, PresenterInductive
<1> QED
  BY <1>1, <1>2, PTL DEF GpuSafety

(* An activation never passes the end of its buffer, and every buffer lies *)
(* in the guest's memory unless its size in bytes is beyond 32 bits,       *)
(* whatever sizes and addresses the guest's packets give.                  *)
THEOREM WalkIsTyped == GpuSafety => []WalkTypeOK
<1>1. WalkInv /\ PresenterInv => WalkTypeOK
  <2>1. WalkInv => registers \subseteq Nat
    BY MemoryAssumption DEF WalkInv, WalkStaysInside
  <2> QED
    BY <2>1 DEF WalkInv, Inside, InBuffer, Activation, PresenterInv, WalkTypeOK
<1> QED
  BY <1>1, GpuInvariant, PTL

(* Every word read lies in the buffer being walked and every word stored   *)
(* in the registers, whatever the guest's memory holds.                    *)
THEOREM WalkIsInside == GpuSafety => []WalkStaysInside
<1>1. WalkInv => WalkStaysInside
  BY DEF WalkInv
<1> QED
  BY <1>1, GpuInvariant, PTL

(* A frame is presented only once init() has created everything, also when *)
(* it failed before and began again.                                       *)
THEOREM FramesNeedEverything == GpuSafety => []PresentsWithEverything
BY GpuInvariant, PresenterConsequences, PTL

(* The command buffer being recorded is never in flight.                   *)
THEOREM RecordingIsSafe == GpuSafety => []RecordingNotInFlight
BY GpuInvariant, PresenterConsequences, PTL

(* An image is acquired with a semaphore that is free, whatever became of  *)
(* the frames before: one that was abandoned leaves a fence that keeps the *)
(* next from getting there.                                                *)
THEOREM AcquireSemaphoreIsFree == GpuSafety => []AcquireSemaphoreFree
BY GpuInvariant, PresenterConsequences, PTL
===============================================================================
