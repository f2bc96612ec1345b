--------------------------- MODULE CommandProcessor ---------------------------
(***************************************************************************)
(* The walk over the guest's command buffers (pm4_parser.cpp), on top of   *)
(* the presenter: GpuLayer::processPm4RingBuffer, which calls itself for   *)
(* an indirect buffer and presentFrame for an end-of-pipe event.           *)
(*                                                                         *)
(* Addresses and sizes are in words.  A word of memory is a record of what *)
(* the parser reads out of it in each role it may be read in; the masks it *)
(* reads them with are left out, as any record may stand for any word.     *)
(* The number of parameters of a type-3 packet is taken from bits 0 to 13  *)
(* of its header and the opcode from bits 8 to 15, so the opcode counts in *)
(* the length: OpWeight is 256 in the code.                                *)
(*                                                                         *)
(* The guest's buffers may hold anything.  A walk may be sent out of guest *)
(* memory, where each read may fault, and into a buffer that contains      *)
(* itself, until the stack of the thread is used up: either ends the       *)
(* process.  The index and the length of a packet are added in 32 bits in  *)
(* the code; the sum wraps only in the last 2^14 words of a buffer of 2^32 *)
(* of them, and that is left out.                                          *)
(***************************************************************************)
EXTENDS FramePresenter, SequencesExt

CONSTANTS
  MemWords,         \* words of guest memory: 2^30 in the code
  MaxValue,         \* the largest value of a word: 2^32 - 1 in the code
  Memory,           \* guest memory and what lies behind it, from address 0
  Rings,            \* the buffers the guest submits
  StackDepth,       \* activations of processPm4RingBuffer the stack holds
  NumRegs,          \* words of XenosGpuRegisters
  ProgramCntl,      \* the word of sqProgramCntl
  OpWeight,
  DrawIndx, SetConstant, IndirectBuffer, EventWriteEop, SetShaderConstants,
  LoadState

ASSUME MemoryAssumption ==
  /\ MemWords \in Nat \ {0} /\ MaxValue \in Nat /\ StackDepth \in Nat
  /\ NumRegs \in Nat /\ OpWeight \in Nat
  /\ ProgramCntl \in 0 .. NumRegs - 1
  /\ DOMAIN Memory = 0 .. MemWords + MaxValue - 1
  /\ \A a \in DOMAIN Memory :
       /\ Memory[a].type \in 0 .. 3
       /\ {Memory[a].opcode, Memory[a].low, Memory[a].regbase, Memory[a].num} \subseteq Nat
       /\ Memory[a].value \in 0 .. MaxValue
  /\ \A r \in Rings : r.start \in Nat /\ r.size \in Nat /\ r.start + r.size <= MemWords

VARIABLES
  calls,            \* activations of processPm4RingBuffer, outermost first
  registers,        \* the words of m_regs that were stored to
  read              \* the last word the last step read or passed over: its
                    \* position in the buffer, and the buffer's size

walkVars == <<calls, registers, read>>
gpuVars == <<presenterVars, walkVars>>

GpuInit ==
  /\ PresenterInit
  /\ calls = <<>>
  /\ registers = {}
  /\ read = [at |-> 0, size |-> 1]

-----------------------------------------------------------------------------
(* Reading *)

Buffer == Last(calls)
Word(k) == Memory[Buffer.start + k]
Header == Word(Buffer.i)
Param(k) == Word(Buffer.i + k)          \* params[k - 1]

(* The step reads the buffer up to its r-th word.                          *)
Reads(r) == read' = [at |-> r, size |-> Buffer.size]

Type0Count == Header.num + 1
Type3Params == Header.opcode * OpWeight + Header.low

(* The index of the running activation becomes k, and the last word read   *)
(* was the one at position r.                                              *)
Advance(k, r) ==
  /\ calls' = [calls EXCEPT ![Len(calls)].i = k]
  /\ Reads(r)

-----------------------------------------------------------------------------
(* One packet *)

Running == calls # <<>> /\ Len(calls) <= StackDepth /\ at = "none"
Walking == Running /\ Buffer.i < Buffer.size

SubmitRing(r) ==
  /\ calls = <<>> /\ at = "none"
  /\ calls' = <<[start |-> r.start, size |-> r.size, i |-> 0]>>
  /\ UNCHANGED <<registers, read, presenterVars>>

(* Type 2 is a no-operation and type 1 unknown; both are one word long.    *)
SkipPacket ==
  /\ Walking /\ Header.type \in {1, 2}
  /\ Advance(Buffer.i + 1, Buffer.i)
  /\ UNCHANGED <<registers, presenterVars>>

(* Type 0 stores the words that follow in consecutive registers, as many   *)
(* as the buffer holds; registers beyond the file are skipped.             *)
SetRegisters ==
  /\ Walking /\ Header.type = 0
  /\ LET n == Min({Type0Count, Buffer.size - Buffer.i - 1})
     IN  /\ registers' = registers \cup
              {g \in Header.regbase .. Header.regbase + n - 1 : g < NumRegs}
         /\ Advance(Buffer.i + 1 + n, Buffer.i + n)
  /\ UNCHANGED presenterVars

(* A type-3 packet whose parameters the buffer does not hold ends the walk *)
(* of this buffer.                                                         *)
Complete_OffByOne == Buffer.i + Type3Params <= Buffer.size
Complete == Buffer.i + 1 + Type3Params <= Buffer.size

Truncated ==
  /\ Walking /\ Header.type = 3 /\ ~Complete
  /\ calls' = Front(calls)
  /\ Reads(Buffer.i)
  /\ UNCHANGED <<registers, presenterVars>>

(* A complete type-3 packet; dispatchType3 looks at the first n parameters. *)
Type3(opcodes) ==
  Walking /\ Header.type = 3 /\ Complete /\ Header.opcode \in opcodes
ReadParams(n) == Reads(Buffer.i + n)
AfterPacket == [calls EXCEPT ![Len(calls)].i = Buffer.i + 1 + Type3Params]

(* DRAW_INDX looks at one or two parameters, once there is a renderer, and *)
(* draws nothing yet.                                                      *)
HandleDrawIndx ==
  /\ Type3({DrawIndx})
  /\ ReadParams(IF initialized THEN Min({2, Type3Params}) ELSE 0)
  /\ calls' = AfterPacket
  /\ UNCHANGED <<registers, presenterVars>>

(* LOAD_STATE is read and logged; other opcodes are ignored.               *)
IgnorePacket ==
  /\ Type3(Nat \ {DrawIndx, SetConstant, IndirectBuffer, EventWriteEop, SetShaderConstants})
  /\ ReadParams(IF Header.opcode = LoadState /\ Type3Params >= 2 THEN 2 ELSE 0)
  /\ calls' = AfterPacket
  /\ UNCHANGED <<registers, presenterVars>>

(* SET_CONSTANT: an offset, then values for consecutive registers, as far  *)
(* as there are registers.                                                 *)
ConstantTargets ==
  {g \in Param(1).value .. Param(1).value + Type3Params - 2 : g < NumRegs}

HandleSetConstant ==
  /\ Type3({SetConstant})
  /\ LET targets == IF Type3Params >= 2 THEN ConstantTargets ELSE {}
     IN  /\ registers' = registers \cup targets
         /\ ReadParams(IF Type3Params >= 2 THEN 1 + Cardinality(targets) ELSE 0)
  /\ calls' = AfterPacket
  /\ UNCHANGED presenterVars

HandleShaderConstants ==
  /\ Type3({SetShaderConstants})
  /\ registers' = IF Type3Params > 0 THEN registers \cup {ProgramCntl} ELSE registers
  /\ ReadParams(Min({1, Type3Params}))
  /\ calls' = AfterPacket
  /\ UNCHANGED presenterVars

(* INDIRECT_BUFFER: the buffer at an address, if it lies in memory, is     *)
(* walked before the rest of this one.  Its size in bytes is a product of  *)
(* 32 bits, so that a size in words counts modulo 2^30.                    *)
InMemory_StartOnly(start, size) == start <= MemWords
InMemory(start, size) == start + (size % MemWords) <= MemWords

HandleIndirectBuffer ==
  /\ Type3({IndirectBuffer})
  /\ ReadParams(IF Type3Params >= 2 THEN 2 ELSE 0)
  /\ calls' = IF /\ Type3Params >= 2 /\ guestMemory
                 /\ InMemory(Param(1).value, Param(2).value)
              THEN Append(AfterPacket, [start |-> Param(1).value,
                                        size |-> Param(2).value, i |-> 0])
              ELSE AfterPacket
  /\ UNCHANGED <<registers, presenterVars>>

(* EVENT_WRITE_EOP presents a frame, whatever the event.                   *)
HandleSwap ==
  /\ Type3({EventWriteEop})
  /\ ReadParams(0)
  /\ IF initialized THEN PresentFrame ELSE UNCHANGED presenterVars
  /\ calls' = AfterPacket
  /\ UNCHANGED registers

EndOfBuffer ==
  /\ Running /\ Buffer.i >= Buffer.size
  /\ calls' = Front(calls)
  /\ UNCHANGED <<registers, read, presenterVars>>

Walk ==
  \/ SkipPacket \/ SetRegisters \/ Truncated \/ HandleDrawIndx \/ IgnorePacket
  \/ HandleSetConstant \/ HandleShaderConstants \/ HandleIndirectBuffer
  \/ HandleSwap \/ EndOfBuffer

GpuNext ==
  \/ \E r \in Rings : SubmitRing(r)
  \/ Walk
  \/ (Frame \/ Ui \/ Device) /\ UNCHANGED walkVars

GpuSafety == GpuInit /\ [][GpuNext]_gpuVars

(* The walk may end with the process: the stack is used up, or a buffer    *)
(* leaves guest memory.                                                    *)
Lost == \/ Len(calls) > StackDepth
        \/ \E k \in 1 .. Len(calls) : calls[k].start + calls[k].size > MemWords

(* The thread that walks runs while nothing stops it, the device does its  *)
(* work, and clearSurface returns when the device is idle.  Nothing is     *)
(* assumed of the guest, of the user, of what lies behind guest memory, or *)
(* of how an acquire and a submission end.                                 *)
GpuSpec ==
  /\ GpuSafety
  /\ WF_gpuVars((Walk /\ ~Lost) \/ (Frame /\ UNCHANGED walkVars))
  /\ WF_gpuVars((ImageAvailable \/ Draw) /\ UNCHANGED walkVars)
  /\ WF_gpuVars(HandOver /\ UNCHANGED walkVars)
  /\ WF_gpuVars(Show /\ UNCHANGED walkVars)
  /\ WF_gpuVars(SurfaceCleared /\ UNCHANGED walkVars)
-----------------------------------------------------------------------------
(* Properties *)

(* Types, and: an activation does not pass the end of its buffer, and the  *)
(* buffer lies in memory unless its size in bytes is beyond 32 bits.       *)
WalkTypeOK ==
  /\ PresenterTypeOK
  /\ calls \in Seq([start : Nat, size : Nat, i : Nat]) /\ Len(calls) <= StackDepth + 1
  /\ \A k \in 1 .. Len(calls) :
       /\ calls[k].i <= calls[k].size
       /\ calls[k].size < MemWords => calls[k].start + calls[k].size <= MemWords
  /\ registers \subseteq Nat
  /\ read \in [at : Nat, size : Nat]

(* Every word that is read, header or parameter, lies inside the buffer    *)
(* being walked, and every word of m_regs that is stored to inside m_regs, *)
(* whatever lengths and offsets the packets give.                          *)
WalkStaysInside == read.at < read.size /\ registers \subseteq 0 .. NumRegs - 1

(* The walk of a buffer comes to an end, the frames it presents included,  *)
(* unless an acquire or a submission failed, a present was still waiting   *)
(* for m_renderDoneSem when the next frame signaled it, or the walk left   *)
(* memory or nested without end.                                           *)
WalksEnd == calls # <<>> ~> (calls = <<>> \/ failed \/ clashed \/ Lost)

(* Unless an acquire or a submission failed, the callback for a surface    *)
(* that goes away returns, also while frames are being presented and       *)
(* whatever the guest's buffers hold: leaving the game does not hang the   *)
(* application.                                                            *)
SurfaceCallReturns == clearing ~> (~clearing \/ failed)

(* pm4_parser.cpp:106 says that presenting at every event is safe and at   *)
(* worst costs extra presents: then each of them returns.                  *)
EopIsSafe == at = "wait" ~> at = "none"
===============================================================================
