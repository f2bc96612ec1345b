------------------------------- MODULE KernelCalls -------------------------------
(***************************************************************************)
(* HleKernel::dispatchKernelCall (xboxkrnl.cpp): the services of the HLE   *)
(* kernel behind one dispatcher.  They share nothing but the handle        *)
(* counter, which objects and files each model for themselves; to keep     *)
(* the states of one from multiplying with those of the others, the title  *)
(* of a session is taken to call one of them only (service).               *)
(*                                                                         *)
(* NtAllocateVirtualMemory reads the guest's 32-bit base and size, and the *)
(* word behind each, as one 64-bit big-endian value.  Of the address that  *)
(* it is given it returns the low 32 bits, which is all of it unless a sum *)
(* wrapped round.                                                          *)
(***************************************************************************)
EXTENDS KernelObjects, GuestHeap, GuestFiles, Pads

CONSTANTS
  Services,         \* services of which a title may call one
  HalfWord,         \* 2^32
  RegionWords       \* base and size words guests pass, and words behind them

VARIABLE service    \* the services this session's title calls

kernelVars == <<vars, heapVars, filesVars, padVars, service>>

GuestRead64(word, next32) == word * HalfWord + next32
Arguments == {GuestRead64(v, w) : v, w \in RegionWords}

ASSUME ArgumentsAssumption ==
  HalfWord \in Nat /\ Arguments \subseteq Sizes /\ Arguments \ {0} \subseteq Bases

KernelInit ==
  /\ Init /\ HeapInit /\ FilesInit /\ PadsInit
  /\ service \in Services
  /\ service # "files" => exists = {}

NtAllocateVirtualMemory(base, regionSize) ==
  IF base = 0 THEN AllocVirtualMemory(regionSize) ELSE AllocAt(base, regionSize)

MemoryCall ==
  \/ \E base, regionSize \in Arguments : NtAllocateVirtualMemory(base, regionSize)
  \/ \E s \in Sizes, a \in Alignments : XMemAlloc(s, a)
  \/ \E e \in allocations : FreeVirtualMemory(e[1])

KernelNext ==
  /\ \/ service = "objects" /\ Next /\ UNCHANGED <<heapVars, filesVars, padVars>>
     \/ service = "memory" /\ MemoryCall /\ UNCHANGED <<vars, filesVars, padVars>>
     \/ service = "files" /\ FilesNext /\ UNCHANGED <<vars, heapVars, padVars>>
     \/ service = "pads" /\ PadsNext /\ UNCHANGED <<vars, heapVars, filesVars>>
  /\ UNCHANGED service

KernelSafety == KernelInit /\ [][KernelNext]_kernelVars

(* A guest inside a kernel call is a host thread that gets to run, and     *)
(* time passes: a wait cannot keep missing its deadline.                   *)
KernelSpec ==
  /\ KernelSafety
  /\ \A g \in Guests : WF_vars(Step(g)) /\ SF_vars(EventTimeout(g))
===============================================================================
