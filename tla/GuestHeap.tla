------------------------------- MODULE GuestHeap -------------------------------
(***************************************************************************)
(* The guest heap of the HLE kernel (memory.cpp): a bump pointer that      *)
(* NtAllocateVirtualMemory and XMemAlloc share, and a table of sizes that  *)
(* only freeing reads.  Every call runs under one lock, so a call is an    *)
(* action.  The zero-fill is left out: the host pointer it goes through is *)
(* never set, because nothing calls initMemorySubsystem.                   *)
(*                                                                         *)
(* The pointer and the sums with it are Word-bit arithmetic, and guests    *)
(* may ask for any size: a request that cannot be served has moved the     *)
(* pointer all the same, and a sum that wraps round passes the test for    *)
(* the end of the heap.  MaxCalls bounds the allocations of a session.     *)
(***************************************************************************)
EXTENDS Naturals, FiniteSets

CONSTANTS
  Word,             \* 2^64 in the code
  HeapStart,        \* 0x40000000
  HeapEnd,          \* kHeapEnd, 0x7FFFFFFF
  PageUp(_),        \* (s + 0xFFFF) & ~0xFFFF
  AlignUp(_, _),    \* (p + a - 1) & ~(a - 1)
  Sizes,            \* sizes that guests ask for
  Alignments,       \* and alignments, with 0 replaced by 16
  Bases,            \* addresses they allocate at without the bump pointer
  MaxCalls          \* bound: allocations tried in a session

ASSUME BoundsAssumption ==
  /\ Word \in Nat /\ HeapStart \in Nat /\ HeapEnd \in Nat /\ MaxCalls \in Nat
  /\ HeapStart <= HeapEnd /\ HeapEnd < Word
  /\ Sizes \subseteq 0 .. (Word - 1)
  /\ Bases \subseteq 1 .. (Word - 1)

(* Rounding is Word-bit arithmetic too.                                    *)
ASSUME RoundingAssumption ==
  /\ \A s \in Sizes : PageUp(s) \in 0 .. (Word - 1)
  /\ \A a \in Alignments : \A p \in 0 .. (Word - 1) : AlignUp(p, a) \in 0 .. (Word - 1)

VARIABLES
  heapPtr,          \* g_heapPtr
  allocations,      \* g_allocations: the pairs of address and size in the table
  blocks,           \* history: all memory handed out; see HandOut
  laps,             \* history: calls in which a sum wrapped round
  calls             \* allocations tried

heapVars == <<heapPtr, allocations, blocks, laps, calls>>

HeapInit ==
  /\ heapPtr = HeapStart
  /\ allocations = {}
  /\ blocks = {}
  /\ laps = 0
  /\ calls = 0

Put(addr, size) == {e \in allocations : e[1] # addr} \cup {<<addr, size>>}
OutOfMemory(addr, size) == (addr + size) % Word > HeapEnd

(* What a guest takes a successful call for: as many bytes as it asked for *)
(* at the address returned, 0 being a failure.  It is memory from the bump *)
(* pointer, at an address the guest gave, or of a call whose sums wrapped. *)
HandOut(addr, asked, from) ==
  IF addr = 0 THEN blocks
  ELSE blocks \cup {[addr |-> addr, size |-> asked, from |-> from, lap |-> laps]}

(* Both allocators take the space first and look for the end afterwards:   *)
(* size bytes at addr, where the pointer stood once it was aligned.        *)
Wraps(addr, size, asked) == addr < heapPtr \/ size < asked \/ addr + size >= Word
Serve(addr, size, asked, from) ==
  IF OutOfMemory(addr, size) THEN UNCHANGED <<allocations, blocks>>
  ELSE /\ allocations' = Put(addr, size)
       /\ blocks' = HandOut(addr, asked, from)
Bump_Late(addr, size, asked) ==
  /\ calls < MaxCalls /\ calls' = calls + 1
  /\ heapPtr' = addr
  /\ Serve(addr, size, asked, IF Wraps(addr, size, asked) THEN "wrap" ELSE "pointer")
  /\ laps' = IF Wraps(addr, size, asked) THEN laps + 1 ELSE laps
Bump(addr, size, asked) ==
  /\ calls < MaxCalls /\ calls' = calls + 1
  /\ heapPtr' = (addr + size) % Word
  /\ Serve(addr, size, asked, IF Wraps(addr, size, asked) THEN "wrap" ELSE "pointer")
  /\ laps' = IF Wraps(addr, size, asked) THEN laps + 1 ELSE laps

AllocVirtualMemory(size) == Bump(heapPtr, PageUp(size), size)
XMemAlloc(size, alignment) == Bump(AlignUp(heapPtr, alignment), size, size)

(* With an address given, the pointer stays and only the end is looked at. *)
AllocAt(base, size) ==
  /\ calls < MaxCalls /\ calls' = calls + 1
  /\ Serve(base, PageUp(size), size, "guest")
  /\ UNCHANGED <<heapPtr, laps>>

(* freeVirtualMemory and xMemFree give nothing back to the pointer.        *)
FreeVirtualMemory(addr) ==
  /\ allocations' = {e \in allocations : e[1] # addr}
  /\ UNCHANGED <<heapPtr, blocks, laps, calls>>

-----------------------------------------------------------------------------
(* Properties *)

(* Types.                                                                  *)
HeapTypeOK ==
  /\ heapPtr \in 0 .. (Word - 1)
  /\ calls \in 0 .. MaxCalls /\ laps \in Nat
  /\ blocks \subseteq [addr : Nat, size : Nat, from : {"pointer", "guest", "wrap"}, lap : Nat]
  /\ allocations \subseteq Nat \X Nat

Overlap(b, c) == b.addr < c.addr + c.size /\ c.addr < b.addr + b.size

(* The same memory is handed out twice only if a guest gave the address    *)
(* of one of the two, or if a sum wrapped round in the call that served    *)
(* one of them or between the two: not after calls that failed, which have *)
(* moved the pointer, and not after some of it was freed.                  *)
OverlapsExplained ==
  \A b, c \in blocks :
    b # c /\ Overlap(b, c)
      => b.from # "pointer" \/ c.from # "pointer" \/ b.lap # c.lap
===============================================================================
