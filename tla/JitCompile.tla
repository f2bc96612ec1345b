------------------------------- MODULE JitCompile -------------------------------
(***************************************************************************)
(* How the JIT engine translates a block: compileBlock() (jit_engine.cpp)  *)
(* takes the instructions that buildIrBlock() (ir_builder.cpp) finds at an *)
(* address, reserves a piece of the code arena for them with one           *)
(* fetch_add, and jitCompileBlock() (arm64_backend.cpp) stores their code  *)
(* there while other workers do the same beside it.                        *)
(*                                                                         *)
(* The arena is counted in 4-byte words.  An instruction is what decides   *)
(* how much code it becomes: its operation, whether the registers it names *)
(* live in ARM64 registers, and the size of its immediate.                 *)
(*                                                                         *)
(* Every worker may be at any address here.  The application gives one to  *)
(* the first worker only; threadLoop runs the others as soon as their      *)
(* context has one, and the code they would run is the code below.         *)
(***************************************************************************)
EXTENDS Naturals, FiniteSets

CONSTANTS
  Workers,          \* threads that translate
  ArenaWords,       \* m_codeArenaSize / 4
  MaxBlockInstrs,   \* kMaxBlockInstrs, 128
  CodeWords,        \* instructions in guest memory
  Code,             \* Code[a]: the instruction at guest address a
  MaxOffset         \* bound: how far the arena's offset is followed

Ops == {"AddImm", "Alu", "AluImm", "LoadByte", "Load", "Return", "Branch", "Other"}
Immediates == {"small", "word", "high", "negative"}
Instrs == [op : Ops, mapped : BOOLEAN, imm : Immediates]
Addresses == 0 .. (CodeWords - 1)
Arena == 0 .. (ArenaWords - 1)

ASSUME CodeAssumption ==
  /\ CodeWords \in Nat \ {0}
  /\ Code \in [Addresses -> Instrs]
ASSUME SizesAssumption ==
  /\ ArenaWords \in Nat
  /\ MaxBlockInstrs \in Nat \ {0}
  /\ MaxOffset \in Nat

VARIABLES
  offset,           \* m_codeArenaOffset
  arena,            \* arena[x]: "none" if word x was never stored to
  cache,            \* cache[a]: where the code of the block at a starts
  at,               \* at[w]: where worker w is in compileBlock
  pc,               \* pc[w]: the address of its block
  length,           \* length[w]: the number of instructions in it
  base,             \* base[w]: nativePtr, the start of its reservation
  index,            \* index[w]: the instruction it translates next
  cursor            \* cursor[w]: where the code of that one goes

workerVars == <<pc, length, base, index, cursor>>
vars == <<offset, arena, cache, at, workerVars>>

NotCached == ArenaWords
Goto(w, from, to) == at[w] = from /\ at' = [at EXCEPT ![w] = to]

Init ==
  /\ offset = 0
  /\ arena = [x \in Arena |-> "none"]
  /\ cache = [a \in Addresses |-> NotCached]
  /\ at = [w \in Workers |-> "idle"]
  /\ pc = [w \in Workers |-> 0]
  /\ length = [w \in Workers |-> 0]
  /\ base = [w \in Workers |-> 0]
  /\ index = [w \in Workers |-> 0]
  /\ cursor = [w \in Workers |-> 0]

-----------------------------------------------------------------------------
(* The block at an address *)

IsBranch(instr) == instr.op \in {"Branch", "Return"}

(* buildIrBlock stops behind a branch, at the end of guest memory and at   *)
(* its limit.                                                              *)
Ends(a, n) ==
  IsBranch(Code[a + n - 1]) \/ n = MaxBlockInstrs \/ a + n = CodeWords

IsLength(a, n) == Ends(a, n) /\ \A m \in 1 .. (n - 1) : ~Ends(a, m)

BuildIrBlock(w, a) ==
  /\ Goto(w, "idle", "reserve")
  /\ cache[a] = NotCached
  /\ \E n \in 1 .. (CodeWords - a) :
       IsLength(a, n) /\ length' = [length EXCEPT ![w] = n]
  /\ pc' = [pc EXCEPT ![w] = a]
  /\ UNCHANGED <<offset, arena, cache, base, index, cursor>>

-----------------------------------------------------------------------------
(* Its place in the arena *)

Reserved(n) == 8 * n
End(w) == base[w] + Reserved(length[w])

(* m_codeArenaOffset.fetch_add(); the space is gone even if it is refused. *)
Reserve_Less(w) ==
  /\ offset < MaxOffset
  /\ base' = [base EXCEPT ![w] = offset]
  /\ offset' = offset + 4 * length[w]
  /\ index' = [index EXCEPT ![w] = 1]
  /\ cursor' = [cursor EXCEPT ![w] = offset]
  /\ offset + Reserved(length[w]) <= ArenaWords
  /\ Goto(w, "reserve", "emit")
  /\ UNCHANGED <<arena, cache, pc, length>>
Reserve_Unchecked(w) ==
  /\ offset < MaxOffset
  /\ base' = [base EXCEPT ![w] = offset]
  /\ offset' = offset + Reserved(length[w])
  /\ index' = [index EXCEPT ![w] = 1]
  /\ cursor' = [cursor EXCEPT ![w] = offset]
  /\ Goto(w, "reserve", "emit")
  /\ UNCHANGED <<arena, cache, pc, length>>
Reserve(w) ==
  /\ offset < MaxOffset
  /\ base' = [base EXCEPT ![w] = offset]
  /\ offset' = offset + Reserved(length[w])
  /\ index' = [index EXCEPT ![w] = 1]
  /\ cursor' = [cursor EXCEPT ![w] = offset]
  /\ IF offset + Reserved(length[w]) <= ArenaWords
     THEN Goto(w, "reserve", "emit")
     ELSE Goto(w, "reserve", "idle")
  /\ UNCHANGED <<arena, cache, pc, length>>

-----------------------------------------------------------------------------
(* Its code *)

(* MOVZ and as many MOVK as there are halfwords up to the highest one set. *)
ImmWords(imm) == CASE imm \in {"small", "word"} -> 1 [] imm = "high" -> 2 [] imm = "negative" -> 4

(* emitIr: an instruction with a register that is not mapped becomes       *)
(* nothing, and so does one with an immediate whose case expects rb.       *)
Size(instr) ==
  CASE instr.op = "AddImm" -> IF instr.mapped /\ instr.imm = "small" THEN 1
                              ELSE ImmWords(instr.imm) + 1
    [] instr.op = "AluImm" -> 0
    [] instr.op \in {"Alu", "LoadByte"} -> IF instr.mapped THEN 1 ELSE 0
    [] instr.op = "Load" -> IF instr.mapped THEN 2 ELSE 0
    [] OTHER -> 1

Store(x, n, what) == [y \in Arena |-> IF y \in x .. (x + n - 1) THEN what ELSE arena[y]]
Current(w) == Code[pc[w] + index[w] - 1]

(* The loop leaves room for 64 bytes, or gives up...                       *)
HasRoom(w) == cursor[w] + 16 < End(w)

(* ... and adds what emitIr returns to a cursor that emitIr has moved      *)
(* already.                                                                *)
Emit_NoRoomCheck(w) ==
  /\ at[w] = "emit"
  /\ index[w] <= length[w]
  /\ arena' = Store(cursor[w], Size(Current(w)), IF Current(w).op = "Return" THEN "ret" ELSE "code")
  /\ cursor' = [cursor EXCEPT ![w] = @ + 2 * Size(Current(w))]
  /\ index' = [index EXCEPT ![w] = @ + 1]
  /\ UNCHANGED <<offset, cache, at, pc, length, base>>
Emit(w) ==
  /\ at[w] = "emit"
  /\ index[w] <= length[w]
  /\ HasRoom(w)
  /\ arena' = Store(cursor[w], Size(Current(w)), IF Current(w).op = "Return" THEN "ret" ELSE "code")
  /\ cursor' = [cursor EXCEPT ![w] = @ + 2 * Size(Current(w))]
  /\ index' = [index EXCEPT ![w] = @ + 1]
  /\ UNCHANGED <<offset, cache, at, pc, length, base>>

(* The RET behind the last instruction, moved over twice as well.          *)
EmitReturn_WhenComplete(w) ==
  /\ index[w] > length[w] \/ ~HasRoom(w)
  /\ Goto(w, "emit", "insert")
  /\ arena' = IF index[w] > length[w] THEN Store(cursor[w], 1, "ret") ELSE arena
  /\ cursor' = [cursor EXCEPT ![w] = @ + 2]
  /\ UNCHANGED <<offset, cache, pc, length, base, index>>
EmitReturn(w) ==
  /\ index[w] > length[w] \/ ~HasRoom(w)
  /\ Goto(w, "emit", "insert")
  /\ arena' = Store(cursor[w], 1, "ret")
  /\ cursor' = [cursor EXCEPT ![w] = @ + 2]
  /\ UNCHANGED <<offset, cache, pc, length, base, index>>

(* m_blockCache[guestPc] = std::move(block), under the cache lock.         *)
Insert(w) ==
  /\ Goto(w, "insert", "idle")
  /\ cache' = [cache EXCEPT ![pc[w]] = base[w]]
  /\ UNCHANGED <<offset, arena, workerVars>>

-----------------------------------------------------------------------------

Worker(w) ==
  \/ \E a \in Addresses : BuildIrBlock(w, a)
  \/ Reserve(w) \/ Emit(w) \/ EmitReturn(w) \/ Insert(w)

Next == \E w \in Workers : Worker(w)

Safety == Init /\ [][Next]_vars

-----------------------------------------------------------------------------
(* Properties *)

Active(w) == at[w] \in {"emit", "insert"}

(* Every variable keeps its type, and a worker that stores code has a      *)
(* block of at least one instruction.                                      *)
TypeOK ==
  /\ offset \in Nat
  /\ arena \in [Arena -> {"none", "code", "ret"}]
  /\ cache \in [Addresses -> Arena \cup {NotCached}]
  /\ at \in [Workers -> {"idle", "reserve", "emit", "insert"}]
  /\ pc \in [Workers -> Addresses]
  /\ length \in [Workers -> 0 .. CodeWords]
  /\ base \in [Workers -> Nat]
  /\ index \in [Workers -> Nat]
  /\ cursor \in [Workers -> Nat]
  /\ \A w \in Workers : at[w] # "idle" => length[w] > 0 /\ pc[w] + length[w] <= CodeWords

(* No store leaves the reservation of the block, and no reservation leaves *)
(* the arena: 64 bytes of room are enough although the cursor moves twice  *)
(* as far as the code is long.                                             *)
StoresAreReserved ==
  \A w \in Workers :
    /\ Active(w) => End(w) <= ArenaWords
    /\ at[w] = "emit" /\ index[w] <= length[w] /\ HasRoom(w)
         => cursor[w] + Size(Current(w)) <= End(w)
    /\ Active(w) => cursor[w] <= End(w)

(* Code that has been stored is never overwritten by another block's, with *)
(* no lock around the arena.                                               *)
CodeStays == [][\A x \in Arena : arena[x] # "none" => arena'[x] = arena[x]]_vars

(* What a worker finds in the cache is finished: there is a RET among the  *)
(* words that were reserved for the block, also when its code did not fit. *)
HasReturn(a, start) ==
  \E n \in 1 .. (CodeWords - a) :
    /\ IsLength(a, n)
    /\ \E x \in Arena : start <= x /\ x < start + Reserved(n) /\ arena[x] = "ret"

CachedBlocksEnd ==
  \A a \in Addresses : cache[a] # NotCached => HasReturn(a, cache[a])

(* A block returns to the dispatch loop: from its first word on, every     *)
(* word holds an instruction until there is a RET.                         *)
BlocksReturn ==
  \A a \in Addresses : cache[a] # NotCached =>
    \E x \in Arena : /\ cache[a] <= x /\ arena[x] = "ret"
                     /\ \A y \in cache[a] .. (x - 1) : arena[y] = "code"

===============================================================================
