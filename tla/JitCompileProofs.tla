---------------------------- MODULE JitCompileProofs ----------------------------
(***************************************************************************)
(* Theorems about JitCompile, for every guest program, arena and number of *)
(* workers: the reservations of fetch_add are enough to keep the stores of *)
(* different blocks apart.                                                 *)
(***************************************************************************)
EXTENDS JitCompile, TLAPS

(* Every reservation in use lies in the used part of the arena, the cursor *)
(* has room for the RET, and no two of them overlap.                       *)
Places ==
  /\ \A w \in Workers : Active(w) =>
       /\ End(w) <= ArenaWords /\ End(w) <= offset
       /\ base[w] <= cursor[w] /\ cursor[w] <= End(w)
  /\ \A w \in Workers : at[w] = "emit" => index[w] >= 1 /\ cursor[w] + 2 <= End(w)
  /\ \A w, v \in Workers : w # v /\ Active(w) /\ Active(v) =>
       End(w) <= base[v] \/ End(v) <= base[w]

(* What is reserved but not stored to yet, and what is not reserved, is    *)
(* still as mmap() left it.                                                *)
Blank ==
  /\ \A x \in Arena : offset <= x => arena[x] = "none"
  /\ \A w \in Workers : \A x \in Arena :
       at[w] = "emit" /\ cursor[w] <= x /\ x < End(w) => arena[x] = "none"

IInv == TypeOK /\ Places /\ Blank

(* No instruction becomes more than five words.                            *)
LEMMA SizeBound == ASSUME NEW i \in Instrs PROVE Size(i) \in 0 .. 5
BY DEF Size, ImmWords, Instrs, Ops, Immediates

LEMMA EndType == ASSUME TypeOK, NEW w \in Workers PROVE End(w) \in Nat /\ End(w) = base[w] + 8 * length[w]
BY CodeAssumption DEF TypeOK, End, Reserved

(* A worker that may translate an instruction translates one of its block, *)
(* and stores it inside its reservation with room left for the RET.        *)
LEMMA EmitFits ==
  ASSUME IInv, NEW w \in Workers, at[w] = "emit", index[w] <= length[w], HasRoom(w)
  PROVE  /\ Current(w) \in Instrs
         /\ Size(Current(w)) \in 0 .. 5
         /\ cursor[w] + 2 * Size(Current(w)) + 2 <= End(w)
<1>1. pc[w] + index[w] - 1 \in Addresses
  <2>1. pc[w] \in Nat /\ index[w] \in Nat /\ index[w] >= 1
    BY CodeAssumption DEF IInv, TypeOK, Places, Addresses
  <2>2. length[w] \in Nat /\ pc[w] + length[w] <= CodeWords
    BY CodeAssumption DEF IInv, TypeOK
  <2> QED
    BY <2>1, <2>2, CodeAssumption DEF Addresses
<1>2. Current(w) \in Instrs
  BY <1>1, CodeAssumption DEF Current
<1>3. Size(Current(w)) \in 0 .. 5
  BY <1>2, SizeBound
<1> QED
  BY <1>2, <1>3, EndType DEF HasRoom, IInv, TypeOK

LEMMA InitIInv == Init => IInv
<1> SUFFICES ASSUME Init PROVE IInv
  OBVIOUS
<1>1. TypeOK
  BY CodeAssumption, SizesAssumption DEF Init, TypeOK, Addresses, NotCached
<1> QED
  BY <1>1 DEF Init, IInv, Places, Blank, Active

-----------------------------------------------------------------------------
(* One lemma per action *)

LEMMA BuildStep ==
  ASSUME IInv, NEW w \in Workers, NEW a \in Addresses, BuildIrBlock(w, a)
  PROVE  IInv' /\ UNCHANGED arena
<1>1. PICK n \in 1 .. (CodeWords - a) : length' = [length EXCEPT ![w] = n]
  BY DEF BuildIrBlock
<1>2. a \in Nat /\ a < CodeWords
  BY CodeAssumption DEF Addresses
<1>3. TypeOK'
  BY <1>1, <1>2, CodeAssumption DEF BuildIrBlock, Goto, IInv, TypeOK
<1>4. \A v \in Workers : Active(v)' => v # w /\ Active(v) /\ length'[v] = length[v]
  BY <1>1 DEF BuildIrBlock, Goto, Active, IInv, TypeOK
<1>5. \A v \in Workers : Active(v)' => End(v)' = End(v) /\ (at[v] = at'[v])
  BY <1>4 DEF BuildIrBlock, Goto, End, Reserved, IInv, TypeOK
<1>6. Places'
  BY <1>4, <1>5 DEF BuildIrBlock, IInv, Places, Active
<1>7. Blank'
  BY <1>4, <1>5 DEF BuildIrBlock, IInv, Blank, Active
<1> QED
  BY <1>3, <1>6, <1>7 DEF IInv, BuildIrBlock

LEMMA ReserveStep ==
  ASSUME IInv, NEW w \in Workers, Reserve(w)
  PROVE  IInv' /\ UNCHANGED arena
<1>1. length[w] \in Nat /\ length[w] > 0 /\ offset \in Nat /\ offset' = offset + 8 * length[w]
  BY CodeAssumption DEF Reserve, Goto, Reserved, IInv, TypeOK
<1>2. TypeOK'
  <2>1. offset' \in Nat /\ base' \in [Workers -> Nat] /\ index' \in [Workers -> Nat]
        /\ cursor' \in [Workers -> Nat]
    BY <1>1 DEF Reserve, IInv, TypeOK
  <2>2. at' \in [Workers -> {"idle", "reserve", "emit", "insert"}]
    BY DEF Reserve, Goto, IInv, TypeOK
  <2>3. \A v \in Workers : at'[v] # "idle" => at[v] # "idle"
    BY DEF Reserve, Goto, IInv, TypeOK
  <2> QED
    BY <2>1, <2>2, <2>3 DEF Reserve, IInv, TypeOK
<1>3. \A v \in Workers : v # w => at'[v] = at[v] /\ base'[v] = base[v] /\ cursor'[v] = cursor[v]
                                  /\ index'[v] = index[v] /\ End(v)' = End(v)
                                  /\ Active(v)' = Active(v)
  BY DEF Reserve, Goto, End, Active, IInv, TypeOK
<1>4. Active(w)' => /\ at'[w] = "emit" /\ index'[w] = 1
                    /\ base'[w] = offset /\ cursor'[w] = offset
                    /\ End(w)' = offset' /\ offset' <= ArenaWords
  BY <1>1 DEF Reserve, Goto, End, Reserved, Active, IInv, TypeOK
<1>5. \A v \in Workers : v # w /\ Active(v) => End(v) <= offset
  BY DEF IInv, Places
<1>6. ArenaWords \in Nat
  BY SizesAssumption
<1>7. \A v \in Workers : End(v) \in Nat
  BY EndType DEF IInv
<1>8. Places'
  <2>1. \A v \in Workers : Active(v)' =>
          /\ End(v)' <= ArenaWords /\ End(v)' <= offset'
          /\ base'[v] <= cursor'[v] /\ cursor'[v] <= End(v)'
    BY <1>1, <1>3, <1>4, <1>6, <1>7 DEF IInv, Places
  <2>2. \A v \in Workers : at'[v] = "emit" => index'[v] >= 1 /\ cursor'[v] + 2 <= End(v)'
    <3> SUFFICES ASSUME NEW v \in Workers, at'[v] = "emit"
                 PROVE  index'[v] >= 1 /\ cursor'[v] + 2 <= End(v)'
      OBVIOUS
    <3>1. CASE v = w
      BY <3>1, <1>1, <1>4 DEF Active
    <3>2. CASE v # w
      BY <3>2, <1>3 DEF IInv, Places
    <3> QED
      BY <3>1, <3>2
  <2>3. \A u, v \in Workers : u # v /\ Active(u)' /\ Active(v)' =>
          End(u)' <= base'[v] \/ End(v)' <= base'[u]
    BY <1>3, <1>4, <1>5 DEF IInv, Places
  <2> QED
    BY <2>1, <2>2, <2>3 DEF Places
<1>9. Blank'
  <2>1. UNCHANGED arena
    BY DEF Reserve
  <2>2. \A x \in Arena : x \in Nat
    BY <1>6 DEF Arena
  <2>3. \A x \in Arena : offset' <= x => arena'[x] = "none"
    BY <2>1, <2>2, <1>1 DEF IInv, Blank
  <2>4. \A v \in Workers : \A x \in Arena :
          at'[v] = "emit" /\ cursor'[v] <= x /\ x < End(v)' => arena'[x] = "none"
    BY <2>1, <1>3, <1>4 DEF IInv, Blank, Active
  <2> QED
    BY <2>3, <2>4 DEF Blank
<1> QED
  BY <1>2, <1>8, <1>9 DEF IInv, Reserve

(* What Emit and EmitReturn have in common: n words are stored at the      *)
(* cursor of w, which moves by m.                                          *)
LEMMA StoreStep ==
  ASSUME IInv, NEW w \in Workers, at[w] = "emit",
         NEW n \in Nat, NEW m \in Nat, n <= m, cursor[w] + m <= End(w),
         NEW what \in {"code", "ret"}, arena' = Store(cursor[w], n, what),
         cursor' = [cursor EXCEPT ![w] = @ + m],
         at' = [at EXCEPT ![w] = at'[w]],
         at'[w] = "insert" \/ (at'[w] = "emit" /\ cursor[w] + m + 2 <= End(w) /\ index'[w] >= 1),
         \A v \in Workers : v # w => index'[v] = index[v],
         index' \in [Workers -> Nat],
         UNCHANGED <<offset, cache, pc, length, base>>
  PROVE  IInv' /\ \A x \in Arena : arena[x] # "none" => arena'[x] = arena[x]
<1>1. cursor[w] \in Nat /\ offset \in Nat /\ ArenaWords \in Nat /\ base[w] \in Nat
  BY SizesAssumption DEF IInv, TypeOK
<1>2. \A v \in Workers : End(v) \in Nat /\ End(v)' = End(v)
  BY EndType DEF IInv, End
<1>3. cursor'[w] = cursor[w] + m /\ \A v \in Workers : v # w => cursor'[v] = cursor[v] /\ at'[v] = at[v]
  BY DEF IInv, TypeOK
<1>4. \A v \in Workers : Active(v)' => Active(v)
  BY <1>3 DEF Active
<1>5. \A x \in Arena : x \in Nat
  BY <1>1 DEF Arena
<1>6. \A x \in Arena : arena'[x] = IF cursor[w] <= x /\ x < cursor[w] + n THEN what ELSE arena[x]
  BY <1>1, <1>5 DEF Store
<1>7. Active(w) /\ End(w) <= ArenaWords /\ End(w) <= offset /\ base[w] <= cursor[w]
  BY DEF IInv, Places, Active
<1>8. TypeOK'
  <2>1. arena' \in [Arena -> {"none", "code", "ret"}]
    BY DEF Store, IInv, TypeOK
  <2>2. cursor' \in [Workers -> Nat] /\ at' \in [Workers -> {"idle", "reserve", "emit", "insert"}]
    BY <1>1 DEF IInv, TypeOK
  <2>3. \A v \in Workers : at'[v] # "idle" => at[v] # "idle"
    BY <1>3
  <2> QED
    BY <2>1, <2>2, <2>3 DEF IInv, TypeOK
<1>9. Places'
  <2>1. \A v \in Workers : Active(v)' =>
          /\ End(v)' <= ArenaWords /\ End(v)' <= offset'
          /\ base'[v] <= cursor'[v] /\ cursor'[v] <= End(v)'
    BY <1>1, <1>2, <1>3, <1>4, <1>7 DEF IInv, Places
  <2>2. \A v \in Workers : at'[v] = "emit" => index'[v] >= 1 /\ cursor'[v] + 2 <= End(v)'
    BY <1>2, <1>3 DEF IInv, Places
  <2>3. \A u, v \in Workers : u # v /\ Active(u)' /\ Active(v)' =>
          End(u)' <= base'[v] \/ End(v)' <= base'[u]
    BY <1>2, <1>4 DEF IInv, Places
  <2> QED
    BY <2>1, <2>2, <2>3 DEF Places
<1>10. Blank'
  <2>1. \A x \in Arena : offset' <= x => arena'[x] = "none"
    BY <1>1, <1>2, <1>5, <1>6, <1>7 DEF IInv, Blank
  <2>2. ASSUME NEW v \in Workers, NEW x \in Arena,
               at'[v] = "emit", cursor'[v] <= x, x < End(v)'
        PROVE  arena'[x] = "none"
    <3>1. CASE v = w
      BY <2>2, <3>1, <1>1, <1>2, <1>3, <1>5, <1>6 DEF IInv, Blank
    <3>2. CASE v # w
      <4>1. Active(v) /\ at[v] = "emit" /\ cursor'[v] = cursor[v] /\ base[v] <= cursor[v]
            /\ cursor[v] \in Nat /\ base[v] \in Nat
        BY <2>2, <3>2, <1>3 DEF Active, IInv, Places, TypeOK
      <4>2. End(w) <= base[v] \/ End(v) <= base[w]
        BY <3>2, <4>1, <1>7 DEF IInv, Places
      <4>3. arena[x] = "none"
        BY <2>2, <4>1, <1>2 DEF IInv, Blank
      <4> QED
        BY <2>2, <4>1, <4>2, <4>3, <1>1, <1>2, <1>5, <1>6, <1>7
    <3> QED
      BY <3>1, <3>2
  <2> QED
    BY <2>1, <2>2 DEF Blank
<1>11. \A x \in Arena : arena[x] # "none" => arena'[x] = arena[x]
  BY <1>1, <1>2, <1>5, <1>6 DEF IInv, Blank
<1> QED
  BY <1>8, <1>9, <1>10, <1>11 DEF IInv

LEMMA EmitStep ==
  ASSUME IInv, NEW w \in Workers, Emit(w)
  PROVE  IInv' /\ \A x \in Arena : arena[x] # "none" => arena'[x] = arena[x]
<1>1. at[w] = "emit" /\ index[w] <= length[w] /\ HasRoom(w)
  BY DEF Emit
<1>2. Size(Current(w)) \in 0 .. 5 /\ cursor[w] + 2 * Size(Current(w)) + 2 <= End(w)
  BY <1>1, EmitFits
<1> DEFINE n == Size(Current(w))
           what == IF Current(w).op = "Return" THEN "ret" ELSE "code"
<1>3. arena' = Store(cursor[w], n, what) /\ what \in {"code", "ret"}
  BY DEF Emit
<1>4. cursor' = [cursor EXCEPT ![w] = @ + 2 * n] /\ UNCHANGED <<offset, cache, pc, length, base>>
  BY DEF Emit
<1>5. at' = [at EXCEPT ![w] = at'[w]] /\ at'[w] = "emit"
  BY <1>1 DEF Emit, IInv, TypeOK
<1>6. index' \in [Workers -> Nat] /\ index'[w] >= 1 /\ \A v \in Workers : v # w => index'[v] = index[v]
  BY DEF Emit, IInv, TypeOK
<1>7. cursor[w] \in Nat /\ End(w) \in Nat
  BY EndType DEF IInv, TypeOK
<1> HIDE DEF n, what
<1>8. n \in Nat /\ 2 * n \in Nat /\ n <= 2 * n /\ cursor[w] + 2 * n <= End(w)
      /\ cursor[w] + 2 * n + 2 <= End(w)
  BY <1>2, <1>7 DEF n
<1> QED
  BY <1>1, <1>3, <1>4, <1>5, <1>6, <1>8, StoreStep

LEMMA EmitReturnStep ==
  ASSUME IInv, NEW w \in Workers, EmitReturn(w)
  PROVE  IInv' /\ \A x \in Arena : arena[x] # "none" => arena'[x] = arena[x]
<1>1. at[w] = "emit" /\ cursor[w] + 2 <= End(w)
  BY DEF EmitReturn, Goto, IInv, Places
<1>2. arena' = Store(cursor[w], 1, "ret") /\ cursor' = [cursor EXCEPT ![w] = @ + 2]
      /\ UNCHANGED <<offset, cache, pc, length, base, index>>
  BY DEF EmitReturn
<1>3. at' = [at EXCEPT ![w] = at'[w]] /\ at'[w] = "insert"
  BY DEF EmitReturn, Goto, IInv, TypeOK
<1>4. index' \in [Workers -> Nat]
  BY <1>2 DEF IInv, TypeOK
<1>5. 1 \in Nat /\ 2 \in Nat /\ 1 <= 2 /\ "ret" \in {"code", "ret"}
  OBVIOUS
<1>6. UNCHANGED <<offset, cache, pc, length, base>> /\ \A v \in Workers : v # w => index'[v] = index[v]
  BY <1>2
<1> QED
  BY <1>1, <1>2, <1>3, <1>4, <1>5, <1>6, StoreStep

LEMMA InsertStep ==
  ASSUME IInv, NEW w \in Workers, Insert(w)
  PROVE  IInv' /\ UNCHANGED arena
<1>1. length[w] > 0 /\ length[w] \in Nat /\ base[w] \in Nat /\ End(w) <= ArenaWords
  BY CodeAssumption DEF Insert, Goto, IInv, TypeOK, Places, Active
<1>2. base[w] \in Arena
  BY <1>1, SizesAssumption DEF End, Reserved, Arena
<1>3. TypeOK'
  <2>1. cache' \in [Addresses -> Arena \cup {NotCached}]
    BY <1>2 DEF Insert, IInv, TypeOK
  <2>2. at' \in [Workers -> {"idle", "reserve", "emit", "insert"}]
        /\ \A v \in Workers : at'[v] # "idle" => at[v] # "idle"
    BY DEF Insert, Goto, IInv, TypeOK
  <2> QED
    BY <2>1, <2>2 DEF Insert, workerVars, IInv, TypeOK
<1>4. \A v \in Workers : End(v)' = End(v)
  BY DEF Insert, workerVars, End
<1>5. \A v \in Workers : Active(v)' => Active(v) /\ at'[v] = at[v]
  BY DEF Insert, Goto, Active, IInv, TypeOK
<1>6. Places'
  BY <1>4, <1>5 DEF Insert, workerVars, IInv, Places, Active
<1>7. Blank'
  BY <1>4, <1>5 DEF Insert, workerVars, IInv, Blank, Active
<1> QED
  BY <1>3, <1>6, <1>7 DEF IInv, Insert

-----------------------------------------------------------------------------
(* The invariant and what follows from it *)

CodeStaysStep == \A x \in Arena : arena[x] # "none" => arena'[x] = arena[x]

LEMMA IInvStep == IInv /\ [Next]_vars => IInv' /\ CodeStaysStep
<1> SUFFICES ASSUME IInv, [Next]_vars PROVE IInv' /\ CodeStaysStep
  OBVIOUS
<1>1. ASSUME NEW w \in Workers, Worker(w) PROVE IInv' /\ CodeStaysStep
  <2>1. ASSUME NEW a \in Addresses, BuildIrBlock(w, a) PROVE IInv' /\ CodeStaysStep
    BY <2>1, BuildStep DEF CodeStaysStep
  <2>2. CASE Reserve(w)
    BY <2>2, ReserveStep DEF CodeStaysStep
  <2>3. CASE Emit(w)
    BY <2>3, EmitStep DEF CodeStaysStep
  <2>4. CASE EmitReturn(w)
    BY <2>4, EmitReturnStep DEF CodeStaysStep
  <2>5. CASE Insert(w)
    BY <2>5, InsertStep DEF CodeStaysStep
  <2> QED
    BY <1>1, <2>1, <2>2, <2>3, <2>4, <2>5 DEF Worker
<1>2. CASE UNCHANGED vars
  <2>1. \A w \in Workers : End(w)' = End(w) /\ Active(w)' = Active(w)
    BY <1>2 DEF vars, workerVars, End, Active
  <2> QED
    BY <1>2, <2>1 DEF vars, workerVars, IInv, TypeOK, Places, Blank, CodeStaysStep
<1> QED
  BY <1>1, <1>2 DEF Next

LEMMA Invariant == Safety => []IInv
BY InitIInv, IInvStep, PTL DEF Safety

(* Stores stay inside the reservation of their block and of the arena, for *)
(* every program, however many workers translate and however little of the *)
(* arena is left.                                                          *)
THEOREM StoresStayInside == Safety => []StoresAreReserved
<1>1. IInv => StoresAreReserved
  <2> SUFFICES ASSUME IInv, NEW w \in Workers
               PROVE  /\ Active(w) => End(w) <= ArenaWords
                      /\ at[w] = "emit" /\ index[w] <= length[w] /\ HasRoom(w)
                           => cursor[w] + Size(Current(w)) <= End(w)
                      /\ Active(w) => cursor[w] <= End(w)
    BY DEF StoresAreReserved
  <2>1. ASSUME at[w] = "emit", index[w] <= length[w], HasRoom(w)
        PROVE  cursor[w] + Size(Current(w)) <= End(w)
    BY <2>1, EmitFits, EndType DEF IInv, TypeOK
  <2> QED
    BY <2>1 DEF IInv, Places
<1> QED
  BY <1>1, Invariant, PTL

(* No word of code is ever overwritten.                                    *)
THEOREM CodeIsNeverOverwritten == Safety => CodeStays
<1>1. IInv /\ [Next]_vars => [CodeStaysStep]_vars
  BY IInvStep
<1> QED
  BY <1>1, Invariant, PTL DEF Safety, CodeStays, CodeStaysStep

-----------------------------------------------------------------------------
(* A block in the cache has a RET of its own: it was stored before the     *)
(* block was published, and is never overwritten.                          *)
ReturnInv ==
  /\ \A w \in Workers : at[w] # "idle" =>
       length[w] \in 1 .. (CodeWords - pc[w]) /\ IsLength(pc[w], length[w])
  /\ \A w \in Workers : at[w] = "insert" => HasReturn(pc[w], base[w])
  /\ CachedBlocksEnd

(* HasReturn of the next state.                                            *)
WillReturn(a, start) ==
  \E n \in 1 .. (CodeWords - a) :
    /\ IsLength(a, n)
    /\ \E x \in Arena : start <= x /\ x < start + Reserved(n) /\ arena'[x] = "ret"

LEMMA ReturnStays ==
  ASSUME CodeStaysStep, NEW a, NEW start, HasReturn(a, start)
  PROVE  WillReturn(a, start)
BY DEF CodeStaysStep, HasReturn, WillReturn

(* The invariant of the next state, from facts about that state.           *)
LEMMA ReturnNext ==
  ASSUME \A w \in Workers : at'[w] # "idle" =>
           length'[w] \in 1 .. (CodeWords - pc'[w]) /\ IsLength(pc'[w], length'[w]),
         \A w \in Workers : at'[w] = "insert" => WillReturn(pc'[w], base'[w]),
         \A a \in Addresses : cache'[a] # NotCached => WillReturn(a, cache'[a])
  PROVE  ReturnInv'
BY DEF ReturnInv, CachedBlocksEnd, HasReturn, WillReturn, NotCached, IsLength, Ends, IsBranch,
   Reserved

LEMMA ReturnStep == IInv /\ ReturnInv /\ [Next]_vars => ReturnInv'
<1> SUFFICES ASSUME IInv, ReturnInv, [Next]_vars PROVE ReturnInv'
  OBVIOUS
<1>0. TypeOK /\ CodeStaysStep
  BY IInvStep DEF IInv
<1>1. ASSUME UNCHANGED cache PROVE \A a \in Addresses : cache'[a] # NotCached => WillReturn(a, cache'[a])
  BY <1>0, <1>1, ReturnStays DEF ReturnInv, CachedBlocksEnd
<1>2. ASSUME NEW w \in Workers, NEW a \in Addresses, BuildIrBlock(w, a) PROVE ReturnInv'
  <2>1. PICK n \in 1 .. (CodeWords - a) : IsLength(a, n) /\ length' = [length EXCEPT ![w] = n]
    BY <1>2 DEF BuildIrBlock
  <2>2. /\ at' = [at EXCEPT ![w] = "reserve"] /\ pc' = [pc EXCEPT ![w] = a]
        /\ UNCHANGED <<base, cache>>
    BY <1>2 DEF BuildIrBlock, Goto
  <2>3. \A v \in Workers : at'[v] # "idle" =>
          length'[v] \in 1 .. (CodeWords - pc'[v]) /\ IsLength(pc'[v], length'[v])
    BY <1>0, <2>1, <2>2 DEF ReturnInv, TypeOK
  <2>4. \A v \in Workers : at'[v] = "insert" => WillReturn(pc'[v], base'[v])
    BY <1>0, <2>2, ReturnStays DEF ReturnInv, TypeOK
  <2> QED
    BY <1>1, <2>2, <2>3, <2>4, ReturnNext
<1>3. ASSUME NEW w \in Workers, Reserve(w) PROVE ReturnInv'
  <2>1. /\ \A v \in Workers \ {w} : at'[v] = at[v] /\ base'[v] = base[v]
        /\ at[w] = "reserve" /\ at'[w] \in {"emit", "idle"}
        /\ UNCHANGED <<pc, length, cache>>
    BY <1>0, <1>3 DEF Reserve, Goto, TypeOK
  <2>2. \A v \in Workers : at'[v] = "insert" => WillReturn(pc'[v], base'[v])
    BY <1>0, <2>1, ReturnStays DEF ReturnInv
  <2> QED
    BY <1>1, <2>1, <2>2, ReturnNext DEF ReturnInv
<1>4. ASSUME NEW w \in Workers, Emit(w) PROVE ReturnInv'
  <2>1. UNCHANGED <<at, pc, length, base, cache>>
    BY <1>4 DEF Emit
  <2> QED
    BY <1>0, <1>1, <2>1, ReturnStays, ReturnNext DEF ReturnInv
<1>5. ASSUME NEW w \in Workers, EmitReturn(w) PROVE ReturnInv'
  <2>1. /\ at[w] = "emit" /\ at' = [at EXCEPT ![w] = "insert"]
        /\ arena' = Store(cursor[w], 1, "ret")
        /\ UNCHANGED <<pc, length, base, cache>>
    BY <1>5 DEF EmitReturn, Goto
  <2>2. /\ base[w] <= cursor[w] /\ cursor[w] + 2 <= End(w) /\ End(w) <= ArenaWords
        /\ End(w) \in Nat /\ End(w) = base[w] + Reserved(length[w])
        /\ base[w] \in Nat /\ cursor[w] \in Nat
    BY <1>0, <2>1, EndType DEF IInv, Places, Active, TypeOK, End
  <2>3. cursor[w] \in Arena /\ arena'[cursor[w]] = "ret" /\ cursor[w] < base[w] + Reserved(length[w])
    BY <2>1, <2>2, SizesAssumption DEF Arena, Store
  <2>4. WillReturn(pc[w], base[w])
    BY <2>1, <2>2, <2>3 DEF ReturnInv, WillReturn
  <2>5. \A v \in Workers : at'[v] = "insert" => WillReturn(pc'[v], base'[v])
    BY <1>0, <2>1, <2>4, ReturnStays DEF ReturnInv, TypeOK
  <2>6. \A v \in Workers : at'[v] # "idle" => at[v] # "idle"
    BY <1>0, <2>1 DEF TypeOK
  <2> QED
    BY <1>1, <2>1, <2>5, <2>6, ReturnNext DEF ReturnInv
<1>6. ASSUME NEW w \in Workers, Insert(w) PROVE ReturnInv'
  <2>1. /\ at[w] = "insert" /\ at' = [at EXCEPT ![w] = "idle"]
        /\ cache' = [cache EXCEPT ![pc[w]] = base[w]]
        /\ UNCHANGED <<pc, length, base>>
    BY <1>6 DEF Insert, Goto, workerVars
  <2>2. \A a \in Addresses : cache'[a] # NotCached => WillReturn(a, cache'[a])
    BY <1>0, <2>1, ReturnStays DEF ReturnInv, CachedBlocksEnd, TypeOK
  <2>4. \A v \in Workers : at'[v] = "insert" => WillReturn(pc'[v], base'[v])
    BY <1>0, <2>1, ReturnStays DEF ReturnInv, TypeOK
  <2>5. \A v \in Workers : at'[v] # "idle" => at[v] # "idle"
    BY <1>0, <2>1 DEF TypeOK
  <2> QED
    BY <2>1, <2>2, <2>4, <2>5, ReturnNext DEF ReturnInv
<1>7. CASE UNCHANGED vars
  BY <1>0, <1>1, <1>7, ReturnStays, ReturnNext DEF vars, workerVars, ReturnInv
<1> QED
  BY <1>2, <1>3, <1>4, <1>5, <1>6, <1>7 DEF Next, Worker

(* A block that workers find in the cache ends in a RET of its own, also   *)
(* when its instructions did not fit its reservation.                      *)
THEOREM CachedBlocksAreFinished == Safety => []CachedBlocksEnd
<1>1. Init => ReturnInv
  BY DEF Init, ReturnInv, CachedBlocksEnd
<1>2. ReturnInv => CachedBlocksEnd
  BY DEF ReturnInv
<1> QED
  BY <1>1, <1>2, ReturnStep, Invariant, PTL DEF Safety
===============================================================================
