-------------------------- MODULE KernelObjectsProofs --------------------------
(***************************************************************************)
(* Mutual exclusion, wakeups and auto-reset events of the HLE kernel, for  *)
(* every number of guests and handles.  The invariant that carries them    *)
(* says of every guest what the step it is at entitles it to (GuestInv),   *)
(* and of every handle that one not allocated yet is clean, and that an    *)
(* auto-reset event that is signaled has let nobody through (HandleInv).   *)
(***************************************************************************)
EXTENDS KernelObjects, SequenceTheorems, TLAPS

Typed ==
  /\ next \in 0 .. MaxHandles
  /\ kind \in [Handles -> Kinds]
  /\ signaled \in [Handles -> BOOLEAN]
  /\ autoReset \in [Handles -> BOOLEAN]
  /\ host \in [Handles -> Guests \cup {NoGuest}]
  /\ recursion \in [Handles -> 0 .. 1]
  /\ woken \in [Handles -> 0 .. 2]
  /\ at \in [Guests -> Ats]
  /\ list \in [Guests -> Seq(Handles)]
  /\ owned \in [Guests -> SUBSET Handles]
  /\ timeout \in [Guests -> Timeouts]
  /\ mode \in [Guests -> {"single", "all", "any"}]

(* A guest in a call has a handle to work on.                              *)
Busy(g) == (at[g] = "idle") <=> (list[g] = <<>>)

Holds(g, h) == host[h] = g /\ recursion[h] = 0

GuestInv(g) ==
  /\ Busy(g)
  /\ at[g] \in {"event", "asleep", "mutex"} =>
       kind[Target(g)] = IF at[g] = "mutex" THEN "mutex" ELSE "event"
  /\ at[g] = "asleep" => ~signaled[Target(g)]
  /\ at[g] \in {"locked", "unlock"} => Holds(g, Target(g))
  /\ \A h \in owned[g] : host[h] = g /\ recursion[h] = 1

HandleInv(h) ==
  /\ h > next => kind[h] = "none" /\ host[h] = NoGuest /\ woken[h] = 0
  /\ host[h] = NoGuest => recursion[h] = 0
  /\ kind[h] = "event" /\ autoReset[h] => woken[h] <= 1 /\ (signaled[h] => woken[h] = 0)

IInv == Typed /\ (\A g \in Guests : GuestInv(g)) /\ (\A h \in Handles : HandleInv(h))

(* The handle that a guest in a call is working on.                        *)
LEMMA TargetType ==
  ASSUME Typed, NEW g \in Guests, list[g] # <<>>
  PROVE  Target(g) \in Handles
BY HeadTailProperties DEF Typed, Target

(* The end of a wait, or of one object of several: the guest leaves, or    *)
(* goes on to look its next handle up, and no other guest moves.           *)
LEMMA ReturnFacts ==
  ASSUME Typed, NEW g \in Guests, NEW result, list[g] # <<>>, Return(g, result)
  PROVE  /\ at' \in [Guests -> Ats] /\ list' \in [Guests -> Seq(Handles)]
         /\ timeout' \in [Guests -> Timeouts] /\ mode' \in [Guests -> {"single", "all", "any"}]
         /\ at'[g] \in {"idle", "lookup"} /\ Busy(g)'
         /\ \A f \in Guests \ {g} : at'[f] = at[f] /\ list'[f] = list[f]
<1> DEFINE ends == Len(list[g]) = 1 \/ (mode[g] = "any" /\ result = "success")
<1>1. /\ at' = [at EXCEPT ![g] = IF ends THEN "idle" ELSE "lookup"]
      /\ list' = [list EXCEPT ![g] = IF ends THEN <<>> ELSE Tail(@)]
      /\ timeout' = [timeout EXCEPT ![g] = IF ends THEN "zero" ELSE @]
      /\ mode' = [mode EXCEPT ![g] = IF ends THEN "single" ELSE @]
  BY DEF Return
<1>2. /\ list[g] \in Seq(Handles) /\ Len(list[g]) \in Nat /\ Len(list[g]) # 0
  BY EmptySeq, LenProperties DEF Typed
<1>3. Tail(list[g]) \in Seq(Handles) /\ Len(Tail(list[g])) = Len(list[g]) - 1
  BY <1>2, HeadTailProperties
<1>4. Len(list[g]) # 1 => Tail(list[g]) # <<>>
  <2> DEFINE t == Tail(list[g])
  <2>1. t \in Seq(Handles) /\ Len(t) = Len(list[g]) - 1
    BY <1>3
  <2> HIDE DEF t
  <2>2. (t = <<>>) <=> (Len(t) = 0)
    BY <2>1, EmptySeq
  <2>3. Len(list[g]) # 1 => t # <<>>
    BY <1>2, <2>1, <2>2
  <2> QED
    BY <2>3 DEF t
<1>5. ~ends => Tail(list[g]) # <<>>
  BY <1>4
<1>a. <<>> \in Seq(Handles)
  BY EmptySeq
<1> HIDE DEF ends
<1>6. at' \in [Guests -> Ats] /\ at'[g] = IF ends THEN "idle" ELSE "lookup"
  BY <1>1 DEF Typed, Ats
<1>7. /\ list' \in [Guests -> Seq(Handles)]
      /\ list'[g] = IF ends THEN <<>> ELSE Tail(list[g])
  BY <1>1, <1>3, <1>a DEF Typed
<1>8. timeout' \in [Guests -> Timeouts] /\ mode' \in [Guests -> {"single", "all", "any"}]
  BY <1>1 DEF Typed, Timeouts
<1>9. \A f \in Guests \ {g} : at'[f] = at[f] /\ list'[f] = list[f]
  BY <1>1 DEF Typed
<1> QED
  BY <1>5, <1>6, <1>7, <1>8, <1>9 DEF Busy

(* A guest that does not move, while the handle it works on and those it   *)
(* owns stay as they are, keeps its part of the invariant.                 *)
SameHandle(h) ==
  /\ kind'[h] = kind[h] /\ signaled'[h] = signaled[h]
  /\ host'[h] = host[h] /\ recursion'[h] = recursion[h]

LEMMA Bystander ==
  ASSUME IInv, NEW f \in Guests,
         at'[f] = at[f], list'[f] = list[f], owned'[f] = owned[f],
         at[f] # "idle" => SameHandle(Target(f)),
         \A h \in owned[f] : SameHandle(h)
  PROVE  GuestInv(f)'
<1>1. GuestInv(f) /\ owned[f] \subseteq Handles
  BY DEF IInv, Typed
<1>2. Target(f)' = Target(f)
  BY DEF Target
<1> QED
  BY <1>1, <1>2 DEF GuestInv, Busy, SameHandle, Holds

-----------------------------------------------------------------------------
(* Creating and closing                                                    *)

(* A handle that is about to be allocated: nobody works on it or owns it.  *)
LEMMA Fresh ==
  ASSUME IInv, next < MaxHandles
  PROVE  /\ next + 1 \in Handles /\ next + 1 > next
         /\ kind[next + 1] = "none" /\ host[next + 1] = NoGuest /\ recursion[next + 1] = 0
         /\ woken[next + 1] = 0
         /\ \A g \in Guests : next + 1 \notin owned[g]
         /\ \A g \in Guests : at[g] \in {"event", "asleep", "mutex", "locked", "unlock"} => Target(g) # next + 1
<1>1. next + 1 \in Handles /\ next + 1 > next
  BY HandlesAssumption DEF IInv, Typed, Handles
<1>2. HandleInv(next + 1)
  BY <1>1 DEF IInv
<1>3. /\ kind[next + 1] = "none" /\ host[next + 1] = NoGuest /\ recursion[next + 1] = 0
      /\ woken[next + 1] = 0
  BY <1>1, <1>2 DEF HandleInv
<1>4. \A g \in Guests : NoGuest # g
  BY GuestsAssumption
<1>5. \A g \in Guests : GuestInv(g)
  BY DEF IInv
<1> QED
  BY <1>1, <1>3, <1>4, <1>5 DEF GuestInv, Holds

(* Initially nothing exists and every guest is outside the kernel.         *)
LEMMA InitInv == Init => IInv
<1> SUFFICES ASSUME Init PROVE IInv
  OBVIOUS
<1>1. Typed
  BY EmptySeq, HandlesAssumption DEF Init, Typed, Kinds, Ats, Timeouts, Handles
<1>2. \A g \in Guests : GuestInv(g)
  BY DEF Init, GuestInv, Busy
<1>3. \A h \in Handles : HandleInv(h)
  BY DEF Init, HandleInv
<1> QED
  BY <1>1, <1>2, <1>3 DEF IInv

LEMMA CreateInv ==
  ASSUME IInv, NEW g \in Guests,
         NEW k \in {"thread", "semaphore"}, Create(k),
         UNCHANGED <<signaled, autoReset, host, recursion, waitVars, at, history>>
  PROVE  IInv'
<1> USE DEF Create, history, waitVars
<1>1. next < MaxHandles
  OBVIOUS
<1>2. Typed'
  BY <1>1, HandlesAssumption DEF IInv, Typed, Kinds, Handles
<1>3. ASSUME NEW f \in Guests PROVE GuestInv(f)'
  <2>1. GuestInv(f)
    BY DEF IInv
  <2>2. Target(f)' = Target(f)
    BY DEF Target
  <2>3. at[f] \in {"event", "asleep", "mutex"} => Target(f) \in Handles \ {next + 1}
    BY <1>1, <2>1, Fresh, TargetType DEF GuestInv, Busy, IInv
  <2>4. at[f] \in {"event", "asleep", "mutex"} => kind'[Target(f)] = kind[Target(f)]
    BY <2>3 DEF IInv, Typed
  <2> QED
    BY <2>1, <2>2, <2>4 DEF GuestInv, Busy, Holds
<1>4. ASSUME NEW h \in Handles PROVE HandleInv(h)'
  <2>1. HandleInv(h) /\ h \in Nat /\ next \in Nat
    BY HandlesAssumption DEF IInv, Typed, Handles
  <2>2. h > next' => h > next /\ h # next + 1
    BY <2>1
  <2>3. kind'[h] = IF h = next + 1 THEN k ELSE kind[h]
    BY DEF IInv, Typed
  <2> QED
    BY <2>1, <2>2, <2>3 DEF HandleInv
<1> QED
  BY <1>2, <1>3, <1>4 DEF IInv

LEMMA CreateMutexInv ==
  ASSUME IInv, NEW g \in Guests, NEW b \in BOOLEAN, CreateMutex(g, b)
  PROVE  IInv'
<1> USE DEF CreateMutex, Create, waitVars
<1>1. next < MaxHandles
  OBVIOUS
<1>2. Typed'
  BY <1>1, HandlesAssumption DEF IInv, Typed, Kinds, Handles
<1>3. ASSUME NEW f \in Guests PROVE GuestInv(f)'
  <2>1. GuestInv(f)
    BY DEF IInv
  <2>2. Target(f)' = Target(f)
    BY DEF Target
  <2>3. at[f] \in {"event", "asleep", "mutex", "locked", "unlock"} => Target(f) \in Handles \ {next + 1}
    BY <1>1, <2>1, Fresh, TargetType DEF GuestInv, Busy, IInv
  <2>4. \A h \in Handles \ {next + 1} :
          kind'[h] = kind[h] /\ host'[h] = host[h] /\ recursion'[h] = recursion[h]
    BY DEF IInv, Typed
  <2>5. \A h \in owned'[f] : host'[h] = f /\ recursion'[h] = 1
    <3>1. \A h \in owned[f] : h \in Handles \ {next + 1} /\ host[h] = f /\ recursion[h] = 1
      BY <1>1, <2>1, Fresh DEF GuestInv, IInv, Typed
    <3>2. owned'[f] = IF f = g /\ b THEN owned[f] \cup {next + 1} ELSE owned[f]
      BY DEF IInv, Typed
    <3>3. b => host'[next + 1] = g /\ recursion'[next + 1] = 1
      BY <1>1, Fresh DEF IInv, Typed
    <3> QED
      BY <2>4, <3>1, <3>2, <3>3
  <2> QED
    BY <2>1, <2>2, <2>3, <2>4, <2>5 DEF GuestInv, Busy, Holds
<1>4. ASSUME NEW h \in Handles PROVE HandleInv(h)'
  <2>1. GuestsAssumption
    BY GuestsAssumption
  <2> QED
    BY <1>1, <2>1, Fresh DEF IInv, Typed, HandleInv, Handles, GuestsAssumption
<1> QED
  BY <1>2, <1>3, <1>4 DEF IInv

LEMMA CreateEventInv ==
  ASSUME IInv, NEW g \in Guests, NEW m \in BOOLEAN, NEW i \in BOOLEAN, CreateEvent(g, m, i)
  PROVE  IInv'
<1> USE DEF CreateEvent, Create, waitVars, history
<1>1. next < MaxHandles
  OBVIOUS
<1>2. Typed'
  BY <1>1, HandlesAssumption DEF IInv, Typed, Kinds, Handles
<1>3. ASSUME NEW f \in Guests PROVE GuestInv(f)'
  <2>1. GuestInv(f)
    BY DEF IInv
  <2>2. Target(f)' = Target(f)
    BY DEF Target
  <2>3. at[f] \in {"event", "asleep", "mutex"} => Target(f) \in Handles \ {next + 1}
    BY <1>1, <2>1, Fresh, TargetType DEF GuestInv, Busy, IInv
  <2>4. at[f] \in {"event", "asleep", "mutex"} =>
          kind'[Target(f)] = kind[Target(f)] /\ signaled'[Target(f)] = signaled[Target(f)]
    BY <2>3 DEF IInv, Typed
  <2> QED
    BY <2>1, <2>2, <2>4 DEF GuestInv, Busy, Holds
<1>4. ASSUME NEW h \in Handles PROVE HandleInv(h)'
  BY <1>1, Fresh DEF IInv, Typed, HandleInv, Handles
<1> QED
  BY <1>2, <1>3, <1>4 DEF IInv

(* A handle that is closed is one that no other guest works on.            *)
LEMMA CloseInv ==
  ASSUME IInv, NEW g \in Guests, NEW h \in Handles, CloseHandle(g, h)
  PROVE  IInv'
<1> USE DEF CloseHandle, waitVars
<1>1. Typed'
  BY DEF IInv, Typed, Kinds
<1>2. ASSUME NEW f \in Guests PROVE GuestInv(f)'
  <2>1. GuestInv(f)
    BY DEF IInv
  <2>2. Target(f)' = Target(f)
    BY DEF Target
  <2>3. at[f] \in {"event", "asleep", "mutex"} => Target(f) \in Handles \ {h}
    BY <2>1, TargetType DEF GuestInv, Busy, Using, IInv
  <2>4. at[f] \in {"event", "asleep", "mutex"} =>
          kind'[Target(f)] = kind[Target(f)] /\ signaled'[Target(f)] = signaled[Target(f)]
    BY <2>3 DEF IInv, Typed
  <2> QED
    BY <2>1, <2>2, <2>4 DEF GuestInv, Busy, Holds
<1>3. ASSUME NEW k \in Handles PROVE HandleInv(k)'
  BY DEF IInv, Typed, HandleInv
<1> QED
  BY <1>1, <1>2, <1>3 DEF IInv

-----------------------------------------------------------------------------
(* Events                                                                  *)

(* A step of g that moves only g, within the kernel or out of it.          *)
MovesOnly(g) ==
  /\ at' \in [Guests -> Ats] /\ list' \in [Guests -> Seq(Handles)]
  /\ timeout' \in [Guests -> Timeouts] /\ mode' \in [Guests -> {"single", "all", "any"}]
  /\ \A f \in Guests \ {g} : at'[f] = at[f] /\ list'[f] = list[f]

(* Every sleeper of the event that is set wakes, whoever sets it.          *)
LEMMA SetEventInv ==
  ASSUME IInv, NEW h \in Handles, Signal(h),
         UNCHANGED <<next, kind, autoReset, host, recursion, list, timeout, mode, owned>>
  PROVE  IInv'
<1> USE DEF Signal
<1>1. Typed'
  BY DEF IInv, Typed, Ats
<1>2. ASSUME NEW f \in Guests PROVE GuestInv(f)'
  <2>1. GuestInv(f) /\ Target(f)' = Target(f)
    BY DEF IInv, Target
  <2>2. at'[f] = IF at[f] = "asleep" /\ Target(f) = h THEN "event" ELSE at[f]
    BY DEF Sleepers
  <2>3. at[f] \in {"event", "asleep", "mutex"} => Target(f) \in Handles
    BY <2>1, TargetType DEF GuestInv, Busy, IInv
  <2>4. at[f] = "asleep" /\ Target(f) # h => signaled'[Target(f)] = signaled[Target(f)]
    BY <2>3 DEF IInv, Typed
  <2> QED
    BY <2>1, <2>2, <2>4 DEF GuestInv, Busy, Holds
<1>3. ASSUME NEW k \in Handles PROVE HandleInv(k)'
  BY DEF IInv, Typed, HandleInv
<1> QED
  BY <1>1, <1>2, <1>3 DEF IInv

(* An event that is reset wakes nobody and hides no sleeper.               *)
LEMMA Cleared ==
  ASSUME IInv, NEW g \in Guests, NEW h \in Handles, MovesOnly(g),
         at'[g] = "idle", Busy(g)',
         signaled' = [signaled EXCEPT ![h] = FALSE],
         UNCHANGED <<next, kind, autoReset, host, recursion, owned, woken>>
  PROVE  IInv'
<1> USE DEF MovesOnly
<1>1. Typed'
  BY DEF IInv, Typed
<1>2. ASSUME NEW f \in Guests PROVE GuestInv(f)'
  <2>1. GuestInv(f)
    BY DEF IInv
  <2>2. CASE f = g
    BY <2>1, <2>2 DEF GuestInv
  <2>3. CASE f # g
    <3>1. at'[f] = at[f] /\ list'[f] = list[f] /\ Target(f)' = Target(f)
      BY <2>3 DEF Target
    <3>2. at[f] = "asleep" => Target(f) \in Handles
      BY <2>1, TargetType DEF GuestInv, Busy, IInv
    <3>3. at[f] = "asleep" => ~signaled'[Target(f)]
      BY <2>1, <3>2 DEF GuestInv, IInv, Typed
    <3> QED
      BY <2>1, <3>1, <3>3 DEF GuestInv, Busy, Holds
  <2> QED
    BY <2>2, <2>3
<1>3. ASSUME NEW k \in Handles PROVE HandleInv(k)'
  BY DEF IInv, Typed, HandleInv
<1> QED
  BY <1>1, <1>2, <1>3 DEF IInv

LEMMA ResetEventInv ==
  ASSUME IInv, NEW g \in Guests, NEW h \in Handles, ResetEvent(g, h)
  PROVE  IInv'
<1>1. MovesOnly(g) /\ at'[g] = "idle" /\ Busy(g)'
  BY DEF ResetEvent, waitVars, MovesOnly, IInv, Typed, GuestInv, Busy
<1> QED
  BY <1>1, Cleared DEF ResetEvent, waitVars, history

(* The two halves of a pulse: the guest itself is between them.            *)
LEMMA PulseEventInv ==
  ASSUME IInv, NEW g \in Guests, NEW h \in Handles, PulseEvent(g, h)
  PROVE  IInv'
<1> USE DEF PulseEvent
<1>a. <<h>> \in Seq(Handles) /\ <<h>> # <<>>
  OBVIOUS
<1>1. Typed'
  <2>1. at' \in [Guests -> Ats]
    BY DEF IInv, Typed, Ats
  <2>2. list' \in [Guests -> Seq(Handles)]
    BY <1>a DEF IInv, Typed
  <2> QED
    BY <2>1, <2>2 DEF IInv, Typed
<1>2. ASSUME NEW f \in Guests PROVE GuestInv(f)'
  <2>1. GuestInv(f)
    BY DEF IInv
  <2>2. CASE f = g
    <3>1. at'[g] = "pulse" /\ list'[g] = <<h>>
      BY DEF IInv, Typed
    <3> QED
      BY <1>a, <2>1, <2>2, <3>1 DEF GuestInv, Busy
  <2>3. CASE f # g
    <3>1. /\ at'[f] = IF at[f] = "asleep" /\ Target(f) = h THEN "event" ELSE at[f]
          /\ list'[f] = list[f] /\ Target(f)' = Target(f)
      BY <2>3 DEF Sleepers, Target, IInv, Typed
    <3>2. at[f] = "asleep" => Target(f) \in Handles
      BY <2>1, TargetType DEF GuestInv, Busy, IInv
    <3>3. at[f] = "asleep" /\ Target(f) # h => signaled'[Target(f)] = signaled[Target(f)]
      BY <3>2 DEF IInv, Typed
    <3> QED
      BY <2>1, <3>1, <3>3 DEF GuestInv, Busy, Holds
  <2> QED
    BY <2>2, <2>3
<1>3. ASSUME NEW k \in Handles PROVE HandleInv(k)'
  BY DEF IInv, Typed, HandleInv
<1> QED
  BY <1>1, <1>2, <1>3 DEF IInv

LEMMA PulseResetInv ==
  ASSUME IInv, NEW g \in Guests, PulseReset(g)
  PROVE  IInv'
<1> USE DEF PulseReset, Goto
<1>1. Target(g) \in Handles
  BY TargetType DEF IInv, GuestInv, Busy
<1>2. <<>> \in Seq(Handles)
  BY EmptySeq
<1>3. MovesOnly(g) /\ at'[g] = "idle" /\ Busy(g)'
  BY <1>2 DEF MovesOnly, IInv, Typed, Ats, Busy
<1> QED
  BY <1>1, <1>3, Cleared DEF history

-----------------------------------------------------------------------------
(* Waiting                                                                 *)

(* A step that moves g alone and leaves the objects as they are.           *)
LEMMA MoveInv ==
  ASSUME IInv, NEW g \in Guests, MovesOnly(g), GuestInv(g)',
         UNCHANGED <<objectVars, owned, woken>>
  PROVE  IInv'
<1> USE DEF MovesOnly, objectVars
<1>1. Typed'
  BY DEF IInv, Typed
<1>2. ASSUME NEW f \in Guests \ {g} PROVE GuestInv(f)'
  BY Bystander DEF SameHandle
<1>3. ASSUME NEW k \in Handles PROVE HandleInv(k)'
  BY DEF IInv, HandleInv
<1> QED
  BY <1>1, <1>2, <1>3 DEF IInv

(* A guest that is not about to touch an object has nothing to keep but    *)
(* what it owns.                                                           *)
LEMMA Unconcerned ==
  ASSUME NEW g \in Guests, GuestInv(g), UNCHANGED <<objectVars, owned>>,
         at'[g] \in {"idle", "lookup", "pulse"}, Busy(g)'
  PROVE  GuestInv(g)'
BY DEF GuestInv, objectVars

LEMMA BeginInv ==
  ASSUME IInv, NEW g \in Guests, NEW handles \in Seq(Handles), NEW m \in {"single", "all", "any"},
         NEW t \in Timeouts, Begin(g, handles, m, t)
  PROVE  IInv'
<1>1. MovesOnly(g) /\ at'[g] = "lookup" /\ list'[g] = handles
  BY DEF Begin, MovesOnly, IInv, Typed, Ats
<1>2. Busy(g)' /\ UNCHANGED <<objectVars, owned, woken>>
  BY <1>1 DEF Begin, Busy, history
<1>3. GuestInv(g)'
  BY <1>1, <1>2, Unconcerned DEF IInv
<1> QED
  BY <1>1, <1>2, <1>3, MoveInv

LEMMA ReturnInv ==
  ASSUME IInv, NEW g \in Guests, NEW result, at[g] # "idle", Return(g, result),
         UNCHANGED <<objectVars, owned, woken>>
  PROVE  IInv'
<1>1. MovesOnly(g) /\ at'[g] \in {"idle", "lookup"} /\ Busy(g)'
  BY ReturnFacts DEF IInv, GuestInv, Busy, MovesOnly
<1>2. GuestInv(g)'
  BY <1>1, Unconcerned DEF IInv
<1> QED
  BY <1>1, <1>2, MoveInv

LEMMA LookupInv ==
  ASSUME IInv, NEW g \in Guests, Lookup(g)
  PROVE  IInv'
<1> USE DEF Lookup
<1>1. CASE kind[Target(g)] \in {"event", "mutex"}
  <2>1. at' = [at EXCEPT ![g] = kind[Target(g)]] /\ UNCHANGED waitVars
    BY <1>1
  <2>2. MovesOnly(g) /\ at'[g] = kind[Target(g)] /\ list'[g] = list[g]
    BY <1>1, <2>1 DEF MovesOnly, IInv, Typed, Ats, waitVars
  <2>3. GuestInv(g) /\ Target(g)' = Target(g) /\ UNCHANGED <<objectVars, owned, woken>>
    BY <2>2 DEF IInv, Target
  <2>4. GuestInv(g)'
    BY <1>1, <2>2, <2>3 DEF GuestInv, Busy, objectVars
  <2> QED
    BY <2>2, <2>3, <2>4, MoveInv
<1>2. CASE kind[Target(g)] \notin {"event", "mutex"}
  <2>1. PICK result \in {"success", "invalid handle"} : Return(g, result)
    BY <1>2
  <2> QED
    BY <2>1, ReturnInv
<1> QED
  BY <1>1, <1>2

(* A guest that an event lets through: nobody slept on it, for it was      *)
(* signaled, and an auto-reset event is not signaled for the next.         *)
LEMMA EventSatisfiedInv ==
  ASSUME IInv, NEW g \in Guests, EventSatisfied(g)
  PROVE  IInv'
<1> DEFINE h == Target(g)
<1>1. /\ at[g] = "event" /\ signaled[h] /\ Return(g, "success")
      /\ signaled' = [signaled EXCEPT ![h] = ~autoReset[h]]
      /\ woken' = [woken EXCEPT ![h] = IF @ < 2 THEN @ + 1 ELSE @]
      /\ UNCHANGED <<next, kind, autoReset, host, recursion, owned>>
  BY DEF EventSatisfied
<1>2. /\ list[g] # <<>> /\ h \in Handles /\ kind[h] = "event"
  BY <1>1, TargetType DEF IInv, GuestInv, Busy
<1>3. MovesOnly(g) /\ at'[g] \in {"idle", "lookup"} /\ Busy(g)'
  BY <1>1, <1>2, ReturnFacts DEF IInv, MovesOnly
<1> HIDE DEF h
<1>4. Typed'
  <2>1. woken' \in [Handles -> 0 .. 2]
    BY <1>1, <1>2 DEF IInv, Typed
  <2>2. signaled' \in [Handles -> BOOLEAN]
    BY <1>1, <1>2 DEF IInv, Typed
  <2> QED
    BY <1>1, <1>3, <2>1, <2>2 DEF IInv, Typed, MovesOnly
<1>5. ASSUME NEW f \in Guests PROVE GuestInv(f)'
  <2>1. GuestInv(f)
    BY DEF IInv
  <2>2. CASE f = g
    BY <1>1, <1>3, <2>1, <2>2 DEF GuestInv
  <2>3. CASE f # g
    <3>1. at'[f] = at[f] /\ list'[f] = list[f] /\ Target(f)' = Target(f)
      BY <1>3, <2>3 DEF MovesOnly, Target
    <3>2. at[f] = "asleep" => Target(f) \in Handles \ {h}
      BY <1>1, <2>1, TargetType DEF GuestInv, Busy, IInv
    <3>3. at[f] = "asleep" => signaled'[Target(f)] = signaled[Target(f)]
      BY <1>1, <3>2 DEF IInv, Typed
    <3> QED
      BY <1>1, <2>1, <3>1, <3>3 DEF GuestInv, Busy, Holds
  <2> QED
    BY <2>2, <2>3
<1>6. ASSUME NEW k \in Handles PROVE HandleInv(k)'
  <2>1. HandleInv(k)
    BY DEF IInv
  <2>2. CASE k # h
    BY <1>1, <2>1, <2>2 DEF IInv, Typed, HandleInv
  <2>3. CASE k = h
    <3>1. ~(h > next)
      BY <1>2, <2>1, <2>3 DEF HandleInv
    <3>2. woken'[h] = (IF woken[h] < 2 THEN woken[h] + 1 ELSE woken[h]) /\ signaled'[h] = ~autoReset[h]
      BY <1>1, <1>2 DEF IInv, Typed
    <3>3. autoReset[h] => woken[h] = 0
      BY <1>1, <1>2, <2>1, <2>3 DEF HandleInv
    <3>4. autoReset[h] => woken'[h] = 1
      BY <3>2, <3>3
    <3>5. autoReset[h] => ~signaled'[h]
      BY <3>2, Zenon
    <3> QED
      BY <1>1, <2>1, <2>3, <3>1, <3>4, <3>5 DEF HandleInv
  <2> QED
    BY <2>2, <2>3
<1> QED
  BY <1>4, <1>5, <1>6 DEF IInv

LEMMA EventSleepsInv ==
  ASSUME IInv, NEW g \in Guests, EventSleeps(g)
  PROVE  IInv'
<1> USE DEF EventSleeps, Goto, waitVars, history
<1>1. MovesOnly(g) /\ at'[g] = "asleep"
  BY DEF MovesOnly, IInv, Typed, Ats
<1>2. GuestInv(g)'
  BY <1>1 DEF IInv, GuestInv, Busy, Target, objectVars
<1> QED
  BY <1>1, <1>2, MoveInv

LEMMA TimeoutInv ==
  ASSUME IInv, NEW g \in Guests, EventTimeout(g) \/ MutexTimeout(g)
  PROVE  IInv'
<1>1. at[g] # "idle" /\ Return(g, "timeout") /\ UNCHANGED <<objectVars, owned, woken>>
  BY DEF EventTimeout, MutexTimeout, history
<1> QED
  BY <1>1, ReturnInv

-----------------------------------------------------------------------------
(* Mutexes                                                                 *)

(* A step that changes the mutex h alone, which is free or g's own, and    *)
(* that leaves g's and h's parts in order.                                 *)
LEMMA MutexStep ==
  ASSUME IInv, NEW g \in Guests, NEW h \in Handles, MovesOnly(g), GuestInv(g)',
         host[h] \in {NoGuest, g}, h > next => host'[h] = NoGuest,
         host'[h] = NoGuest => recursion'[h] = 0,
         host' \in [Handles -> Guests \cup {NoGuest}],
         recursion' \in [Handles -> 0 .. 1], owned' \in [Guests -> SUBSET Handles],
         \A k \in Handles \ {h} : host'[k] = host[k] /\ recursion'[k] = recursion[k],
         \A f \in Guests \ {g} : owned'[f] = owned[f],
         UNCHANGED <<next, kind, signaled, autoReset, woken>>
  PROVE  IInv'
<1> USE DEF MovesOnly
<1>1. Typed'
  BY DEF IInv, Typed
<1>2. ASSUME NEW f \in Guests \ {g} PROVE GuestInv(f)'
  <2>1. GuestInv(f) /\ f # NoGuest
    BY GuestsAssumption DEF IInv
  <2>2. owned[f] \subseteq Handles \ {h}
    BY <2>1 DEF GuestInv, IInv, Typed
  <2>3. Target(f)' = Target(f)
    BY DEF Target
  <2>4. at[f] \in {"locked", "unlock"} => Target(f) \in Handles \ {h}
    BY <2>1, TargetType DEF GuestInv, Busy, Holds, IInv
  <2> QED
    BY <2>1, <2>2, <2>3, <2>4 DEF GuestInv, Busy, Holds
<1>3. ASSUME NEW k \in Handles PROVE HandleInv(k)'
  <2>1. HandleInv(k)
    BY DEF IInv
  <2> QED
    BY <2>1 DEF HandleInv
<1> QED
  BY <1>1, <1>2, <1>3 DEF IInv

LEMMA MutexLockInv ==
  ASSUME IInv, NEW g \in Guests, MutexLock(g)
  PROVE  IInv'
<1> USE DEF MutexLock, Goto, waitVars, history
<1> DEFINE h == Target(g)
<1>1. h \in Handles /\ GuestInv(g) /\ HandleInv(h) /\ kind[h] = "mutex"
  BY TargetType DEF IInv, GuestInv, Busy
<1>2. host' = [host EXCEPT ![h] = g] /\ UNCHANGED recursion
  OBVIOUS
<1>3. MovesOnly(g) /\ at'[g] = "locked" /\ list'[g] = list[g]
  BY DEF MovesOnly, IInv, Typed, Ats
<1>4. Target(g)' = h
  BY <1>3 DEF Target
<1> HIDE DEF h
<1>5. host'[h] = g /\ \A k \in Handles \ {h} : host'[k] = host[k]
  BY <1>1, <1>2 DEF IInv, Typed
<1>6. host[h] = NoGuest /\ recursion[h] = 0 /\ ~(h > next) /\ g # NoGuest
  BY <1>1, GuestsAssumption DEF h, HandleInv
<1>7. h \notin owned[g]
  BY <1>1, <1>6 DEF GuestInv
<1>8. GuestInv(g)'
  <2>1. \A k \in owned[g] : k \in Handles \ {h} /\ host[k] = g /\ recursion[k] = 1
    BY <1>1, <1>7 DEF GuestInv, IInv, Typed
  <2> QED
    BY <1>1, <1>2, <1>3, <1>4, <1>5, <1>6, <2>1 DEF GuestInv, Busy, Holds
<1>9. host' \in [Handles -> Guests \cup {NoGuest}]
  BY <1>1, <1>2 DEF IInv, Typed
<1>10. UNCHANGED <<next, kind, signaled, autoReset, woken, recursion, owned>>
  OBVIOUS
<1>11. recursion' \in [Handles -> 0 .. 1] /\ owned' \in [Guests -> SUBSET Handles]
  BY <1>10 DEF IInv, Typed
<1>12. host'[h] # NoGuest
  BY <1>5, <1>6
<1> QED
  BY <1>1, <1>3, <1>5, <1>6, <1>8, <1>9, <1>10, <1>11, <1>12, MutexStep

LEMMA MutexOwnedInv ==
  ASSUME IInv, NEW g \in Guests, MutexOwned(g)
  PROVE  IInv'
<1> DEFINE h == Target(g)
<1>1. /\ at[g] = "locked" /\ Return(g, "success")
      /\ recursion' = [recursion EXCEPT ![h] = @ + 1]
      /\ owned' = [owned EXCEPT ![g] = @ \cup {h}]
      /\ UNCHANGED <<next, kind, signaled, autoReset, host, woken>>
  BY DEF MutexOwned
<1>2. /\ list[g] # <<>> /\ h \in Handles /\ GuestInv(g) /\ HandleInv(h)
      /\ host[h] = g /\ recursion[h] = 0
  BY <1>1, TargetType DEF IInv, GuestInv, Busy, Holds
<1>3. MovesOnly(g) /\ at'[g] \in {"idle", "lookup"} /\ Busy(g)'
  BY <1>1, <1>2, ReturnFacts DEF IInv, MovesOnly
<1> HIDE DEF h
<1>4. /\ recursion' \in [Handles -> 0 .. 1] /\ recursion'[h] = 1
      /\ \A k \in Handles \ {h} : recursion'[k] = recursion[k]
  BY <1>1, <1>2 DEF IInv, Typed
<1>5. /\ owned' \in [Guests -> SUBSET Handles] /\ owned'[g] = owned[g] \cup {h}
      /\ \A f \in Guests \ {g} : owned'[f] = owned[f]
  BY <1>1, <1>2 DEF IInv, Typed
<1>6. GuestInv(g)'
  <2>1. \A k \in owned[g] : k \in Handles \ {h} /\ host[k] = g /\ recursion[k] = 1
    BY <1>2 DEF GuestInv, IInv, Typed
  <2> QED
    BY <1>1, <1>2, <1>3, <1>4, <1>5, <2>1 DEF GuestInv
<1>7. g # NoGuest /\ ~(h > next)
  BY <1>2, GuestsAssumption DEF HandleInv
<1> QED
  BY <1>1, <1>2, <1>3, <1>4, <1>5, <1>6, <1>7, MutexStep DEF IInv, Typed

LEMMA ReleaseMutexInv ==
  ASSUME IInv, NEW g \in Guests, NEW h \in Handles, ReleaseMutex(g, h)
  PROVE  IInv'
<1> USE DEF ReleaseMutex
<1>1. /\ GuestInv(g) /\ HandleInv(h) /\ at[g] = "idle"
      /\ h \in owned[g] /\ host[h] = g /\ recursion[h] = 1
  BY DEF IInv, GuestInv
<1>2. /\ recursion' \in [Handles -> 0 .. 1] /\ recursion'[h] = 0
      /\ \A k \in Handles \ {h} : recursion'[k] = recursion[k]
  BY <1>1 DEF IInv, Typed
<1>3. /\ owned' \in [Guests -> SUBSET Handles] /\ owned'[g] = owned[g] \ {h}
      /\ \A f \in Guests \ {g} : owned'[f] = owned[f]
  BY <1>2 DEF IInv, Typed
<1>4. <<h>> \in Seq(Handles) /\ <<h>> # <<>> /\ Head(<<h>>) = h
  OBVIOUS
<1>5. MovesOnly(g) /\ at'[g] = "unlock" /\ list'[g] = <<h>>
  BY <1>2, <1>4 DEF MovesOnly, IInv, Typed, Ats
<1>6. Target(g)' = h
  BY <1>4, <1>5 DEF Target
<1>7. GuestInv(g)'
  <2>1. \A k \in owned'[g] : k \in Handles \ {h} /\ host[k] = g /\ recursion[k] = 1
    BY <1>1, <1>3 DEF GuestInv, IInv, Typed
  <2> QED
    BY <1>1, <1>2, <1>4, <1>5, <1>6, <2>1 DEF GuestInv, Busy, Holds
<1>8. g # NoGuest /\ ~(h > next)
  BY <1>1, GuestsAssumption DEF HandleInv
<1> QED
  BY <1>1, <1>2, <1>3, <1>5, <1>7, <1>8, MutexStep DEF IInv, Typed

LEMMA UnlockInv ==
  ASSUME IInv, NEW g \in Guests, Unlock(g)
  PROVE  IInv'
<1> USE DEF Unlock, Goto, history
<1> DEFINE h == Target(g)
<1>1. /\ h \in Handles /\ GuestInv(g) /\ host[h] = g /\ recursion[h] = 0
  BY TargetType DEF IInv, GuestInv, Busy, Holds
<1>2. host' = [host EXCEPT ![h] = NoGuest] /\ UNCHANGED <<recursion, owned>>
  OBVIOUS
<1>3. <<>> \in Seq(Handles)
  BY EmptySeq
<1>4. MovesOnly(g) /\ at'[g] = "idle" /\ Busy(g)'
  BY <1>3 DEF MovesOnly, IInv, Typed, Ats, Busy
<1> HIDE DEF h
<1>5. /\ host' \in [Handles -> Guests \cup {NoGuest}] /\ host'[h] = NoGuest
      /\ \A k \in Handles \ {h} : host'[k] = host[k]
  BY <1>1, <1>2 DEF IInv, Typed
<1>6. GuestInv(g)'
  <2>1. \A k \in owned[g] : k \in Handles \ {h} /\ host[k] = g /\ recursion[k] = 1
    BY <1>1 DEF GuestInv, IInv, Typed
  <2> QED
    BY <1>2, <1>4, <1>5, <2>1 DEF GuestInv
<1> QED
  BY <1>1, <1>2, <1>4, <1>5, <1>6, MutexStep DEF IInv, Typed

-----------------------------------------------------------------------------

LEMMA CallInv ==
  ASSUME IInv, NEW g \in Guests, Call(g)
  PROVE  IInv'
<1>1. CASE CreateThread(g) \/ CreateSemaphore(g)
  <2>1. PICK k \in {"thread", "semaphore"} :
          Create(k) /\ UNCHANGED <<signaled, autoReset, host, recursion, waitVars, at, history>>
    BY <1>1 DEF CreateThread, CreateSemaphore
  <2> QED
    BY <2>1, CreateInv
<1>2. CASE \E b \in BOOLEAN : CreateMutex(g, b)
  BY <1>2, CreateMutexInv
<1>3. CASE \E manual, initial \in BOOLEAN : CreateEvent(g, manual, initial)
  BY <1>3, CreateEventInv
<1>4. ASSUME NEW h \in Handles,
             \/ CloseHandle(g, h) \/ SetEvent(g, h) \/ ResetEvent(g, h) \/ PulseEvent(g, h)
             \/ ReleaseMutex(g, h)
      PROVE  IInv'
  <2>1. CASE SetEvent(g, h)
    BY <2>1, SetEventInv DEF SetEvent, waitVars
  <2> QED
    BY <1>4, <2>1, CloseInv, ResetEventInv, PulseEventInv, ReleaseMutexInv
<1>5. ASSUME NEW h \in Handles, NEW t \in Timeouts, WaitForObject(g, h, t)
      PROVE  IInv'
  <2>1. <<h>> \in Seq(Handles) /\ Begin(g, <<h>>, "single", t)
    BY <1>5 DEF WaitForObject
  <2> QED
    BY <2>1, BeginInv
<1>6. ASSUME NEW handles \in Lists, NEW b \in BOOLEAN, WaitForMultiple(g, handles, b)
      PROVE  IInv'
  <2>1. handles \in Seq(Handles)
    BY HandlesAssumption DEF Handles
  <2>2. PICK m \in {"all", "any"}, t \in Timeouts : Begin(g, handles, m, t)
    BY <1>6 DEF WaitForMultiple, Timeouts
  <2> QED
    BY <2>1, <2>2, BeginInv
<1> QED
  BY <1>1, <1>2, <1>3, <1>4, <1>5, <1>6 DEF Call

LEMMA StepInv ==
  ASSUME IInv, NEW g \in Guests, Step(g)
  PROVE  IInv'
BY LookupInv, EventSatisfiedInv, EventSleepsInv, TimeoutInv, MutexLockInv, MutexOwnedInv,
   PulseResetInv, UnlockInv DEF Step

LEMMA StutterInv ==
  ASSUME IInv, UNCHANGED vars
  PROVE  IInv'
<1> USE DEF vars, objectVars, waitVars, history
<1>1. Typed'
  BY DEF IInv, Typed
<1>2. ASSUME NEW g \in Guests PROVE GuestInv(g)'
  BY Bystander DEF SameHandle
<1>3. ASSUME NEW h \in Handles PROVE HandleInv(h)'
  BY DEF IInv, HandleInv
<1> QED
  BY <1>1, <1>2, <1>3 DEF IInv

(* The invariant holds in every state that guests can bring about.         *)
THEOREM ObjectsInv == Safety => []IInv
<1>1. IInv /\ [Next]_vars => IInv'
  BY CallInv, StepInv, StutterInv DEF Next
<1> QED
  BY InitInv, <1>1, PTL DEF Safety

(* Types: see TypeOK.                                                      *)
THEOREM Types == Safety => []TypeOK
<1>1. IInv => TypeOK
  BY DEF IInv, Typed, TypeOK, GuestInv, Busy
<1> QED
  BY ObjectsInv, <1>1, PTL

(* Mutual exclusion: the guest whose wait for a mutex returned 0 holds it  *)
(* until it releases it, however many guests wait with whatever timeouts.  *)
THEOREM MutexExcludes == Safety => []OwnedMeansLocked
<1>1. IInv => OwnedMeansLocked
  BY DEF IInv, GuestInv, OwnedMeansLocked
<1> QED
  BY ObjectsInv, <1>1, PTL

(* A mutex that is free has been released as often as it was taken.        *)
THEOREM FreeMutexIsClear == Safety => []FreeMeansClear
<1>1. IInv => FreeMeansClear
  BY DEF IInv, HandleInv, FreeMeansClear
<1> QED
  BY ObjectsInv, <1>1, PTL

(* A signal cannot fall between a waiter's test and its sleep.             *)
THEOREM WakeupsAreNotLost == Safety => []NoLostWakeup
<1>1. IInv => NoLostWakeup
  BY DEF IInv, GuestInv, NoLostWakeup
<1> QED
  BY ObjectsInv, <1>1, PTL

(* One setEvent of an auto-reset event satisfies one wait at most.         *)
THEOREM AutoResetIsExclusive == Safety => []AutoResetWakesOne
<1>1. IInv => AutoResetWakesOne
  BY DEF IInv, HandleInv, AutoResetWakesOne
<1> QED
  BY ObjectsInv, <1>1, PTL
=============================================================================
