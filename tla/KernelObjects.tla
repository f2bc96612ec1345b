----------------------------- MODULE KernelObjects -----------------------------
(***************************************************************************)
(* The synchronisation objects of the HLE kernel (threading.cpp, and the   *)
(* handle table in xboxkrnl.cpp): mutexes, events and semaphores that      *)
(* guest threads create, wait for, signal and close, on top of std::mutex  *)
(* and std::condition_variable.                                            *)
(*                                                                         *)
(* One action per section that runs under one lock, and one per access to  *)
(* a field that no lock protects.  A timeout is "zero", "long" (the 30     *)
(* seconds of dispatchKernelCall, which may pass at any time) or           *)
(* "forever".                                                              *)
(***************************************************************************)
EXTENDS Naturals, Sequences, FiniteSets

CONSTANTS
  Guests,           \* guest threads that call the kernel
  MaxHandles,       \* bound: handles that are ever allocated
  Lists,            \* handle lists passed to waitForMultiple
  Reentrant,        \* guests may wait for a mutex they already own
  NoGuest

ASSUME GuestsAssumption == NoGuest \notin Guests
ASSUME HandlesAssumption ==
  /\ MaxHandles \in Nat
  /\ Lists \subseteq Seq(1 .. MaxHandles)
  /\ Reentrant \in BOOLEAN

Handles == 1 .. MaxHandles
Timeouts == {"zero", "long", "forever"}
Kinds == {"none", "thread", "semaphore", "mutex", "event"}

VARIABLES
  next,             \* handles allocated so far (m_nextHandle)
  kind,             \* kind[h]: the type of h in m_objects, "none" if absent
  signaled,         \* signaled[h], of an event
  autoReset,        \* autoReset[h], of an event
  host,             \* host[h]: the guest that holds the std::mutex of a mutex
  recursion,        \* recursion[h]: recursionCount, of a mutex
  at,               \* at[g]: where guest g is in a kernel call
  list,             \* list[g]: the handles the call still has to wait for
  position,         \* position[g]: the index of the first of them
  timeout,          \* timeout[g]: of the wait
  mode,             \* mode[g]: "single", "all" or "any"
  satisfied,        \* history: the positions this wait found signaled
  lied,             \* history: a wait returned STATUS_WAIT_i, i not signaled
  owned,            \* history: mutexes whose wait returned 0 to g, not released
  woken             \* history: waits the event satisfied since it was last set

objectVars == <<next, kind, signaled, autoReset, host, recursion>>
waitVars == <<list, position, timeout, mode, satisfied, lied>>
history == <<owned, woken>>
vars == <<objectVars, waitVars, at, history>>

Init ==
  /\ next = 0
  /\ kind = [h \in Handles |-> "none"]
  /\ signaled = [h \in Handles |-> FALSE]
  /\ autoReset = [h \in Handles |-> FALSE]
  /\ host = [h \in Handles |-> NoGuest]
  /\ recursion = [h \in Handles |-> 0]
  /\ at = [g \in Guests |-> "idle"]
  /\ list = [g \in Guests |-> <<>>]
  /\ position = [g \in Guests |-> 0]
  /\ timeout = [g \in Guests |-> "zero"]
  /\ mode = [g \in Guests |-> "single"]
  /\ satisfied = [g \in Guests |-> {}]
  /\ lied = FALSE
  /\ owned = [g \in Guests |-> {}]
  /\ woken = [h \in Handles |-> 0]

Goto(g, from, to) == at[g] = from /\ at' = [at EXCEPT ![g] = to]
Target(g) == Head(list[g])

(* A guest is inside a call on h; it keeps the raw pointer of getObject(). *)
Using(h) == {g \in Guests : at[g] # "idle" /\ list[g] # <<>> /\ Target(g) = h}

-----------------------------------------------------------------------------
(* Creating and closing *)

(* Every create function allocates a handle and then publishes the object; *)
(* nobody knows the handle in between.                                     *)
Create(k) ==
  /\ next < MaxHandles
  /\ next' = next + 1
  /\ kind' = [kind EXCEPT ![next + 1] = k]

CreateThread(g) ==
  /\ at[g] = "idle"
  /\ Create("thread")
  /\ UNCHANGED <<signaled, autoReset, host, recursion>>
  /\ UNCHANGED <<waitVars, at, history>>

(* The counts are kept in a sem_t that nothing reads, and left out here.   *)
CreateSemaphore(g) ==
  /\ at[g] = "idle"
  /\ Create("semaphore")
  /\ UNCHANGED <<signaled, autoReset, host, recursion>>
  /\ UNCHANGED <<waitVars, at, history>>

CreateMutex_NotLocked(g, initialOwner) ==
  /\ at[g] = "idle"
  /\ Create("mutex")
  /\ recursion' = [recursion EXCEPT ![next'] = IF initialOwner THEN 1 ELSE 0]
  /\ owned' = [owned EXCEPT ![g] = IF initialOwner THEN @ \cup {next'} ELSE @]
  /\ UNCHANGED <<signaled, autoReset, host, waitVars, at, woken>>
CreateMutex(g, initialOwner) ==
  /\ at[g] = "idle"
  /\ Create("mutex")
  /\ host' = [host EXCEPT ![next'] = IF initialOwner THEN g ELSE NoGuest]
  /\ recursion' = [recursion EXCEPT ![next'] = IF initialOwner THEN 1 ELSE 0]
  /\ owned' = [owned EXCEPT ![g] = IF initialOwner THEN @ \cup {next'} ELSE @]
  /\ UNCHANGED <<signaled, autoReset, waitVars, at, woken>>

CreateEvent(g, manualReset, initialState) ==
  /\ at[g] = "idle"
  /\ Create("event")
  /\ autoReset' = [autoReset EXCEPT ![next'] = ~manualReset]
  /\ signaled' = [signaled EXCEPT ![next'] = initialState]
  /\ UNCHANGED <<host, recursion, waitVars, at, history>>

(* NtClose destroys the object, whoever else has a handle to it.  A guest  *)
(* that closes a handle another guest is using, or a mutex that is locked, *)
(* is not modelled: the first leaves a pointer to freed memory behind, the *)
(* second destroys a locked std::mutex; both are undefined.                *)
CloseHandle(g, h) ==
  /\ at[g] = "idle"
  /\ kind[h] # "none"
  /\ Using(h) = {}
  /\ host[h] = NoGuest
  /\ kind' = [kind EXCEPT ![h] = "none"]
  /\ signaled' = [signaled EXCEPT ![h] = FALSE]
  /\ autoReset' = [autoReset EXCEPT ![h] = FALSE]
  /\ woken' = [woken EXCEPT ![h] = 0]
  /\ UNCHANGED <<next, host, recursion, waitVars, at, owned>>

-----------------------------------------------------------------------------
(* Events *)

Sleepers(h) == {g \in Guests : at[g] = "asleep" /\ Target(g) = h}

(* setEvent stores and notifies every sleeper under the event's lock.      *)
Signal_NotifyOne(h) ==
  /\ signaled' = [signaled EXCEPT ![h] = TRUE]
  /\ woken' = [woken EXCEPT ![h] = 0]
  /\ \E n \in Guests :
       /\ Sleepers(h) # {} => n \in Sleepers(h)
       /\ at' = [g \in Guests |-> IF g = n /\ g \in Sleepers(h) THEN "event" ELSE at[g]]
Signal_Silent(h) ==
  /\ signaled' = [signaled EXCEPT ![h] = TRUE]
  /\ woken' = [woken EXCEPT ![h] = 0]
  /\ UNCHANGED at
Signal(h) ==
  /\ signaled' = [signaled EXCEPT ![h] = TRUE]
  /\ woken' = [woken EXCEPT ![h] = 0]
  /\ at' = [g \in Guests |-> IF g \in Sleepers(h) THEN "event" ELSE at[g]]

SetEvent(g, h) ==
  /\ at[g] = "idle"
  /\ kind[h] = "event"
  /\ Signal(h)
  /\ UNCHANGED <<next, kind, autoReset, host, recursion, waitVars, owned>>

ResetEvent(g, h) ==
  /\ at[g] = "idle"
  /\ kind[h] = "event"
  /\ signaled' = [signaled EXCEPT ![h] = FALSE]
  /\ UNCHANGED <<next, kind, autoReset, host, recursion>>
  /\ UNCHANGED <<waitVars, at, history>>

(* pulseEvent is setEvent and then resetEvent, with the lock free between. *)
PulseEvent(g, h) ==
  /\ at[g] = "idle"
  /\ kind[h] = "event"
  /\ signaled' = [signaled EXCEPT ![h] = TRUE]
  /\ woken' = [woken EXCEPT ![h] = 0]
  /\ at' = [f \in Guests |-> IF f = g THEN "pulse"
                             ELSE IF f \in Sleepers(h) THEN "event" ELSE at[f]]
  /\ list' = [list EXCEPT ![g] = <<h>>]
  /\ UNCHANGED <<next, kind, autoReset, host, recursion>>
  /\ UNCHANGED <<position, timeout, mode, satisfied, lied, owned>>

PulseReset(g) ==
  /\ Goto(g, "pulse", "idle")
  /\ signaled' = [signaled EXCEPT ![Target(g)] = FALSE]
  /\ list' = [list EXCEPT ![g] = <<>>]
  /\ UNCHANGED <<next, kind, autoReset, host, recursion>>
  /\ UNCHANGED <<position, timeout, mode, satisfied, lied, history>>

-----------------------------------------------------------------------------
(* Waiting *)

(* A guest that must not wait for its own mutex does not.                  *)
MayWait(g, handles) ==
  \/ Reentrant
  \/ \A k \in DOMAIN handles : host[handles[k]] # g

Begin(g, handles, m, t) ==
  /\ at[g] = "idle"
  /\ handles # <<>>
  /\ MayWait(g, handles)
  /\ at' = [at EXCEPT ![g] = "lookup"]
  /\ list' = [list EXCEPT ![g] = handles]
  /\ position' = [position EXCEPT ![g] = 0]
  /\ timeout' = [timeout EXCEPT ![g] = t]
  /\ mode' = [mode EXCEPT ![g] = m]
  /\ UNCHANGED <<objectVars, satisfied, lied, history>>

WaitForObject(g, h, t) == Begin(g, <<h>>, "single", t)

(* waitForMultiple calls waitForObject for one handle after the other,     *)
(* with the timeout if it waits for all and with none if for any.          *)
WaitForMultiple(g, handles, waitAll) ==
  Begin(g, handles, IF waitAll THEN "all" ELSE "any", IF waitAll THEN "long" ELSE "zero")

(* What waitForObject returned to its caller.  A wait for any ends at the  *)
(* first success; every other result of a wait for several is dropped, and *)
(* the end of the list is a 0.                                             *)
Return(g, result) ==
  LET ok == result = "success"
      found == satisfied[g] \cup (IF ok THEN {position[g]} ELSE {})
      ends == Len(list[g]) = 1 \/ (mode[g] = "any" /\ ok)
      code == IF mode[g] = "any" /\ ok THEN position[g] ELSE 0
      isWait == mode[g] # "single" \/ ok
  IN /\ at' = [at EXCEPT ![g] = IF ends THEN "idle" ELSE "lookup"]
     /\ list' = [list EXCEPT ![g] = IF ends THEN <<>> ELSE Tail(@)]
     /\ position' = [position EXCEPT ![g] = IF ends THEN 0 ELSE @ + 1]
     /\ satisfied' = [satisfied EXCEPT ![g] = IF ends THEN {} ELSE found]
     /\ lied' = (lied \/ (ends /\ isWait /\ code \notin found))
     /\ timeout' = [timeout EXCEPT ![g] = IF ends THEN "zero" ELSE @]
     /\ mode' = [mode EXCEPT ![g] = IF ends THEN "single" ELSE @]

(* getObject, and the branch on the object's type.  A thread and a         *)
(* semaphore count as signaled.                                            *)
Lookup(g) ==
  /\ at[g] = "lookup"
  /\ CASE kind[Target(g)] \in {"event", "mutex"} ->
            at' = [at EXCEPT ![g] = kind[Target(g)]] /\ UNCHANGED waitVars
       [] kind[Target(g)] \in {"thread", "semaphore"} -> Return(g, "success")
       [] OTHER -> Return(g, "invalid handle")
  /\ UNCHANGED <<objectVars, owned, woken>>

(* cv.wait: test the predicate under the lock, and sleep if it is false.   *)
EventSatisfied_KeepsSignal(g) ==
  /\ at[g] = "event"
  /\ signaled[Target(g)]
  /\ woken' = [woken EXCEPT ![Target(g)] = IF @ < 2 THEN @ + 1 ELSE @]
  /\ Return(g, "success")
  /\ UNCHANGED <<objectVars, owned>>
EventSatisfied(g) ==
  LET h == Target(g)
  IN /\ at[g] = "event"
     /\ signaled[h]
     /\ signaled' = [signaled EXCEPT ![h] = ~autoReset[h]]
     /\ woken' = [woken EXCEPT ![h] = IF @ < 2 THEN @ + 1 ELSE @]
     /\ Return(g, "success")
     /\ UNCHANGED <<next, kind, autoReset, host, recursion, owned>>

EventSleeps(g) ==
  /\ Goto(g, "event", "asleep")
  /\ ~signaled[Target(g)]
  /\ timeout[g] # "zero"
  /\ UNCHANGED <<objectVars, waitVars, history>>

(* The time is up: wait_for returns what the predicate says by then.       *)
EventTimeout(g) ==
  /\ at[g] \in {"event", "asleep"}
  /\ timeout[g] # "forever"
  /\ ~signaled[Target(g)]
  /\ Return(g, "timeout")
  /\ UNCHANGED <<objectVars, history>>

(* m.lock() or a successful m.try_lock()...                                *)
MutexLock(g) ==
  /\ Goto(g, "mutex", "locked")
  /\ host[Target(g)] = NoGuest
  /\ host' = [host EXCEPT ![Target(g)] = g]
  /\ UNCHANGED <<next, kind, signaled, autoReset, recursion>>
  /\ UNCHANGED <<waitVars, history>>

(* ... and the fields of the mutex, which are the new owner's to write.    *)
MutexOwned(g) ==
  LET h == Target(g)
  IN /\ at[g] = "locked"
     /\ recursion' = [recursion EXCEPT ![h] = @ + 1]
     /\ owned' = [owned EXCEPT ![g] = @ \cup {h}]
     /\ Return(g, "success")
     /\ UNCHANGED <<next, kind, signaled, autoReset, host, woken>>

MutexTimeout_Once(g) ==
  /\ at[g] = "mutex"
  /\ timeout[g] = "zero"
  /\ host[Target(g)] # NoGuest
  /\ Return(g, "timeout")
  /\ UNCHANGED <<objectVars, history>>
MutexTimeout_Owns(g) ==
  /\ at[g] = "mutex"
  /\ timeout[g] # "forever"
  /\ host[Target(g)] # NoGuest
  /\ owned' = [owned EXCEPT ![g] = @ \cup {Target(g)}]
  /\ Return(g, "success")
  /\ UNCHANGED <<objectVars, woken>>
MutexTimeout(g) ==
  /\ at[g] = "mutex"
  /\ timeout[g] # "forever"
  /\ host[Target(g)] # NoGuest
  /\ Return(g, "timeout")
  /\ UNCHANGED <<objectVars, history>>

(* releaseMutex, called by the owner.  recursionCount is 1 then, because a *)
(* second wait of the owner blocks in m.lock().                            *)
ReleaseMutex_KeepsCount(g, h) ==
  /\ at[g] = "idle"
  /\ kind[h] = "mutex"
  /\ h \in owned[g]
  /\ at' = [at EXCEPT ![g] = "unlock"]
  /\ list' = [list EXCEPT ![g] = <<h>>]
  /\ owned' = [owned EXCEPT ![g] = @ \ {h}]
  /\ UNCHANGED <<objectVars, woken, position, timeout, mode, satisfied, lied>>
ReleaseMutex(g, h) ==
  /\ at[g] = "idle"
  /\ kind[h] = "mutex"
  /\ h \in owned[g]
  /\ recursion' = [recursion EXCEPT ![h] = IF @ > 0 THEN @ - 1 ELSE @]
  /\ at' = [at EXCEPT ![g] = IF recursion'[h] = 0 THEN "unlock" ELSE "idle"]
  /\ list' = [list EXCEPT ![g] = IF recursion'[h] = 0 THEN <<h>> ELSE <<>>]
  /\ owned' = [owned EXCEPT ![g] = IF recursion'[h] = 0 THEN @ \ {h} ELSE @]
  /\ UNCHANGED <<next, kind, signaled, autoReset, host, woken>>
  /\ UNCHANGED <<position, timeout, mode, satisfied, lied>>

Unlock(g) ==
  /\ Goto(g, "unlock", "idle")
  /\ host' = [host EXCEPT ![Target(g)] = NoGuest]
  /\ list' = [list EXCEPT ![g] = <<>>]
  /\ UNCHANGED <<next, kind, signaled, autoReset, recursion>>
  /\ UNCHANGED <<position, timeout, mode, satisfied, lied, history>>

-----------------------------------------------------------------------------

Call(g) ==
  \/ CreateThread(g) \/ CreateSemaphore(g)
  \/ \E b \in BOOLEAN : CreateMutex(g, b)
  \/ \E manual, initial \in BOOLEAN : CreateEvent(g, manual, initial)
  \/ \E h \in Handles : \/ CloseHandle(g, h)
                        \/ SetEvent(g, h) \/ ResetEvent(g, h) \/ PulseEvent(g, h)
                        \/ ReleaseMutex(g, h)
                        \/ \E t \in Timeouts : WaitForObject(g, h, t)
  \/ \E handles \in Lists, b \in BOOLEAN : WaitForMultiple(g, handles, b)

Step(g) ==
  \/ Lookup(g)
  \/ EventSatisfied(g) \/ EventSleeps(g) \/ EventTimeout(g)
  \/ MutexLock(g) \/ MutexOwned(g) \/ MutexTimeout(g)
  \/ PulseReset(g) \/ Unlock(g)

Next == \E g \in Guests : Call(g) \/ Step(g)

Safety == Init /\ [][Next]_vars

(* A guest inside a kernel call is a host thread that gets to run, and     *)
(* time passes: a wait cannot keep missing its deadline.                   *)
Spec ==
  /\ Safety
  /\ \A g \in Guests : WF_vars(Step(g)) /\ SF_vars(EventTimeout(g))

-----------------------------------------------------------------------------
(* Properties *)

Ats == {"idle", "lookup", "event", "asleep", "mutex", "locked", "pulse",
        "unlock"}

(* Every variable keeps its type, and a guest works through a list of      *)
(* handles exactly while it is inside a call.                              *)
TypeOK ==
  /\ next \in 0 .. MaxHandles
  /\ kind \in [Handles -> Kinds]
  /\ signaled \in [Handles -> BOOLEAN]
  /\ autoReset \in [Handles -> BOOLEAN]
  /\ host \in [Handles -> Guests \cup {NoGuest}]
  /\ recursion \in [Handles -> 0 .. 1]
  /\ at \in [Guests -> Ats]
  /\ timeout \in [Guests -> Timeouts]
  /\ mode \in [Guests -> {"single", "all", "any"}]
  /\ \A g \in Guests : (at[g] = "idle") <=> (list[g] = <<>>)

(* Mutual exclusion: a guest whose wait for a mutex returned 0 holds its   *)
(* std::mutex until it releases it, and recursionCount, which no lock      *)
(* protects, says so.                                                      *)
OwnedMeansLocked ==
  \A g \in Guests : \A h \in owned[g] : host[h] = g /\ recursion[h] = 1

(* A free mutex has no recursion left over for its next owner.             *)
FreeMeansClear == \A h \in Handles : host[h] = NoGuest => recursion[h] = 0

(* No guest sleeps on an event that is signaled.                           *)
NoLostWakeup ==
  \A g \in Guests : at[g] = "asleep" => ~signaled[Target(g)]

(* setEvent notifies every sleeper, but an auto-reset event lets one       *)
(* through.                                                                *)
AutoResetWakesOne ==
  \A h \in Handles : kind[h] = "event" /\ autoReset[h] => woken[h] <= 1

(* A wait that returns STATUS_WAIT_i found object i signaled.              *)
WaitStatusTrue == ~lied

(* A wait with a timeout ends, whatever the others do to its object.       *)
WaitEnds(g) == at[g] = "lookup" /\ timeout[g] # "forever" ~> at[g] = "idle"

(* A signal that stays reaches a guest that waits for it.                  *)
SignalReachesGuest(g) ==
  \A h \in Handles :
    (g \in Using(h) /\ at[g] \in {"event", "asleep"} /\ signaled[h])
      ~> (~signaled[h] \/ g \notin Using(h))

===============================================================================
