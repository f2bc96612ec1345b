---------------------------- MODULE KernelCallsProofs ----------------------------
(***************************************************************************)
(* The guest heap, the pads, and the kernel: what each service promises    *)
(* holds behind the dispatcher.  The proofs of objects and of files are in *)
(* modules of their own.                                                   *)
(***************************************************************************)
EXTENDS KernelCalls, KernelObjectsProofs, GuestFilesProofs

-----------------------------------------------------------------------------
(* The guest heap hands out the same memory twice only where a guest gave  *)
(* the address or a sum wrapped round, for every size of the heap and of   *)
(* the words, every rounding and every sequence of calls.  The invariant   *)
(* that carries it: since the last wrap, the pointer is beyond everything  *)
(* that came from it.                                                      *)

Blocks == [addr : Nat, size : Nat, from : {"pointer", "guest", "wrap"}, lap : Nat]

HeapTyping ==
  /\ heapPtr \in 0 .. (Word - 1)
  /\ laps \in Nat
  /\ blocks \subseteq Blocks

BehindPointer ==
  /\ \A b \in blocks : b.lap <= laps
  /\ \A b \in blocks : b.from = "pointer" /\ b.lap = laps => b.addr + b.size <= heapPtr

HeapInv == HeapTyping /\ BehindPointer /\ OverlapsExplained

(* What a call adds to the blocks, or nothing.                             *)
LEMMA ServedBlock ==
  ASSUME NEW addr, NEW bytes, NEW asked, NEW from, Serve(addr, bytes, asked, from)
  PROVE  \/ blocks' = blocks
         \/ blocks' = blocks \cup {[addr |-> addr, size |-> asked, from |-> from, lap |-> laps]}
BY DEF Serve, HandOut

(* A block that explains every overlap with it.                            *)
LEMMA ExplainedBlock ==
  ASSUME HeapInv, NEW c \in Blocks, blocks' = blocks \/ blocks' = blocks \cup {c},
         \A b \in blocks : ~Overlap(b, c) \/ b.from # "pointer" \/ c.from # "pointer" \/ b.lap # c.lap
  PROVE  OverlapsExplained' /\ blocks' \subseteq Blocks
<1>1. \A b \in blocks : Overlap(b, c) <=> Overlap(c, b)
  BY DEF Overlap
<1> QED
  BY <1>1 DEF HeapInv, HeapTyping, OverlapsExplained, Overlap

(* One call of either allocator that takes some bytes at addr.             *)
LEMMA BumpStep ==
  ASSUME HeapInv, NEW addr \in 0 .. (Word - 1), NEW bytes \in 0 .. (Word - 1),
         NEW asked \in Nat, Bump(addr, bytes, asked)
  PROVE  HeapInv'
<1> DEFINE from == IF Wraps(addr, bytes, asked) THEN "wrap" ELSE "pointer"
           c == [addr |-> addr, size |-> asked, from |-> from, lap |-> laps]
<1>1. /\ Word \in Nat /\ heapPtr \in Nat /\ heapPtr < Word /\ laps \in Nat
      /\ addr \in Nat /\ bytes \in Nat /\ addr < Word
  BY BoundsAssumption DEF HeapInv, HeapTyping
<1>2. /\ heapPtr' = (addr + bytes) % Word
      /\ laps' = IF Wraps(addr, bytes, asked) THEN laps + 1 ELSE laps
      /\ blocks' = blocks \/ blocks' = blocks \cup {c}
  BY ServedBlock DEF Bump
<1>3. /\ c \in Blocks /\ c.addr = addr /\ c.size = asked /\ c.lap = laps
      /\ c.from = IF Wraps(addr, bytes, asked) THEN "wrap" ELSE "pointer"
  BY <1>1 DEF Blocks
<1> HIDE DEF c
<1>4. heapPtr' \in 0 .. (Word - 1) /\ laps' \in Nat
  BY <1>1, <1>2
<1>5. ASSUME NEW b \in blocks
      PROVE  /\ b.addr \in Nat /\ b.size \in Nat /\ b.lap \in Nat /\ b.lap <= laps
             /\ b.from = "pointer" /\ b.lap = laps => b.addr + b.size <= heapPtr
  BY DEF HeapInv, HeapTyping, BehindPointer, Blocks
<1>6. CASE Wraps(addr, bytes, asked)
  <2>1. OverlapsExplained' /\ blocks' \subseteq Blocks
    BY <1>2, <1>3, <1>6, ExplainedBlock
  <2>2. \A b \in blocks' : b.lap <= laps /\ b.lap \in Nat
    BY <1>1, <1>2, <1>3, <1>5
  <2>3. BehindPointer'
    BY <1>1, <1>2, <1>6, <2>2 DEF BehindPointer
  <2> QED
    BY <1>4, <2>1, <2>3 DEF HeapInv, HeapTyping
<1>7. CASE ~Wraps(addr, bytes, asked)
  <2>1. heapPtr <= addr /\ asked <= bytes /\ addr + bytes < Word
    BY <1>1, <1>7 DEF Wraps
  <2>2. heapPtr' = addr + bytes /\ laps' = laps
    <3>1. (addr + bytes) % Word = addr + bytes
      BY <1>1, <2>1
    <3> QED
      BY <1>2, <1>7, <3>1
  <2>3. \A b \in blocks :
          ~Overlap(b, c) \/ b.from # "pointer" \/ c.from # "pointer" \/ b.lap # c.lap
    BY <1>1, <1>3, <1>5, <2>1 DEF Overlap
  <2>4. OverlapsExplained' /\ blocks' \subseteq Blocks
    BY <1>2, <1>3, <2>3, ExplainedBlock
  <2>5. BehindPointer'
    BY <1>1, <1>2, <1>3, <1>5, <2>1, <2>2 DEF BehindPointer
  <2> QED
    BY <1>4, <2>4, <2>5 DEF HeapInv, HeapTyping
<1> QED
  BY <1>6, <1>7

LEMMA AllocAtStep ==
  ASSUME HeapInv, NEW base \in Bases, NEW bytes \in Sizes, AllocAt(base, bytes)
  PROVE  HeapInv'
<1> DEFINE c == [addr |-> base, size |-> bytes, from |-> "guest", lap |-> laps]
<1>1. UNCHANGED <<heapPtr, laps>> /\ Serve(base, PageUp(bytes), bytes, "guest")
  BY DEF AllocAt
<1>2. blocks' = blocks \/ blocks' = blocks \cup {c}
  BY <1>1, ServedBlock
<1>3. base \in 1 .. (Word - 1) /\ bytes \in 0 .. (Word - 1) /\ laps \in Nat /\ Word \in Nat
  BY BoundsAssumption DEF HeapInv, HeapTyping
<1>4. c \in Blocks /\ c.from = "guest" /\ c.lap = laps
  <2>1. base \in Nat /\ bytes \in Nat
    BY <1>3
  <2> QED
    BY <1>3, <2>1 DEF Blocks
<1> HIDE DEF c
<1>5. OverlapsExplained' /\ blocks' \subseteq Blocks
  BY <1>2, <1>4, ExplainedBlock
<1>6. BehindPointer'
  BY <1>1, <1>2, <1>3, <1>4 DEF HeapInv, BehindPointer
<1> QED
  BY <1>1, <1>5, <1>6 DEF HeapInv, HeapTyping

LEMMA HeapInvStep == HeapInv /\ [MemoryCall]_heapVars => HeapInv'
<1> SUFFICES ASSUME HeapInv, [MemoryCall]_heapVars PROVE HeapInv'
  OBVIOUS
<1>1. /\ heapPtr \in 0 .. (Word - 1)
      /\ \A s \in Sizes : s \in Nat /\ s \in 0 .. (Word - 1) /\ PageUp(s) \in 0 .. (Word - 1)
      /\ \A a \in Alignments : AlignUp(heapPtr, a) \in 0 .. (Word - 1)
  BY BoundsAssumption, RoundingAssumption DEF HeapInv, HeapTyping
<1>2. ASSUME NEW base \in Arguments, NEW bytes \in Arguments, NtAllocateVirtualMemory(base, bytes)
      PROVE  HeapInv'
  <2>1. bytes \in Sizes /\ (base # 0 => base \in Bases)
    BY ArgumentsAssumption
  <2>2. CASE base = 0
    BY <1>1, <1>2, <2>1, <2>2, BumpStep DEF NtAllocateVirtualMemory, AllocVirtualMemory
  <2>3. CASE base # 0
    BY <1>2, <2>1, <2>3, AllocAtStep DEF NtAllocateVirtualMemory
  <2> QED
    BY <2>2, <2>3
<1>3. ASSUME NEW s \in Sizes, NEW a \in Alignments, XMemAlloc(s, a) PROVE HeapInv'
  BY <1>1, <1>3, BumpStep DEF XMemAlloc
<1>4. ASSUME NEW e \in allocations, FreeVirtualMemory(e[1]) PROVE HeapInv'
  BY <1>4 DEF FreeVirtualMemory, HeapInv, HeapTyping, BehindPointer, OverlapsExplained
<1>5. CASE UNCHANGED heapVars
  BY <1>5 DEF heapVars, HeapInv, HeapTyping, BehindPointer, OverlapsExplained
<1> QED
  BY <1>2, <1>3, <1>4, <1>5 DEF MemoryCall

LEMMA HeapStarts == HeapInit => HeapInv
BY BoundsAssumption DEF HeapInit, HeapInv, HeapTyping, BehindPointer, OverlapsExplained

-----------------------------------------------------------------------------
(* What a guest copies of pad 0 under the mutex is the state of the last   *)
(* call of setInputState, for any number of guests, pads and fields.  The  *)
(* invariant that carries it: a field that the call in progress has not    *)
(* stored yet is of the call before, and what a guest has copied is of the *)
(* last call, since none can begin while the guest holds the pad.          *)

PollAts == {"idle", "read", "write", "copy"}
Polls == [pad : PolledPads, at : PollAts, since : Nat, packet : Nat, state : [Fields -> Nat]]

PadTyping ==
  /\ inputState \in [PolledPads -> [Fields -> Nat]]
  /\ padLock \in [PolledPads -> PadUsers \cup {Nobody}]
  /\ left \in [PadUsers -> SUBSET Fields]
  /\ sets \in Nat /\ (padLock[SetPad] = UI => sets > 0)
  /\ packetNum \in Nat
  /\ poll \in [PadGuests -> Polls]
  /\ answers \subseteq Polls

(* A guest is inside a call exactly while it holds the pad it polls, and   *)
(* the user interface while it has fields left to store or holds pad 0.    *)
HoldInv ==
  /\ \A g \in PadGuests, p \in PolledPads : padLock[p] = g <=> poll[g].at # "idle" /\ poll[g].pad = p
  /\ \A p \in PolledPads : padLock[p] = UI => p = SetPad
  /\ padLock[SetPad] # UI => left[UI] = {}
  /\ \A g \in PadGuests : poll[g].at \in {"read", "write"} => left[g] = Fields

(* The fields of pad 0 are those of the last call, except the ones that a  *)
(* call in progress has not stored yet.                                    *)
FieldsInv ==
  \A f \in Fields : inputState[SetPad][f] = IF f \in left[UI] THEN sets - 1 ELSE sets

(* What a guest copied is of the last call, which cannot be followed by    *)
(* another one before the guest lets go of the pad.                        *)
CopyInv ==
  \A g \in PadGuests : poll[g].at # "idle" /\ poll[g].pad = SetPad =>
    /\ poll[g].since <= sets
    /\ poll[g].at = "copy" => \A f \in Fields \ left[g] : poll[g].state[f] = sets

PadInv == PadTyping /\ HoldInv /\ FieldsInv /\ CopyInv /\ PadStatesWhole

(* A poll, and what each step of a guest does to its own, field by field.  *)
LEMMA PollFacts ==
  /\ \A q \in Polls : /\ q.pad \in PolledPads /\ q.at \in PollAts /\ q.since \in Nat
                      /\ q.packet \in Nat /\ q.state \in [Fields -> Nat]
  /\ \A p \in PolledPads, a \in PollAts, n \in Nat :
       /\ NewPoll(p, a, n) \in Polls
       /\ NewPoll(p, a, n).pad = p /\ NewPoll(p, a, n).at = a /\ NewPoll(p, a, n).since = n
BY DEF Polls, NewPoll

Others(g) == \A h \in PadGuests \ {g} : poll'[h] = poll[h]
SamePlace(g) == poll'[g].pad = poll[g].pad /\ poll'[g].since = poll[g].since

LEMMA PollStarted ==
  ASSUME PadTyping, NEW g \in PadGuests, NEW p \in PolledPads, Started(g, p)
  PROVE  /\ poll[g].at = "idle" /\ Others(g)
         /\ poll'[g] = NewPoll(p, "read", SetsDone) /\ SetsDone \in Nat
         /\ poll' \in [PadGuests -> Polls]
<1>1. SetsDone \in Nat
  BY DEF PadTyping, SetsDone
<1>2. NewPoll(p, "read", SetsDone) \in Polls
  BY <1>1, PollFacts DEF PollAts
<1> QED
  BY <1>1, <1>2 DEF PadTyping, Started, Others

LEMMA PollRead ==
  ASSUME PadTyping, NEW g \in PadGuests, ReadPacket(g)
  PROVE  /\ poll[g].at = "read" /\ Others(g) /\ SamePlace(g)
         /\ poll'[g].at = "write" /\ poll'[g].packet = packetNum + 1
         /\ poll'[g].state = poll[g].state
         /\ poll' \in [PadGuests -> Polls]
<1> DEFINE q == [poll[g] EXCEPT !.at = "write", !.packet = packetNum + 1]
<1>1. poll[g] \in Polls /\ packetNum + 1 \in Nat
  BY DEF PadTyping
<1>2. /\ q \in Polls /\ q.pad = poll[g].pad /\ q.since = poll[g].since /\ q.state = poll[g].state
      /\ q.at = "write" /\ q.packet = packetNum + 1
  BY <1>1 DEF Polls, PollAts
<1>3. poll' = [poll EXCEPT ![g] = q] /\ poll[g].at = "read"
  BY DEF ReadPacket
<1> HIDE DEF q
<1> QED
  BY <1>1, <1>2, <1>3 DEF PadTyping, Others, SamePlace

LEMMA PollWritten ==
  ASSUME PadTyping, NEW g \in PadGuests, WritePacket(g)
  PROVE  /\ poll[g].at = "write" /\ Others(g) /\ SamePlace(g)
         /\ poll'[g].at = "copy" /\ poll'[g].packet = poll[g].packet
         /\ poll'[g].state = poll[g].state
         /\ poll' \in [PadGuests -> Polls]
<1> DEFINE q == [poll[g] EXCEPT !.at = "copy"]
<1>1. poll[g] \in Polls
  BY DEF PadTyping
<1>2. /\ q \in Polls /\ q.pad = poll[g].pad /\ q.since = poll[g].since /\ q.state = poll[g].state
      /\ q.at = "copy" /\ q.packet = poll[g].packet
  BY <1>1 DEF Polls, PollAts
<1>3. poll' = [poll EXCEPT ![g] = q] /\ poll[g].at = "write"
  BY DEF WritePacket
<1> HIDE DEF q
<1> QED
  BY <1>1, <1>2, <1>3 DEF PadTyping, Others, SamePlace

LEMMA PollCopied ==
  ASSUME PadTyping, NEW g \in PadGuests, NEW f \in Fields, CopyField(g, f)
  PROVE  /\ poll[g].at = "copy" /\ Others(g) /\ SamePlace(g)
         /\ poll'[g].at = "copy" /\ poll'[g].packet = poll[g].packet
         /\ poll'[g].state[f] = inputState[poll[g].pad][f]
         /\ \A h \in Fields \ {f} : poll'[g].state[h] = poll[g].state[h]
         /\ poll' \in [PadGuests -> Polls]
<1> DEFINE s == [poll[g].state EXCEPT ![f] = inputState[poll[g].pad][f]]
           q == [poll[g] EXCEPT !.state = s]
<1>1. poll[g] \in Polls
  BY DEF PadTyping
<1>2. poll[g].state \in [Fields -> Nat] /\ inputState[poll[g].pad][f] \in Nat
  BY <1>1, PollFacts DEF PadTyping
<1>3. /\ s \in [Fields -> Nat] /\ s[f] = inputState[poll[g].pad][f]
      /\ \A h \in Fields \ {f} : s[h] = poll[g].state[h]
  BY <1>2
<1>4. poll' = [poll EXCEPT ![g] = q] /\ poll[g].at = "copy"
  BY DEF CopyField
<1> HIDE DEF s
<1>5. /\ q \in Polls /\ q.pad = poll[g].pad /\ q.since = poll[g].since /\ q.state = s
      /\ q.at = poll[g].at /\ q.packet = poll[g].packet
  BY <1>1, <1>3 DEF Polls
<1> HIDE DEF q
<1> QED
  BY <1>1, <1>3, <1>4, <1>5 DEF PadTyping, Others, SamePlace

LEMMA PollEnded ==
  ASSUME PadTyping, NEW g \in PadGuests, EndPoll(g)
  PROVE  /\ poll[g].at = "copy" /\ left[g] = {} /\ Others(g)
         /\ poll'[g].at = "idle" /\ poll[g] \in Polls
         /\ poll' \in [PadGuests -> Polls]
<1>1. NoPoll \in Polls /\ NoPoll.at = "idle"
  BY PollFacts, PadsAssumption DEF NoPoll, PollAts
<1> QED
  BY <1>1 DEF EndPoll, PadTyping, Others

LEMMA PadInit == PadsInit => PadInv
<1> SUFFICES ASSUME PadsInit PROVE PadInv
  OBVIOUS
<1>1. NoPoll \in Polls /\ NoPoll.at = "idle"
  BY PollFacts, PadsAssumption DEF NoPoll, PollAts
<1>2. PadTyping
  BY <1>1, PadsAssumption DEF PadsInit, PadTyping, PadUsers
<1>3. HoldInv /\ CopyInv
  BY <1>1, PadsAssumption DEF PadsInit, HoldInv, CopyInv, PadUsers
<1>4. FieldsInv
  BY PadsAssumption DEF PadsInit, FieldsInv, PadUsers
<1>5. PadStatesWhole
  BY <1>1 DEF PadsInit, PadStatesWhole
<1> QED
  BY <1>2, <1>3, <1>4, <1>5 DEF PadInv

LEMMA PadTypingStep == PadTyping /\ [PadsNext]_padVars => PadTyping'
<1> SUFFICES ASSUME PadTyping, [PadsNext]_padVars PROVE PadTyping'
  OBVIOUS
<1> USE PadsAssumption DEF PadTyping, PadUsers
<1>1. CASE BeginSet
  BY <1>1 DEF BeginSet, Lock
<1>2. CASE EndSet
  BY <1>2 DEF EndSet
<1>3. ASSUME NEW f \in Fields, SetField(f) PROVE PadTyping'
  <2>1. inputState[SetPad] \in [Fields -> Nat]
    OBVIOUS
  <2>2. inputState' = [inputState EXCEPT ![SetPad] = [inputState[SetPad] EXCEPT ![f] = sets]]
    BY <1>3 DEF SetField
  <2>3. inputState' \in [PolledPads -> [Fields -> Nat]]
    BY <2>1, <2>2
  <2> QED
    BY <1>3, <2>3 DEF SetField
<1>4. ASSUME NEW g \in PadGuests, NEW p \in PolledPads, BeginPoll(g, p) PROVE PadTyping'
  BY <1>4, PollStarted DEF BeginPoll, Started, Lock
<1>5. ASSUME NEW g \in PadGuests, ReadPacket(g) PROVE PadTyping'
  BY <1>5, PollRead DEF ReadPacket
<1>6. ASSUME NEW g \in PadGuests, WritePacket(g) PROVE PadTyping'
  <2>1. packetNum' \in Nat
    BY <1>6, PollFacts DEF WritePacket
  <2> QED
    BY <1>6, <2>1, PollWritten DEF WritePacket
<1>7. ASSUME NEW g \in PadGuests, EndPoll(g) PROVE PadTyping'
  <2>1. poll[g] \in Polls /\ poll' \in [PadGuests -> Polls]
    BY <1>7, PollEnded
  <2>2. padLock' \in [PolledPads -> PadUsers \cup {Nobody}] /\ (padLock'[SetPad] = UI => sets > 0)
    BY <1>7 DEF EndPoll
  <2> QED
    BY <1>7, <2>1, <2>2 DEF EndPoll
<1>8. ASSUME NEW g \in PadGuests, NEW f \in Fields, CopyField(g, f) PROVE PadTyping'
  BY <1>8, PollCopied DEF CopyField
<1>9. CASE UNCHANGED padVars
  BY <1>9 DEF padVars
<1> HIDE DEF PadTyping, PadUsers
<1> QED
  BY <1>1, <1>2, <1>3, <1>4, <1>5, <1>6, <1>7, <1>8, <1>9 DEF PadsNext

(* What an answer is worth: the state of one call, of those that the call  *)
(* of the guest can have met.                                              *)
WholeSince(q, k) == \E n \in q.since .. k : q.state = [f \in Fields |-> n]

LEMMA WholeLater ==
  ASSUME NEW q \in Polls, NEW k \in Nat, WholeSince(q, k)
  PROVE  WholeSince(q, k + 1)
BY PollFacts DEF WholeSince

LEMMA PadStep == PadInv /\ [PadsNext]_padVars => PadInv'
<1> SUFFICES ASSUME PadInv, [PadsNext]_padVars PROVE PadInv'
  OBVIOUS
<1>0. PadTyping /\ PadTyping' /\ HoldInv /\ FieldsInv /\ CopyInv /\ PadStatesWhole
  BY PadTypingStep DEF PadInv
<1> USE PadsAssumption
<1> SUFFICES HoldInv' /\ FieldsInv' /\ CopyInv' /\ PadStatesWhole'
  BY <1>0 DEF PadInv
<1>1. CASE BeginSet
  <2>1. HoldInv'
    BY <1>0, <1>1 DEF BeginSet, Lock, PadTyping, HoldInv, PadUsers
  <2>2. FieldsInv'
    BY <1>0, <1>1 DEF BeginSet, Lock, PadTyping, HoldInv, FieldsInv, PadUsers
  <2>3. CopyInv'
    BY <1>0, <1>1, PollFacts DEF BeginSet, Lock, PadTyping, HoldInv, CopyInv, PadUsers
  <2>4. PadStatesWhole'
    <3>1. answers' = answers /\ sets' = sets + 1
      BY <1>1 DEF BeginSet
    <3>2. \A a \in answers : a \in Polls /\ (a.pad = SetPad => WholeSince(a, sets))
      BY <1>0 DEF PadTyping, PadStatesWhole, WholeSince
    <3>3. \A a \in answers : a.pad = SetPad => WholeSince(a, sets + 1)
      BY <1>0, <3>2, WholeLater DEF PadTyping
    <3> QED
      BY <3>1, <3>3 DEF PadStatesWhole, WholeSince
  <2> QED
    BY <2>1, <2>2, <2>3, <2>4
<1>2. CASE EndSet
  <2>1. HoldInv'
    BY <1>0, <1>2 DEF EndSet, PadTyping, HoldInv, PadUsers
  <2>2. FieldsInv' /\ CopyInv' /\ PadStatesWhole'
    BY <1>0, <1>2 DEF EndSet, FieldsInv, CopyInv, PadStatesWhole
  <2> QED
    BY <2>1, <2>2
<1>3. ASSUME NEW f \in Fields, SetField(f) PROVE HoldInv' /\ FieldsInv' /\ CopyInv' /\ PadStatesWhole'
  <2>0. padLock[SetPad] = UI /\ left' = [left EXCEPT ![UI] = left[UI] \ {f}]
    BY <1>0, <1>3 DEF SetField, HoldInv
  <2>1. HoldInv'
    BY <1>0, <1>3, <2>0 DEF SetField, PadTyping, HoldInv, PadUsers
  <2>2. FieldsInv'
    BY <1>0, <1>3, <2>0 DEF SetField, PadTyping, FieldsInv, PadUsers
  <2>3. CopyInv'
    BY <1>0, <1>3, <2>0 DEF SetField, PadTyping, CopyInv, PadUsers, HoldInv
  <2>4. PadStatesWhole'
    BY <1>0, <1>3 DEF SetField, PadStatesWhole
  <2> QED
    BY <2>1, <2>2, <2>3, <2>4
<1>4. ASSUME NEW g \in PadGuests, NEW p \in PolledPads, BeginPoll(g, p)
      PROVE  HoldInv' /\ FieldsInv' /\ CopyInv' /\ PadStatesWhole'
  <2>1. /\ poll[g].at = "idle" /\ Others(g)
        /\ poll'[g] = NewPoll(p, "read", SetsDone)
    BY <1>0, <1>4, PollStarted DEF BeginPoll
  <2>2. /\ padLock[p] = Nobody /\ padLock' = [padLock EXCEPT ![p] = g]
        /\ left' = [left EXCEPT ![g] = Fields]
        /\ UNCHANGED <<inputState, sets, packetNum, answers>>
    BY <1>4 DEF BeginPoll, Started, Lock
  <2>3. poll'[g].at = "read" /\ poll'[g].pad = p /\ poll'[g].since = SetsDone
    BY <1>0, <2>1, PollFacts DEF PollAts, SetsDone, PadTyping
  <2>4. g \in PadUsers /\ g # UI /\ g # Nobody
    BY DEF PadUsers
  <2>5. HoldInv'
    BY <1>0, <2>1, <2>2, <2>3, <2>4 DEF HoldInv, PadTyping, Others, PadUsers
  <2>6. FieldsInv' /\ PadStatesWhole'
    BY <1>0, <2>2, <2>4 DEF FieldsInv, PadStatesWhole, PadTyping, PadUsers
  <2>7. CopyInv'
    BY <1>0, <2>1, <2>2, <2>3, <2>4 DEF CopyInv, PadTyping, Others, PadUsers, SetsDone
  <2> QED
    BY <2>5, <2>6, <2>7
<1>5. ASSUME NEW g \in PadGuests, ReadPacket(g)
      PROVE  HoldInv' /\ FieldsInv' /\ CopyInv' /\ PadStatesWhole'
  <2>1. /\ poll[g].at = "read" /\ Others(g) /\ SamePlace(g) /\ poll'[g].at = "write"
    BY <1>0, <1>5, PollRead
  <2>2. UNCHANGED <<inputState, padLock, left, sets, answers>>
    BY <1>5 DEF ReadPacket
  <2>3. HoldInv'
    BY <1>0, <2>1, <2>2 DEF HoldInv, Others, SamePlace
  <2>4. FieldsInv' /\ PadStatesWhole'
    BY <1>0, <2>2 DEF FieldsInv, PadStatesWhole
  <2>5. CopyInv'
    BY <1>0, <2>1, <2>2 DEF CopyInv, Others, SamePlace
  <2> QED
    BY <2>3, <2>4, <2>5
<1>6. ASSUME NEW g \in PadGuests, WritePacket(g)
      PROVE  HoldInv' /\ FieldsInv' /\ CopyInv' /\ PadStatesWhole'
  <2>1. /\ poll[g].at = "write" /\ Others(g) /\ SamePlace(g) /\ poll'[g].at = "copy"
    BY <1>0, <1>6, PollWritten
  <2>2. UNCHANGED <<inputState, padLock, left, sets, answers>>
    BY <1>6 DEF WritePacket
  <2>3. HoldInv'
    BY <1>0, <2>1, <2>2 DEF HoldInv, Others, SamePlace
  <2>4. FieldsInv' /\ PadStatesWhole'
    BY <1>0, <2>2 DEF FieldsInv, PadStatesWhole
  <2>5. left[g] = Fields
    BY <1>0, <2>1 DEF HoldInv
  <2>6. CopyInv'
    BY <1>0, <2>1, <2>2, <2>5 DEF CopyInv, Others, SamePlace
  <2> QED
    BY <2>3, <2>4, <2>6
<1>7. ASSUME NEW g \in PadGuests, NEW f \in Fields, CopyField(g, f)
      PROVE  HoldInv' /\ FieldsInv' /\ CopyInv' /\ PadStatesWhole'
  <2>1. /\ poll[g].at = "copy" /\ Others(g) /\ SamePlace(g) /\ poll'[g].at = "copy"
        /\ poll'[g].state[f] = inputState[poll[g].pad][f]
        /\ \A h \in Fields \ {f} : poll'[g].state[h] = poll[g].state[h]
    BY <1>0, <1>7, PollCopied
  <2>2. UNCHANGED <<inputState, padLock, sets, answers>> /\ left' = [left EXCEPT ![g] = left[g] \ {f}]
    BY <1>7 DEF CopyField
  <2>3. g \in PadUsers /\ g # UI
    BY DEF PadUsers
  <2>4. HoldInv'
    BY <1>0, <2>1, <2>2, <2>3 DEF HoldInv, Others, SamePlace, PadTyping, PadUsers
  <2>5. FieldsInv' /\ PadStatesWhole'
    BY <1>0, <2>2, <2>3 DEF FieldsInv, PadStatesWhole, PadTyping, PadUsers
  <2>6. poll[g].pad = SetPad => inputState[SetPad][f] = sets
    BY <1>0, <2>1, <2>3 DEF HoldInv, FieldsInv
  <2>7. \A h \in PadGuests \ {g} : left'[h] = left[h]
    BY <1>0, <2>2 DEF PadTyping, PadUsers
  <2>8. left'[g] = left[g] \ {f}
    BY <1>0, <2>2, <2>3 DEF PadTyping
  <2>9. CopyInv'
    BY <1>0, <2>1, <2>2, <2>6, <2>7, <2>8 DEF CopyInv, Others, SamePlace
  <2> QED
    BY <2>4, <2>5, <2>9
<1>8. ASSUME NEW g \in PadGuests, EndPoll(g)
      PROVE  HoldInv' /\ FieldsInv' /\ CopyInv' /\ PadStatesWhole'
  <2>1. /\ poll[g].at = "copy" /\ left[g] = {} /\ Others(g)
        /\ poll'[g].at = "idle" /\ poll[g] \in Polls
    BY <1>0, <1>8, PollEnded
  <2>2. /\ UNCHANGED <<inputState, left, sets>> /\ answers' = answers \cup {poll[g]}
        /\ padLock' = [padLock EXCEPT ![poll[g].pad] = IF padLock[poll[g].pad] = g THEN Nobody ELSE padLock[poll[g].pad]]
    BY <1>8 DEF EndPoll
  <2>3. /\ g \in PadUsers /\ g # UI /\ g # Nobody /\ poll[g].pad \in PolledPads
        /\ padLock[poll[g].pad] = g
    BY <1>0, <2>1, PollFacts DEF PadUsers, HoldInv
  <2>4. padLock' = [padLock EXCEPT ![poll[g].pad] = Nobody]
    BY <2>2, <2>3
  <2>5. HoldInv'
    <3>1. padLock'[poll[g].pad] = Nobody /\ \A p \in PolledPads \ {poll[g].pad} : padLock'[p] = padLock[p]
      BY <1>0, <2>3, <2>4 DEF PadTyping
    <3>2. \A h \in PadGuests : h \in PadUsers /\ h # Nobody
      BY DEF PadUsers
    <3>3. UI # Nobody
      BY DEF PadUsers
    <3>4. \A h \in PadGuests, p \in PolledPads : padLock'[p] = h <=> poll'[h].at # "idle" /\ poll'[h].pad = p
      <4> SUFFICES ASSUME NEW h \in PadGuests, NEW p \in PolledPads
                   PROVE  padLock'[p] = h <=> poll'[h].at # "idle" /\ poll'[h].pad = p
        OBVIOUS
      <4>1. CASE h = g
        BY <1>0, <2>1, <2>3, <3>1, <3>2, <4>1 DEF HoldInv
      <4>2. CASE h # g
        BY <1>0, <2>1, <2>3, <3>1, <3>2, <4>2 DEF HoldInv, Others
      <4> QED
        BY <4>1, <4>2
    <3>5. \A p \in PolledPads : padLock'[p] = UI => p = SetPad
      BY <1>0, <3>1, <3>3 DEF HoldInv
    <3>6. padLock'[SetPad] # UI => left'[UI] = {}
      BY <1>0, <2>2, <2>3, <3>1 DEF HoldInv
    <3>7. \A h \in PadGuests : poll'[h].at \in {"read", "write"} => left'[h] = Fields
      BY <1>0, <2>1, <2>2 DEF HoldInv, Others
    <3> QED
      BY <3>4, <3>5, <3>6, <3>7 DEF HoldInv
  <2>6. FieldsInv'
    BY <1>0, <2>2 DEF FieldsInv
  <2>7. CopyInv'
    BY <1>0, <2>1, <2>2 DEF CopyInv, Others
  <2>8. poll[g].pad = SetPad => WholeSince(poll[g], sets)
    <3>1. SUFFICES ASSUME poll[g].pad = SetPad PROVE WholeSince(poll[g], sets)
      OBVIOUS
    <3>2. poll[g].since \in Nat /\ poll[g].since <= sets /\ sets \in Nat
      BY <1>0, <2>1, <3>1, PollFacts DEF CopyInv, PadTyping
    <3>3. poll[g].state \in [Fields -> Nat] /\ \A f \in Fields : poll[g].state[f] = sets
      BY <1>0, <2>1, <3>1, PollFacts DEF CopyInv
    <3>4. poll[g].state = [f \in Fields |-> sets]
      BY <3>3
    <3> QED
      BY <3>2, <3>4 DEF WholeSince
  <2>9. PadStatesWhole'
    BY <1>0, <2>2, <2>8 DEF PadStatesWhole, WholeSince
  <2> QED
    BY <2>5, <2>6, <2>7, <2>9
<1>9. CASE UNCHANGED padVars
  BY <1>0, <1>9 DEF padVars, HoldInv, FieldsInv, CopyInv, PadStatesWhole
<1> QED
  BY <1>1, <1>2, <1>3, <1>4, <1>5, <1>6, <1>7, <1>8, <1>9 DEF PadsNext

LEMMA PadInvariant == PadsSafety => []PadInv
BY PadInit, PadStep, PTL DEF PadsSafety

(* A title never sees a state that is partly one and partly another.       *)
THEOREM PadsAreSeenWhole == PadsSafety => []PadStatesWhole
<1>1. PadInv => PadStatesWhole
  BY DEF PadInv
<1> QED
  BY <1>1, PadInvariant, PTL

-----------------------------------------------------------------------------
(* The kernel.                                                             *)

(* A step of the kernel is a step of one service, or none of it.           *)
LEMMA KernelSteps ==
  [KernelNext]_kernelVars =>
    [Next]_vars /\ [MemoryCall]_heapVars /\ [FilesNext]_filesVars /\ [PadsNext]_padVars
BY DEF KernelNext, kernelVars

(* Whatever guests ask for, at whichever address, are refused and free,    *)
(* they are handed out the same memory twice only where one of them gave   *)
(* the address or a sum wrapped round, in one of the two calls or between  *)
(* them.                                                                   *)
THEOREM OverlapsAreExplained == KernelSafety => []OverlapsExplained
<1>1. KernelInit => HeapInv
  BY HeapStarts DEF KernelInit
<1>2. HeapInv /\ [KernelNext]_kernelVars => HeapInv'
  BY KernelSteps, HeapInvStep
<1>3. HeapInv => OverlapsExplained
  BY DEF HeapInv
<1> QED
  BY <1>1, <1>2, <1>3, PTL DEF KernelSafety

(* What each service promises holds of the kernel that guests call: it     *)
(* neither restricts the services nor touches what one of them keeps.      *)
THEOREM KernelKeepsItsPromises ==
  KernelSpec => [](/\ OwnedMeansLocked /\ FreeMeansClear /\ NoLostWakeup /\ AutoResetWakesOne
                   /\ OverlapsExplained /\ StreamsHeld /\ KeptDataStays /\ PadStatesWhole)
<1>1. KernelInit => Init /\ FilesInit /\ PadsInit
  BY DEF KernelInit
<1>2. KernelSpec => Safety /\ FilesSafety /\ PadsSafety
  BY <1>1, KernelSteps, PTL DEF KernelSpec, KernelSafety, Safety, FilesSafety, PadsSafety
<1> QED
  BY <1>2, MutexExcludes, FreeMutexIsClear, WakeupsAreNotLost, AutoResetIsExclusive,
     OverlapsAreExplained, FilesAreHeldOnce, KeptDataIsKept, PadsAreSeenWhole, PTL DEF KernelSpec
=============================================================================
