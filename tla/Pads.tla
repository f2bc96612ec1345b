---------------------------------- MODULE Pads ----------------------------------
(***************************************************************************)
(* The pads of the HLE kernel (input.cpp): the user interface's thread     *)
(* stores the state of a pad field by field, guest threads copy it out     *)
(* field by field, and the mutex of the pad keeps them apart.  The packet  *)
(* number, by which a title sees whether a state is new, is one counter    *)
(* for all pads, without a lock of its own.                                *)
(*                                                                         *)
(* A field holds the number of the call of setInputState that stored it.   *)
(***************************************************************************)
EXTENDS Naturals

CONSTANTS
  PadGuests,        \* guest threads that poll pads
  UI,               \* the thread that calls setInputState
  PolledPads,       \* pads they poll; the application sets pad 0 only
  Fields,           \* buttons, triggers, sticks
  MaxSets,          \* bound: calls of setInputState
  MaxPolls          \* bound: calls of getInputState

Nobody == "nobody"
PadUsers == PadGuests \cup {UI}
SetPad == 0

ASSUME PadsAssumption ==
  /\ UI \notin PadGuests /\ Nobody \notin PadUsers
  /\ SetPad \in PolledPads

VARIABLES
  inputState,       \* inputState[p][f]: m_inputState
  padLock,          \* padLock[p]: who holds its mutex
  left,             \* left[u]: fields that the call of u has still to move
  sets,             \* calls of setInputState so far
  packetNum,        \* static packetNum
  poll,             \* poll[g]: what guest g has of its answer so far
  answers,          \* history: the answers of getInputState
  polls             \* calls of getInputState so far

padVars == <<inputState, padLock, left, sets, packetNum, poll, answers, polls>>

NewPoll(p, at, since) ==
  [pad |-> p, at |-> at, since |-> since, packet |-> 0, state |-> [f \in Fields |-> 0]]
NoPoll == NewPoll(SetPad, "idle", 0)

PadsInit ==
  /\ inputState = [p \in PolledPads |-> [f \in Fields |-> 0]]
  /\ padLock = [p \in PolledPads |-> Nobody]
  /\ left = [u \in PadUsers |-> {}]
  /\ sets = 0
  /\ packetNum = 0
  /\ poll = [g \in PadGuests |-> NoPoll]
  /\ answers = {}
  /\ polls = 0

Lock(p, u) ==
  /\ padLock[p] = Nobody
  /\ padLock' = [padLock EXCEPT ![p] = u]
  /\ left' = [left EXCEPT ![u] = Fields]

(* setInputState *)
BeginSet ==
  /\ sets < MaxSets
  /\ Lock(SetPad, UI)
  /\ sets' = sets + 1
  /\ UNCHANGED <<inputState, packetNum, poll, answers, polls>>
SetField(f) ==
  /\ f \in left[UI]
  /\ inputState' = [inputState EXCEPT ![SetPad][f] = sets]
  /\ left' = [left EXCEPT ![UI] = @ \ {f}]
  /\ UNCHANGED <<padLock, sets, packetNum, poll, answers, polls>>
EndSet ==
  /\ padLock[SetPad] = UI /\ left[UI] = {}
  /\ padLock' = [padLock EXCEPT ![SetPad] = Nobody]
  /\ UNCHANGED <<inputState, left, sets, packetNum, poll, answers, polls>>

(* getInputState.  ++packetNum is a read and a write, and what other pads' *)
(* readers do in between is lost.                                          *)
SetsDone == IF padLock[SetPad] = UI THEN sets - 1 ELSE sets
Started(g, p) ==
  /\ polls < MaxPolls /\ poll[g].at = "idle"
  /\ polls' = polls + 1
  /\ poll' = [poll EXCEPT ![g] = NewPoll(p, "read", SetsDone)]
  /\ UNCHANGED <<inputState, sets, packetNum, answers>>
BeginPoll_Unlocked(g, p) ==
  /\ Started(g, p)
  /\ left' = [left EXCEPT ![g] = Fields]
  /\ UNCHANGED padLock
BeginPoll(g, p) == Started(g, p) /\ Lock(p, g)
ReadPacket(g) ==
  /\ poll[g].at = "read"
  /\ poll' = [poll EXCEPT ![g] = [@ EXCEPT !.at = "write", !.packet = packetNum + 1]]
  /\ UNCHANGED <<inputState, padLock, left, sets, packetNum, answers, polls>>
WritePacket(g) ==
  /\ poll[g].at = "write"
  /\ packetNum' = poll[g].packet
  /\ poll' = [poll EXCEPT ![g].at = "copy"]
  /\ UNCHANGED <<inputState, padLock, left, sets, answers, polls>>
CopyField(g, f) ==
  /\ poll[g].at = "copy" /\ f \in left[g]
  /\ poll' = [poll EXCEPT ![g].state[f] = inputState[poll[g].pad][f]]
  /\ left' = [left EXCEPT ![g] = @ \ {f}]
  /\ UNCHANGED <<inputState, padLock, sets, packetNum, answers, polls>>
EndPoll(g) ==
  LET p == poll[g].pad IN
  /\ poll[g].at = "copy" /\ left[g] = {}
  /\ padLock' = [padLock EXCEPT ![p] = IF @ = g THEN Nobody ELSE @]
  /\ poll' = [poll EXCEPT ![g] = NoPoll]
  /\ answers' = answers \cup {poll[g]}
  /\ UNCHANGED <<inputState, left, sets, packetNum, polls>>

PadsNext ==
  \/ BeginSet \/ EndSet
  \/ \E f \in Fields : SetField(f)
  \/ \E g \in PadGuests :
       \/ \E p \in PolledPads : BeginPoll(g, p)
       \/ ReadPacket(g) \/ WritePacket(g) \/ EndPoll(g)
       \/ \E f \in Fields : CopyField(g, f)

PadsSafety == PadsInit /\ [][PadsNext]_padVars

-----------------------------------------------------------------------------
(* Properties *)

(* A title never sees a state that is partly one and partly another, nor   *)
(* one older than what the player did before it asked.                     *)
PadStatesWhole ==
  \A a \in answers : a.pad = SetPad =>
    \E n \in a.since .. sets : a.state = [f \in Fields |-> n]
===============================================================================
