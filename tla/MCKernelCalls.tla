----------------------------- MODULE MCKernelCalls -----------------------------
(* Instances of KernelCalls for TLC.                                       *)
EXTENDS KernelCalls, Bitwise

CONSTANTS g1, g2, g3

MCGuests == {g1, g2, g3}
MCTwice == {<<1, 1>>}
MCPair == {<<1, 2>>}

(* 12-bit addresses, a heap of 15 bytes with pages of 4, and the code's    *)
(* own formula for rounding up, (p + a - 1) & ~(a - 1), in 12 bits.        *)
Cleared(n, bits) == n - (n & bits)
MCAlignUp(p, a) == Cleared((p + a - 1) % Word, a - 1)
MCPageUp(s) == MCAlignUp(s, 4)
MCSizes == Arguments \cup {5, 17}
MCBases == Arguments \ {0}

(* One file, whose path guests spell with either slash.                    *)
MCHostDir == [d \in {"hdd1"} |-> "saveDir/hdd1"]
MCGuestPaths ==
  {[drive |-> "hdd1", slash |-> s, name |-> "save"] : s \in {"back slash", "/"}}

(* Two fields of a pad stand for all of them.                             *)
MCFields == {"buttons", "sticks"}

(* The liveness properties are checked of one guest: the guests are alike, *)
(* and the formulas for all of them take three times as long.              *)

(* A wait with a timeout ends, whatever the others do to its object.       *)
WaitsEnd == WaitEnds(g1)

(* A signal that stays reaches a guest that waits for it.                  *)
SignalReaches == SignalReachesGuest(g1)
===============================================================================
