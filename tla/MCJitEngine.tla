------------------------------ MODULE MCJitEngine ------------------------------
(* Instances of JitEngine for TLC: one executable per kind of entry point. *)
EXTENDS JitEngine

CONSTANTS Game, Other, Kernel, Tail, a1, a2

MCImages == {Game, Other, Kernel, Tail}
MCTwoImages == {Game, Other}
MCCodePcs == {a1, a2}

(* Two executables with entry points of their own, one whose entry point   *)
(* is in the HLE range and one whose entry point is cut off by the end of  *)
(* guest memory.                                                           *)
MCEntry ==
  [i \in MCImages |-> CASE i = Game -> a1 [] i = Other -> a2
                        [] i = Kernel -> "kernel" [] i = Tail -> "tail"]

(* Two executables linked at the same entry point.                         *)
MCSharedEntry == [i \in MCTwoImages |-> a1]
===============================================================================
