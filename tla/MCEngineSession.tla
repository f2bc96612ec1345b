---------------------------- MODULE MCEngineSession ----------------------------
(* Instances of EngineSession for TLC: a library of two XEX games, or of   *)
(* two XEX games and a disc image.                                         *)
EXTENDS EngineSession

CONSTANTS Game, Broken, a1, a2

MCImages == {Game, Broken}
MCXexGames == {"xex", "broken"}
MCCodePcs == {a1, a2}

(* One ordinary executable and one whose entry point is cut off by the end *)
(* of guest memory, so that its session ends in JitState::Error.           *)
MCEntry == [i \in MCImages |-> IF i = Game THEN a1 ELSE "tail"]
MCXexImageOf == [g \in MCXexGames |-> IF g = "xex" THEN Game ELSE Broken]

(* The same and a disc image.                                              *)
MCMixedGames == MCXexGames \cup {"disc"}
MCMixedImageOf == [g \in MCMixedGames |-> IF g = "disc" THEN NoImage ELSE MCXexImageOf[g]]
===============================================================================
