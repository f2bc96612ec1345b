-------------------------- MODULE MCCommandProcessor --------------------------
(* A memory with packets of every kind: two rings, an indirect buffer, a     *)
(* packet cut off by the end of its buffer, lengths and offsets that leave   *)
(* the registers.                                                            *)
EXTENDS CommandProcessor

Data(v) == [type |-> 2, opcode |-> 0, low |-> 0, regbase |-> 0, num |-> 0, value |-> v]
Packet0(reg, n) == [Data(0) EXCEPT !.type = 0, !.regbase = reg, !.num = n]
Packet1 == [Data(0) EXCEPT !.type = 1]
Packet2 == Data(0)
Packet3(op, low) == [Data(0) EXCEPT !.type = 3, !.opcode = op, !.low = low]

(* With OpWeight 1: opcode + low parameters.                                 *)
MCEventWriteEop == 0
MCSetShaderConstants == 1
MCIndirectBuffer == 2
MCSetConstant == 3
MCDrawIndx == 4
MCLoadState == 5

(* 0: ring A; 17: ring B; 26: a buffer that both refer to; 33: a ring that   *)
(* refers to itself; 36: one that is sent to 30, with a size that wraps.     *)
Words == <<
  Packet2, Packet1, Packet0(3, 2), Data(0), Data(0), Data(0),
  Packet3(MCIndirectBuffer, 0), Data(26), Data(6),
  Packet3(MCSetConstant, 0), Data(3), Data(0), Data(0),
  Packet3(MCEventWriteEop, 0),
  Packet3(MCSetShaderConstants, 0), Data(0),
  Packet3(MCDrawIndx, 1),
  Packet3(MCLoadState, 0), Data(0), Data(0), Data(0), Data(0), Data(0),
  Packet3(MCIndirectBuffer, 0), Data(30), Data(11),
  Packet3(MCDrawIndx, 0), Data(0), Data(0), Data(0), Data(0),
  Packet3(MCEventWriteEop, 0), Packet0(0, 4),
  Packet3(MCIndirectBuffer, 0), Data(33), Data(3),
  Packet3(MCIndirectBuffer, 0), Data(30), Data(44) >>

MCMemWords == Len(Words)
MCMaxValue == MCMemWords + 9
(* Behind guest memory: the end of a walk that comes there.                  *)
MCMemory == [a \in 0 .. MCMemWords + MCMaxValue - 1 |->
               IF a < MCMemWords THEN Words[a + 1] ELSE Packet3(MCLoadState, MCMemWords)]
MCRings == {[start |-> 0, size |-> 17], [start |-> 17, size |-> 9],
            [start |-> 9, size |-> 3], [start |-> 26, size |-> 7],
            [start |-> 33, size |-> 3], [start |-> 36, size |-> 3]}
===============================================================================
