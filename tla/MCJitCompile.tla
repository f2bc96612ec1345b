------------------------------ MODULE MCJitCompile ------------------------------
(* An instance of JitCompile for TLC: a guest program with an instruction  *)
(* of each size, in which blocks end at a branch, at a return, at the      *)
(* limit of four instructions and at the end of memory.                    *)
EXTENDS JitCompile

Instr(op, mapped, imm) == [op |-> op, mapped |-> mapped, imm |-> imm]
MCProgram ==
  << Instr("AddImm", TRUE, "negative"), Instr("AddImm", FALSE, "small"),
     Instr("AluImm", TRUE, "word"), Instr("AddImm", TRUE, "high"),
     Instr("Load", TRUE, "small"), Instr("Branch", TRUE, "small"),
     Instr("Return", TRUE, "small"), Instr("AddImm", TRUE, "negative") >>
MCCode == [a \in 0 .. 7 |-> MCProgram[a + 1]]
===============================================================================
