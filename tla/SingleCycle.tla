----------------------------- MODULE SingleCycle -----------------------------
(***************************************************************************)
(* The single-cycle processor of Lab 5: an instruction is executed in each *)
(* clock cycle, with its writes to the registers and the memory.  It is    *)
(* what a pipeline promises to compute.  Wires follow what drives them, as *)
(* in the synthesized circuit: the incomplete sensitivity list of          *)
(* Registers.v, which only a simulator honours, is read as complete.       *)
(***************************************************************************)
EXTENDS Instructions

VARIABLES program,  \* Instruction.txt
          pc,       \* the program counter
          regFile,  \* the registers
          memory    \* the data memory

vars == <<program, pc, regFile, memory>>

Executed == program[pc]

writeReg ==
  CASE Executed.op = "jal"  -> RA
    [] regDst(Executed.op)  -> Executed.rd
    [] OTHER                -> Executed.rt

ALUResult ==
  ALU(Executed.op, regFile[Executed.rs],
      IF ALUSrc(Executed.op) THEN Executed.imm ELSE regFile[Executed.rt])

writeData ==
  CASE Executed.op = "jal" -> Sum(pc, 1)
    [] Executed.op = "lw"  -> memory[ALUResult]
    [] OTHER               -> ALUResult

ProgramCounter ==
  CASE branchTaken(Executed.op, ALUResult = 0) -> Sum(Sum(pc, 1), Executed.imm)
    [] Executed.op = "jr"                      -> regFile[Executed.rs]
    [] Executed.op \in {"j", "jal"}            -> Executed.imm
    [] OTHER                                   -> Sum(pc, 1)

Cycle ==
  /\ pc' = ProgramCounter
  /\ regFile' = IF regWrite(Executed.op) /\ writeReg # 0
                THEN [regFile EXCEPT ![writeReg] = writeData] ELSE regFile
  /\ memory' = IF Executed.op = "sw"
               THEN [memory EXCEPT ![ALUResult] = regFile[Executed.rt]]
               ELSE memory
  /\ UNCHANGED program

Init ==
  /\ program \in [Word -> Instruction]
  /\ pc = 0
  /\ regFile \in [Register -> Word] /\ regFile[0] = 0
  /\ memory  \in [Word -> Word]

Next == Cycle

Spec == Init /\ [][Next]_vars

=============================================================================
