------------------------------- MODULE Pipeline -------------------------------
(***************************************************************************)
(* The pipelined processor of Lab 6: five stages between four buffers, a   *)
(* forwarding network, a stall for loads, and a branch prediction table.   *)
(*                                                                         *)
(* A step is one clock cycle.  At the rising edge the registers, the data  *)
(* memory and the prediction table are written; at the falling edge every  *)
(* buffer and the program counter take what the wires carry.  A rising     *)
(* flush resets a buffer, and a rising jump or branch loads the program    *)
(* counter, at once and not at an edge of the clock.                       *)
(***************************************************************************)
EXTENDS Instructions, FiniteSets

CONSTANTS Code,      \* bound: the instructions programs are made of
          Length     \* bound: their length, before a jump to itself

ASSUME CodeAssumption ==
  /\ Length \in 1..(Size - 1)
  /\ Code \subseteq Instruction /\ \A i \in Code : i.op \notin {"nop", "reset"}

VARIABLES program,   \* Instruction.txt
          pc,        \* the program counter
          table,     \* branchPredictionTable
          ifid, idex, exmem, memwb,  \* the four buffers
          regFile,   \* the registers
          memory     \* the data memory

vars == <<program, pc, table, ifid, idex, exmem, memwb, regFile, memory>>

\* The PC that a reset leaves in a buffer, all ones.
None == -1

Fetched  == [pc : Word \cup {None}, instruction : Instruction, predict : BOOLEAN]
Decoded  == [pc : Word \cup {None}, instruction : Instruction, predict : BOOLEAN,
             data1 : Word, data2 : Word, jumpAddr : Word]
Computed == [pc : Word \cup {None}, op : Op, result : Word, store : Word,
             writeReg : Register, branch : BOOLEAN, target : Word,
             correct : BOOLEAN]
Accessed == [pc : Word \cup {None}, op : Op, result : Word, read : Word,
             writeReg : Register]

ResetIFID  == [pc |-> None, instruction |-> Nop, predict |-> FALSE]
ResetIDEX  == [pc |-> None, instruction |-> [Nop EXCEPT !.op = "reset"],
               predict |-> FALSE, data1 |-> 0, data2 |-> 0, jumpAddr |-> 0]
ResetEXMEM == [pc |-> None, op |-> "reset", result |-> 0, store |-> 0,
               writeReg |-> 0, branch |-> FALSE, target |-> 0, correct |-> TRUE]
ResetMEMWB == [pc |-> None, op |-> "reset", result |-> 0, read |-> 0,
               writeReg |-> 0]

TypeOK ==
  /\ program \in [Word -> Instruction]
  /\ pc \in Word
  /\ table \in [0..15 -> BOOLEAN]
  /\ ifid \in Fetched /\ idex \in Decoded
  /\ exmem \in Computed /\ memwb \in Accessed
  /\ regFile \in [Register -> Word] /\ regFile[0] = 0
  /\ memory \in [Word -> Word]

-----------------------------------------------------------------------------
(* The wires. *)

\* InstructionDecode: what is written back, and the registers as read.
WB_writeReg  == IF memwb.op = "jal" THEN RA ELSE memwb.writeReg
forwardData  == IF memwb.op = "lw" THEN memwb.read ELSE memwb.result
WB_writeData == IF memwb.op = "jal" THEN Sum(memwb.pc, 1) ELSE forwardData

readData(r) == IF regWrite(memwb.op) /\ WB_writeReg = r
               THEN WB_writeData ELSE regFile[r]

\* Execution: an operand from the instruction before, or the one before it.
\* (Mutant: the older result is preferred.)
innerForward(r) == r = exmem.writeReg /\ r # 0
memForward(r)   == r = memwb.writeReg /\ regWrite(memwb.op) /\ r # 0

OperandOlder(r, v) == CASE memForward(r)   -> forwardData
                        [] innerForward(r) -> exmem.result
                        [] OTHER           -> v
Operand(r, v) == IF innerForward(r) THEN exmem.result
                 ELSE IF memForward(r) THEN forwardData ELSE v

\* An instruction i that waits for the load of register r before it.
Stalls(r, i) ==
  /\ r = i.rt \/ (r = i.rd /\ ~ALUSrc(i.op))
  /\ i.op # "lw" /\ ~jump(i.op)

MEM_stall == exmem.op = "lw" /\ Stalls(exmem.writeReg, idex.instruction)

ComputedIDEX ==
  LET i == idex.instruction
      b == IF ALUSrc(i.op) THEN Operand(0, i.imm) ELSE Operand(i.rt, idex.data2)
      r == ALU(i.op, Operand(i.rs, idex.data1), b)
      t == branchTaken(i.op, r = 0)
  IN  [pc |-> idex.pc, op |-> i.op, result |-> r,
       store    |-> Operand(i.rt, idex.data2),
       writeReg |-> IF regDst(i.op) THEN i.rd ELSE i.rt,
       branch   |-> t,
       target   |-> Sum(Sum(idex.pc, 1), i.imm),
       correct  |-> isBranch(i.op) => (idex.predict = t)]

\* BufferEXMEM takes nothing from a stage that stalls.
\* (Mutant: it is stalled like the others.)
ToEXMEMHeld == IF MEM_stall THEN exmem ELSE ComputedIDEX
ToEXMEM     == IF MEM_stall THEN ResetEXMEM ELSE ComputedIDEX

ToMEMWB(written) ==
  [pc |-> exmem.pc, op |-> exmem.op, result |-> exmem.result,
   read |-> IF exmem.op = "lw" THEN written[exmem.result] ELSE 0,
   writeReg |-> exmem.writeReg]

DecodedIFID ==
  LET i == ifid.instruction
  IN  [pc |-> ifid.pc, instruction |-> i, predict |-> ifid.predict,
       data1 |-> readData(i.rs), data2 |-> readData(i.rt),
       jumpAddr |-> IF i.op = "jr" THEN readData(i.rs) ELSE i.imm]

\* PC[6:3]: two instructions that follow each other share an entry.
Entry(a) == (a \div 2) % 16

-----------------------------------------------------------------------------
(* Programs. *)

\* The operands that Execution takes through its forwarding network.
Operands(i) ==
  (IF i.op \in {"R", "I", "lw", "sw", "beq", "bne"} THEN {i.rs} ELSE {})
    \cup (IF i.op \in {"R", "sw", "beq", "bne"} THEN {i.rt} ELSE {})

Writes(i) == CASE i.op = "R"           -> {i.rd}
               [] i.op \in {"I", "lw"} -> {i.rt}
               [] OTHER                -> {}

\* Instruction i may directly follow h, and h follow g.
Follows(g, h, i) ==
  /\ h.op \in {"sw", "beq", "bne"} => h.rt \notin Operands(i) \ {0}
  /\ h.op = "lw" /\ h.rt \in Operands(i) => Stalls(h.rt, i)
  /\ h.op = "lw" /\ Stalls(h.rt, i) => Writes(g) \cap Operands(i) \subseteq {h.rt}

\* The programs whose hazards the processor handles.  The register rt of a
\* store or a branch is not an operand of the next instruction.  A load is
\* used at once only where the stall detects it, and then with no operand of
\* the instruction before the load.  $0 is not written and $31 only read by
\* jr; jr reads no register that is still to be written.  No branch is met
\* with its entry of the table set: it goes forward, alone in its entry.
Handled(p) ==
  LET before(k, d) == IF k < d THEN Nop ELSE p[k - d]
  IN  \A k \in 0..(Length - 1) :
        /\ 0 \notin Writes(p[k])
        /\ RA \notin Operands(p[k])
        /\ ~jump(before(k, 1).op) =>
             Follows(before(k, 2), before(k, 1), p[k])
        /\ p[k].op = "jr" =>
             p[k].rs \notin Writes(before(k, 1)) \cup Writes(before(k, 2))
        /\ isBranch(p[k].op) =>
             /\ k + 1 + p[k].imm <= Length
             /\ \A j \in 0..(k - 1) : isBranch(p[j].op) => Entry(j) # Entry(k)
             /\ \A j \in 0..(Length - 1) : p[j].op # "jr"
        /\ p[k].op \in {"j", "jal"} => p[k].imm \in (k + 1)..Length

\* A program stays at its end.
End == [op |-> "j", rs |-> 0, rt |-> 0, rd |-> 0, imm |-> Length]
Ended(p) == [a \in Word |-> IF a < Length THEN p[a] ELSE End]

-----------------------------------------------------------------------------
(* Reset and clock. *)

Reset ==
  /\ pc = 0
  /\ table = [e \in 0..15 |-> FALSE]
  /\ ifid = ResetIFID /\ idex = ResetIDEX
  /\ exmem = ResetEXMEM /\ memwb = ResetMEMWB
  /\ regFile = [r \in Register |-> r]
  /\ memory = [a \in Word |-> (a + RA) % Size]

Init ==
  /\ \E p \in [0..(Length - 1) -> Code] : Handled(p) /\ program = Ended(p)
  /\ Reset

\* At the rising edge.
WriteBack == IF regWrite(memwb.op) /\ WB_writeReg # 0
             THEN [regFile EXCEPT ![WB_writeReg] = WB_writeData] ELSE regFile
Stored    == IF exmem.op = "sw"
             THEN [memory EXCEPT ![exmem.result] = exmem.store] ELSE memory
Learned   == IF exmem.correct THEN table
             ELSE [table EXCEPT ![Entry(exmem.pc)] = ~@]

\* A jump in BufferIDEX; a flush of BufferIFID.
Jumps(decoded) == jump(decoded.instruction.op)
Flushes(decoded, computed) == Jumps(decoded) \/ ~computed.correct

\* ProgramCounter at the falling edge.
PredictedPC ==
  LET i == program[pc]
  IN  IF isBranch(i.op) /\ Learned[Entry(pc)]
      THEN Sum(Sum(pc, 1), i.imm) ELSE Sum(pc, 1)
SteppedPC ==
  IF exmem.branch THEN exmem.target
  ELSE IF Jumps(idex) THEN idex.jumpAddr
  ELSE IF MEM_stall THEN pc ELSE PredictedPC

\* A flush resets BufferIDEX when it rises, and as long as it lasts.
ToIDEX(computed) ==
  IF ~exmem.correct \/ ~computed.correct THEN ResetIDEX
  ELSE IF MEM_stall THEN idex ELSE DecodedIFID

ToIFID(decoded, computed) ==
  IF Flushes(idex, exmem) \/ Flushes(decoded, computed) THEN ResetIFID
  ELSE IF MEM_stall THEN ifid
  ELSE [pc |-> pc, instruction |-> program[pc], predict |-> Learned[Entry(pc)]]

\* A branch or a jump that rises loads the program counter as well.
ToPC(decoded, computed) ==
  LET risingBranch == computed.branch /\ ~exmem.branch
      risingJump   == Jumps(decoded) /\ ~Jumps(idex)
  IN  IF risingBranch \/ (risingJump /\ computed.branch) THEN computed.target
      ELSE IF risingJump THEN decoded.jumpAddr ELSE SteppedPC

Clock ==
  /\ regFile' = WriteBack
  /\ memory'  = Stored
  /\ table'   = Learned
  /\ exmem'   = ToEXMEM
  /\ memwb'   = ToMEMWB(memory')
  /\ idex'    = ToIDEX(exmem')
  /\ ifid'    = ToIFID(idex', exmem')
  /\ pc'      = ToPC(idex', exmem')
  /\ UNCHANGED program

Next == Clock

Spec == Init /\ [][Next]_vars

\* The clock ticks.
FairSpec == Spec /\ WF_vars(Clock)

-----------------------------------------------------------------------------
(* Properties. *)

\* The instruction that has passed neither the memory stage nor a flush and
\* is next in program order.
Oldest ==
  IF exmem.pc # None THEN exmem.pc
  ELSE IF idex.pc # None THEN idex.pc
  ELSE IF ifid.pc # None THEN ifid.pc ELSE pc

\* The pipeline computes what the single-cycle processor does: registers with
\* what is being written back, memory, and the order of instructions agree
\* after each instruction that passes the memory stage (Top.v).
Processor == INSTANCE SingleCycle WITH pc <- Oldest, regFile <- WriteBack
ImplementsSingleCycle == Processor!Spec

\* No stall and no flush repeats for ever: every program without a return
\* gets to its end.
GetsToEnd ==
  (\A a \in Word : program[a].op # "jr") ~> Oldest = Length

=============================================================================
