---------------------------- MODULE PipelineProofs ----------------------------
(***************************************************************************)
(* Theorems about Pipeline, for any sizes and any programs that are        *)
(* Handled: it is well typed, and it implements SingleCycle.               *)
(*                                                                         *)
(* The argument: the buffers hold successive instructions of the program,  *)
(* or bubbles, each one where its predecessor leads (FlowInv, OrderInv).   *)
(* What Execution computes is what SingleCycle computes from the registers *)
(* as they will be when everything older has written (ResultInv).  It is,  *)
(* because an operand in ID/EX is right already, or is what one of the two *)
(* instructions ahead will write, and is forwarded from there (DataInv).   *)
(* A set entry of the prediction table belongs to a branch that is behind  *)
(* the oldest instruction, so no branch is predicted taken (TableInv).     *)
(*                                                                         *)
(* A cycle is one of six moves (ClockMoves): the buffers wait for a load,  *)
(* advance, or are filled again, or a branch (two cycles) or a jump leads  *)
(* elsewhere and empties those behind it.  One instruction at most gets    *)
(* past the memory stage in it, which is the step of SingleCycle.          *)
(***************************************************************************)
EXTENDS Pipeline, TLAPS

-----------------------------------------------------------------------------
(* The invariant. *)

\* What an instruction computes from the registers, and where it leads.
Outcome(i, regs) ==
  ALU(i.op, regs[i.rs], IF ALUSrc(i.op) THEN i.imm ELSE regs[i.rt])
Successor(a, i, regs) ==
  CASE branchTaken(i.op, Outcome(i, regs) = 0) -> Sum(Sum(a, 1), i.imm)
    [] i.op = "jr"                              -> regs[i.rs]
    [] i.op \in {"j", "jal"}                    -> i.imm
    [] OTHER                                    -> Sum(a, 1)

\* The field of an instruction that goes with it as its target
Named(i) == IF regDst(i.op) THEN i.rd ELSE i.rt

\* The program is one that is handled.
ProgramInv ==
  /\ Handled(program)
  /\ \A a \in Word : IF a < Length THEN program[a] \in Code ELSE program[a] = End

\* A buffer holds an instruction of the program, or a bubble.
FetchedInv ==
  IF ifid.pc = None THEN ifid = ResetIFID
  ELSE /\ ifid.instruction = program[ifid.pc]
       /\ isBranch(ifid.instruction.op) => ~ifid.predict
DecodedInv ==
  IF idex.pc = None
  THEN idex.instruction.op \in {"nop", "reset"} /\ idex.instruction.rt = RA
  ELSE /\ idex.instruction = program[idex.pc]
       /\ isBranch(idex.instruction.op) => ~idex.predict
ComputedInv ==
  IF exmem.pc = None
  THEN /\ exmem.op \in {"nop", "reset"} /\ exmem.writeReg \in {0, RA}
       /\ ~exmem.branch /\ exmem.correct
  ELSE /\ exmem.op = program[exmem.pc].op
       /\ exmem.writeReg = Named(program[exmem.pc])
AccessedInv ==
  IF memwb.pc = None THEN memwb.op \in {"nop", "reset"}
  ELSE /\ memwb.op = program[memwb.pc].op
       /\ memwb.writeReg = Named(program[memwb.pc])
       /\ memwb.op = "jr" => memwb.result = 0
HeldInv == FetchedInv /\ DecodedInv /\ ComputedInv /\ AccessedInv

\* The buffers hold instructions that follow each other, and behind one that
\* leads elsewhere none.
Diverts == exmem.branch \/ jump(exmem.op)
FlowInv ==
  /\ exmem.pc # None =>
       IF Diverts
       THEN /\ idex.pc = None /\ ifid.pc = None
            /\ pc = Successor(exmem.pc, program[exmem.pc], WriteBack)
       ELSE idex.pc = exmem.pc + 1
  /\ idex.pc # None =>
       IF jump(idex.instruction.op) THEN ifid.pc = None /\ pc = idex.jumpAddr
       ELSE ifid.pc = idex.pc + 1
  /\ ifid.pc # None /\ ~jump(ifid.instruction.op) => pc = ifid.pc + 1
OrderInv ==
  idex.pc # None =>
    \/ memwb.pc = None
    \/ exmem.pc # None /\ memwb.pc = idex.pc - 2 /\ ~jump(memwb.op)
    \/ exmem.pc = None /\ memwb.pc = idex.pc - 1 /\ memwb.op = "lw"

\* What the execution stage has computed is what the instruction computes.
ResultInv ==
  exmem.pc # None =>
    LET i == program[exmem.pc]
    IN  /\ exmem.result = Outcome(i, WriteBack)
        /\ i.op = "sw" => exmem.store = WriteBack[i.rt]
        /\ exmem.branch = branchTaken(i.op, exmem.result = 0)
        /\ exmem.correct = ~exmem.branch
        /\ exmem.branch => exmem.target = Sum(Sum(exmem.pc, 1), i.imm)

\* An operand is what it has to be, or will be forwarded from MEM/WB.
Ready(r, v) == ~memForward(r) => v = WriteBack[r]
DataInv ==
  idex.pc # None =>
    LET i == idex.instruction
    IN  /\ i.rs \in Operands(i) => Ready(i.rs, idex.data1)
        /\ i.rt \in Operands(i) => Ready(i.rt, idex.data2)
        /\ i.op = "jr" => idex.jumpAddr = WriteBack[i.rs]
        /\ i.op \in {"j", "jal"} => idex.jumpAddr = i.imm

\* An entry that is set is that of a branch that has been passed.
Branches == {b \in 0..(Length - 1) : isBranch(program[b].op)}
TableInv ==
  /\ Branches # {} => Oldest <= Length
  /\ \A e \in 0..15 : table[e] => \E b \in Branches : b < Oldest /\ Entry(b) = e

Inv == TypeOK /\ ProgramInv /\ HeldInv /\ FlowInv /\ OrderInv /\ ResultInv /\ DataInv /\ TableInv

-----------------------------------------------------------------------------
(* Words, programs and types. *)

LEMMA Words ==
  /\ Size \in Nat /\ Size > 0 /\ RA \in Nat /\ 0 < RA /\ RA < Size
  /\ Length \in Nat /\ 0 < Length /\ Length < Size /\ None \notin Word
  /\ \A a \in Int : a % Size \in Word
  /\ \A a \in Word : a % Size = a
<1>1. Size \in Nat /\ Size > 0 /\ RA \in Nat /\ 0 < RA /\ RA < Size
  BY SizeAssumption
<1>2. Length \in Nat /\ 0 < Length /\ Length < Size
  BY SizeAssumption, CodeAssumption
<1>3. None \notin Word
  BY <1>1 DEF None, Word
<1>4. \A a \in Int : a % Size \in Word
  BY <1>1 DEF Word
<1>5. \A a \in Word : a % Size = a
  BY <1>1 DEF Word
<1> QED BY <1>1, <1>2, <1>3, <1>4, <1>5

LEMMA Sums ==
  /\ \A a, b \in Int : Sum(a, b) \in Word
  /\ \A a, b \in Word : a + b < Size => Sum(a, b) = a + b
<1>1. ASSUME NEW a \in Int, NEW b \in Int PROVE Sum(a, b) \in Word
  BY Words DEF Sum
<1>2. ASSUME NEW a \in Word, NEW b \in Word, a + b < Size PROVE Sum(a, b) = a + b
  <2>1. a + b \in Word
    BY <1>2, Words DEF Word
  <2> QED BY <2>1, Words DEF Sum
<1> QED BY <1>1, <1>2

\* Behind an instruction that is no jump there is a next one.
LEMMA InProgram ==
  ASSUME TypeOK, ProgramInv, NEW a \in Word
  PROVE  /\ program[a] \in Instruction /\ program[a].op \notin {"nop", "reset"}
         /\ ~jump(program[a].op) => a < Length /\ a + 1 \in Word /\ Sum(a, 1) = a + 1
<1>1. program[a] \in Instruction
  BY DEF TypeOK
<1>2. CASE a < Length
  <2>1. program[a].op \notin {"nop", "reset"}
    BY <1>2, CodeAssumption DEF ProgramInv
  <2>2. a + 1 \in Word /\ 1 \in Word /\ a + 1 < Size
    BY <1>2, Words DEF Word
  <2> QED BY <1>1, <1>2, <2>1, <2>2, Sums
<1>3. CASE ~(a < Length)
  <2>1. program[a] = End
    BY <1>3 DEF ProgramInv
  <2> QED BY <1>1, <2>1 DEF End, jump
<1> QED BY <1>2, <1>3

LEMMA Fields ==
  ASSUME TypeOK
  PROVE  /\ pc \in Word /\ program \in [Word -> Instruction]
         /\ ifid.pc \in Word \cup {None} /\ ifid.instruction \in Instruction /\ ifid.predict \in BOOLEAN
         /\ idex.pc \in Word \cup {None} /\ idex.instruction \in Instruction /\ idex.predict \in BOOLEAN
         /\ idex.data1 \in Word /\ idex.data2 \in Word /\ idex.jumpAddr \in Word
         /\ exmem.pc \in Word \cup {None} /\ exmem.op \in Op /\ exmem.result \in Word
         /\ exmem.store \in Word /\ exmem.writeReg \in Register /\ exmem.branch \in BOOLEAN
         /\ exmem.target \in Word /\ exmem.correct \in BOOLEAN
         /\ memwb.pc \in Word \cup {None} /\ memwb.op \in Op /\ memwb.result \in Word
         /\ memwb.read \in Word /\ memwb.writeReg \in Register
BY DEF TypeOK, Fetched, Decoded, Computed, Accessed

-----------------------------------------------------------------------------
(* The types of the wires. *)

LEMMA ALUType == \A op : \A a, b \in Word : ALU(op, a, b) \in Word
<1>1. ASSUME NEW op, NEW a \in Word, NEW b \in Word PROVE ALU(op, a, b) \in Word
  <2>1. 0 \in Word /\ a \in Int /\ b \in Int
    BY Words DEF Word
  <2>2. (a - b) % Size \in Word /\ Sum(a, b) \in Word
    BY <2>1, Words, Sums
  <2> QED BY <2>1, <2>2 DEF ALU
<1> QED BY <1>1

LEMMA Wires ==
  ASSUME TypeOK
  PROVE  /\ forwardData \in Word /\ WB_writeData \in Word /\ WB_writeReg \in Register
         /\ \A r \in Register : readData(r) \in Word
         /\ \A r : \A v \in Word : Operand(r, v) \in Word
<1>1. forwardData \in Word
  BY Fields DEF forwardData
<1>2. WB_writeData \in Word
  <2>1. memwb.pc \in Int /\ 1 \in Int
    BY Fields DEF Word, None
  <2>2. Sum(memwb.pc, 1) \in Word
    BY <2>1, Sums
  <2> QED BY <1>1, <2>2 DEF WB_writeData
<1>3. WB_writeReg \in Register
  BY Fields, Words DEF WB_writeReg, Register
<1>4. \A r \in Register : readData(r) \in Word
  BY <1>2 DEF readData, TypeOK
<1>5. \A r : \A v \in Word : Operand(r, v) \in Word
  BY <1>1, Fields DEF Operand
<1> QED BY <1>1, <1>2, <1>3, <1>4, <1>5

\* What the execution stage makes of BufferIDEX
LEMMA ComputedWires ==
  ASSUME TypeOK
  PROVE  LET i == idex.instruction
             a == Operand(i.rs, idex.data1)
             b == IF ALUSrc(i.op) THEN Operand(0, i.imm) ELSE Operand(i.rt, idex.data2)
         IN  /\ ComputedIDEX \in Computed
             /\ ComputedIDEX.pc = idex.pc /\ ComputedIDEX.op = i.op
             /\ ComputedIDEX.result = ALU(i.op, a, b)
             /\ ComputedIDEX.store = Operand(i.rt, idex.data2)
             /\ ComputedIDEX.writeReg = Named(i)
             /\ ComputedIDEX.branch = branchTaken(i.op, ComputedIDEX.result = 0)
             /\ ComputedIDEX.target = Sum(Sum(idex.pc, 1), i.imm)
             /\ ComputedIDEX.correct = (isBranch(i.op) => idex.predict = ComputedIDEX.branch)
<1> DEFINE i == idex.instruction
           a == Operand(i.rs, idex.data1)
           b == IF ALUSrc(i.op) THEN Operand(0, i.imm) ELSE Operand(i.rt, idex.data2)
           r == ALU(i.op, a, b)
           t == branchTaken(i.op, r = 0)
           c == isBranch(i.op) => (idex.predict = t)
<1>1. /\ i \in Instruction /\ i.op \in Op /\ i.rt \in Register /\ i.rd \in Register
      /\ i.imm \in Word /\ idex.pc \in Word \cup {None}
  BY Fields DEF Instruction
<1>2. a \in Word /\ b \in Word /\ Operand(i.rt, idex.data2) \in Word
  BY <1>1, Fields, Wires
<1>3. r \in Word
  BY <1>2, ALUType
<1>4. t \in BOOLEAN /\ c \in BOOLEAN
  BY Zenon DEF branchTaken
<1>5. Sum(Sum(idex.pc, 1), i.imm) \in Word
  <2>1. idex.pc \in Int /\ i.imm \in Int /\ 1 \in Int
    BY <1>1 DEF Word, None
  <2>2. Sum(idex.pc, 1) \in Word
    BY <2>1, Sums
  <2>3. Sum(idex.pc, 1) \in Int
    BY <2>2 DEF Word
  <2> QED BY <2>1, <2>3, Sums
<1>6. Named(i) \in Register
  BY <1>1 DEF Named
<1>7. ComputedIDEX = [pc |-> idex.pc, op |-> i.op, result |-> r, store |-> Operand(i.rt, idex.data2),
                      writeReg |-> Named(i), branch |-> t, target |-> Sum(Sum(idex.pc, 1), i.imm),
                      correct |-> c]
  BY DEF ComputedIDEX, Named
<1> HIDE DEF t, c, r, a, b
<1>8. ComputedIDEX \in Computed
  BY <1>1, <1>2, <1>3, <1>4, <1>5, <1>6, <1>7 DEF Computed
<1>9. ComputedIDEX.result = r /\ ComputedIDEX.branch = t /\ ComputedIDEX.correct = c
  BY <1>7
<1>10. ComputedIDEX.branch = branchTaken(i.op, ComputedIDEX.result = 0)
  BY <1>9 DEF t
<1>11. ComputedIDEX.correct = (isBranch(i.op) => idex.predict = ComputedIDEX.branch)
  BY <1>9 DEF c, t
<1> QED BY <1>7, <1>8, <1>9, <1>10, <1>11 DEF r, a, b

\* What the decode stage makes of BufferIFID
LEMMA DecodedWires ==
  ASSUME TypeOK
  PROVE  LET i == ifid.instruction
         IN  /\ DecodedIFID \in Decoded
             /\ DecodedIFID.pc = ifid.pc /\ DecodedIFID.instruction = i
             /\ DecodedIFID.predict = ifid.predict
             /\ DecodedIFID.data1 = readData(i.rs) /\ DecodedIFID.data2 = readData(i.rt)
             /\ i.op = "jr" => DecodedIFID.jumpAddr = readData(i.rs)
             /\ i.op # "jr" => DecodedIFID.jumpAddr = i.imm
<1> DEFINE i == ifid.instruction
<1>1. /\ i \in Instruction /\ i.rs \in Register /\ i.rt \in Register /\ i.imm \in Word
  BY Fields DEF Instruction
<1>2. readData(i.rs) \in Word /\ readData(i.rt) \in Word
  BY <1>1, Wires
<1>3. DecodedIFID = [pc |-> ifid.pc, instruction |-> i, predict |-> ifid.predict,
                     data1 |-> readData(i.rs), data2 |-> readData(i.rt),
                     jumpAddr |-> IF i.op = "jr" THEN readData(i.rs) ELSE i.imm]
  BY DEF DecodedIFID
<1>4. ifid.pc \in Word \cup {None} /\ ifid.predict \in BOOLEAN
  BY Fields
<1> HIDE DEF i
<1>5. DecodedIFID \in Decoded
  BY <1>1, <1>2, <1>3, <1>4 DEF Decoded
<1> QED BY <1>3, <1>5 DEF i

\* What is fetched
Fetch == [pc |-> pc, instruction |-> program[pc], predict |-> Learned[Entry(pc)]]

LEMMA Entries == \A a \in Word : Entry(a) \in 0..15
BY Words DEF Entry, Word

LEMMA FetchType ==
  ASSUME TypeOK
  PROVE  Fetch \in Fetched /\ PredictedPC \in Word /\ Learned \in [0..15 -> BOOLEAN]
<1>1. Learned \in [0..15 -> BOOLEAN]
  BY DEF Learned, TypeOK
<1>2. program[pc] \in Instruction /\ pc \in Word /\ Learned[Entry(pc)] \in BOOLEAN
  BY <1>1, Fields, Entries
<1>3. Sum(pc, 1) \in Word /\ Sum(Sum(pc, 1), program[pc].imm) \in Word
  <2>1. pc \in Int /\ 1 \in Int /\ program[pc].imm \in Int
    BY <1>2 DEF Word, Instruction
  <2>2. Sum(pc, 1) \in Int
    BY <2>1, Sums DEF Word
  <2> QED BY <2>1, <2>2, Sums
<1> QED BY <1>1, <1>2, <1>3 DEF Fetch, Fetched, PredictedPC

-----------------------------------------------------------------------------
(* The moves of a clock cycle. *)

Empty(b) == b.pc = None /\ b.instruction = Nop /\ ~b.predict

\* A stall: only the load goes on.
Holds ==
  /\ MEM_stall
  /\ exmem.pc # None /\ exmem.op = "lw" /\ ~Diverts
  /\ idex.pc = exmem.pc + 1 /\ ifid.pc = idex.pc + 1 /\ ~jump(idex.instruction.op)
  /\ exmem' = ResetEXMEM /\ idex' = idex /\ ifid' = ifid /\ pc' = pc

\* A branch that is taken, and the cycle after it
Taken ==
  /\ idex.pc # None /\ ComputedIDEX.branch
  /\ idex' = ResetIDEX /\ ifid' = ResetIFID /\ pc' = ComputedIDEX.target
Flushed ==
  /\ exmem.pc # None /\ exmem.branch /\ idex.pc = None /\ ifid.pc = None
  /\ idex' = ResetIDEX /\ ifid' = ResetIFID /\ pc' = exmem.target

\* A jump behind the decode stage, and the cycle after it
JumpsOff ==
  /\ idex.pc # None /\ jump(idex.instruction.op) /\ ~ComputedIDEX.branch
  /\ Empty(idex') /\ ifid' = ResetIFID /\ pc' = idex.jumpAddr
Fills ==
  /\ ~exmem.branch /\ idex.pc = None /\ ifid.pc = None
  /\ Empty(idex') /\ ifid' = Fetch /\ pc' = PredictedPC

\* The next instruction is decoded, and another one fetched unless it jumps.
Advances ==
  /\ ifid.pc # None
  /\ IF idex.pc = None THEN exmem.pc = None
     ELSE ~jump(idex.instruction.op) /\ ~ComputedIDEX.branch
  /\ idex' = DecodedIFID
  /\ IF jump(ifid.instruction.op) THEN ifid' = ResetIFID /\ pc' = DecodedIFID.jumpAddr
     ELSE ifid' = Fetch /\ pc' = PredictedPC

Moves ==
  \/ Holds
  \/ /\ ~MEM_stall /\ exmem' = ComputedIDEX
     /\ Taken \/ Flushed \/ JumpsOff \/ Fills \/ Advances

LEMMA Correctness ==
  ASSUME Inv
  PROVE  /\ exmem.correct = ~exmem.branch /\ exmem.branch \in BOOLEAN
         /\ ComputedIDEX.correct = ~ComputedIDEX.branch /\ ComputedIDEX.branch \in BOOLEAN
         /\ idex.pc = None => ~ComputedIDEX.branch
         /\ jump(idex.instruction.op) => ~ComputedIDEX.branch
<1>1. TypeOK /\ HeldInv /\ ResultInv
  BY DEF Inv
<1>2. exmem.correct = ~exmem.branch /\ exmem.branch \in BOOLEAN
  BY <1>1, Fields DEF HeldInv, ComputedInv, ResultInv
<1>3. /\ ComputedIDEX.branch = branchTaken(idex.instruction.op, ComputedIDEX.result = 0)
      /\ ComputedIDEX.correct = (isBranch(idex.instruction.op) => idex.predict = ComputedIDEX.branch)
      /\ ComputedIDEX.branch \in BOOLEAN
  BY <1>1, ComputedWires DEF Computed
<1>4. idex.pc = None => idex.instruction.op \in {"nop", "reset"}
  BY <1>1 DEF HeldInv, DecodedInv
<1>5. isBranch(idex.instruction.op) => ~idex.predict
  BY <1>1, <1>4 DEF HeldInv, DecodedInv, isBranch
<1>6. ~isBranch(idex.instruction.op) => ~ComputedIDEX.branch
  BY <1>3 DEF branchTaken, isBranch
<1>7. ComputedIDEX.correct = ~ComputedIDEX.branch
  BY <1>1, <1>3, <1>5, <1>6, Fields
<1>8. /\ idex.pc = None => ~ComputedIDEX.branch
      /\ jump(idex.instruction.op) => ~ComputedIDEX.branch
  BY <1>4, <1>6 DEF isBranch, jump
<1> QED BY <1>2, <1>3, <1>7, <1>8

LEMMA ClockMoves == Inv /\ Clock => Moves
<1> SUFFICES ASSUME Inv, Clock PROVE Moves
  OBVIOUS
<1>1. TypeOK /\ ProgramInv /\ HeldInv /\ FlowInv /\ ResultInv
  BY DEF Inv
<1>2. /\ exmem.correct = ~exmem.branch /\ exmem.branch \in BOOLEAN
      /\ ComputedIDEX.correct = ~ComputedIDEX.branch /\ ComputedIDEX.branch \in BOOLEAN
      /\ idex.pc = None => ~ComputedIDEX.branch
      /\ jump(idex.instruction.op) => ~ComputedIDEX.branch
  BY Correctness
<1>3. /\ exmem' = ToEXMEM /\ idex' = ToIDEX(exmem') /\ ifid' = ToIFID(idex', exmem')
      /\ pc' = ToPC(idex', exmem')
  BY DEF Clock
<1>4. exmem.pc # None /\ ~Diverts => idex.pc = exmem.pc + 1 /\ exmem.pc \in Word
  BY <1>1, Fields DEF FlowInv
<1>5. exmem.pc # None /\ ~Diverts => idex.pc # None
  BY <1>4, Words DEF None, Word
<1>6. exmem.pc # None /\ Diverts => idex.pc = None /\ ifid.pc = None
  BY <1>1 DEF FlowInv
<1>7. idex.pc # None => IF jump(idex.instruction.op) THEN ifid.pc = None /\ pc = idex.jumpAddr
                        ELSE ifid.pc = idex.pc + 1
  BY <1>1 DEF FlowInv
<1>8. exmem.branch => exmem.pc # None
  BY <1>1 DEF HeldInv, ComputedInv
<1>9. idex.pc = None => ~jump(idex.instruction.op)
  BY <1>1 DEF HeldInv, DecodedInv, jump
<1>10. ifid.pc = None => ifid = ResetIFID
  BY <1>1 DEF HeldInv, FetchedInv
<1>11. /\ DecodedIFID.pc = ifid.pc /\ DecodedIFID.instruction = ifid.instruction
       /\ DecodedIFID.predict = ifid.predict
  BY <1>1, DecodedWires
<1>12. ~jump(ResetIDEX.instruction.op) /\ ~jump(ResetIFID.instruction.op)
  BY DEF ResetIDEX, ResetIFID, Nop, jump
<1>13. CASE MEM_stall
  <2>1. exmem.op = "lw"
    BY <1>13 DEF MEM_stall
  <2>2. exmem.pc # None /\ exmem.branch = branchTaken("lw", exmem.result = 0)
    BY <1>1, <2>1 DEF HeldInv, ComputedInv, ResultInv
  <2>3. ~exmem.branch /\ ~Diverts
    BY <2>1, <2>2 DEF branchTaken, Diverts, jump
  <2>4. ~jump(idex.instruction.op)
    BY <1>13 DEF MEM_stall, Stalls
  <2>5. exmem' = ResetEXMEM /\ exmem'.correct /\ ~exmem'.branch
    BY <1>3, <1>13 DEF ToEXMEM, ResetEXMEM
  <2>6. idex' = idex
    BY <1>2, <1>3, <1>13, <2>3, <2>5 DEF ToIDEX
  <2>7. ifid' = ifid
    BY <1>2, <1>3, <1>13, <2>3, <2>4, <2>5, <2>6 DEF ToIFID, Flushes, Jumps
  <2>8. pc' = pc
    BY <1>3, <1>13, <2>3, <2>4, <2>5, <2>6 DEF ToPC, SteppedPC, Jumps
  <2> QED BY <1>4, <1>5, <1>7, <1>13, <2>1, <2>2, <2>3, <2>4, <2>5, <2>6, <2>7, <2>8 DEF Moves, Holds
<1>14. CASE ~MEM_stall
  <2>1. exmem' = ComputedIDEX
    BY <1>3, <1>14 DEF ToEXMEM
  <2>2. CASE ComputedIDEX.branch
    <3>1. idex.pc # None /\ ~jump(idex.instruction.op) /\ idex' = ResetIDEX
      BY <1>2, <1>3, <2>1, <2>2 DEF ToIDEX
    <3>2. ~exmem.branch
      BY <1>6, <1>8, <3>1 DEF Diverts
    <3>3. ifid' = ResetIFID
      BY <1>2, <1>3, <2>1, <2>2 DEF ToIFID, Flushes
    <3>4. pc' = ComputedIDEX.target
      BY <1>3, <2>1, <2>2, <3>2 DEF ToPC
    <3> QED BY <1>14, <2>1, <2>2, <3>1, <3>3, <3>4 DEF Moves, Taken
  <2>3. CASE ~ComputedIDEX.branch /\ exmem.branch
    <3>1. exmem.pc # None /\ idex.pc = None /\ ifid.pc = None
      BY <1>6, <1>8, <2>3 DEF Diverts
    <3>2. idex' = ResetIDEX
      BY <1>2, <1>3, <2>3 DEF ToIDEX
    <3>3. ifid' = ResetIFID
      BY <1>2, <1>3, <2>3 DEF ToIFID, Flushes
    <3>4. pc' = exmem.target
      BY <1>3, <1>12, <2>1, <2>3, <3>2 DEF ToPC, SteppedPC, Jumps
    <3> QED BY <1>14, <2>1, <2>3, <3>1, <3>2, <3>3, <3>4 DEF Moves, Flushed
  <2>4. CASE ~ComputedIDEX.branch /\ ~exmem.branch
    <3>1. idex' = DecodedIFID /\ idex'.instruction = ifid.instruction
      BY <1>2, <1>3, <1>11, <1>14, <2>1, <2>4 DEF ToIDEX
    <3>2. exmem.correct /\ exmem'.correct /\ ~exmem'.branch
      BY <1>2, <2>1, <2>4
    <3>3. ifid.pc = None => Empty(idex')
      BY <1>10, <1>11, <3>1 DEF Empty, ResetIFID
    <3>4. CASE jump(idex.instruction.op)
      <4>1. idex.pc # None /\ ifid.pc = None
        BY <1>7, <1>9, <3>4
      <4>2. ifid' = ResetIFID
        BY <1>3, <3>4 DEF ToIFID, Flushes, Jumps
      <4>3. ~jump(idex'.instruction.op)
        BY <1>10, <1>12, <3>1, <4>1
      <4>4. pc' = idex.jumpAddr
        BY <1>3, <2>4, <3>2, <3>4, <4>3 DEF ToPC, SteppedPC, Jumps
      <4> QED BY <1>14, <2>1, <2>4, <3>3, <3>4, <4>1, <4>2, <4>4 DEF Moves, JumpsOff
    <3>5. CASE ~jump(idex.instruction.op) /\ jump(ifid.instruction.op)
      <4>1. ifid.pc # None
        BY <1>10, <1>12, <3>5
      <4>2. ifid' = ResetIFID
        BY <1>3, <3>1, <3>5 DEF ToIFID, Flushes, Jumps
      <4>3. pc' = DecodedIFID.jumpAddr
        BY <1>3, <3>1, <3>2, <3>5 DEF ToPC, Jumps
      <4>4. idex.pc = None => exmem.pc = None
        BY <1>5, <1>6, <4>1
      <4> QED BY <1>14, <2>1, <2>4, <3>1, <3>5, <4>1, <4>2, <4>3, <4>4 DEF Moves, Advances
    <3>6. CASE ~jump(idex.instruction.op) /\ ~jump(ifid.instruction.op)
      <4>1. ifid' = Fetch
        BY <1>3, <1>14, <3>1, <3>2, <3>6 DEF ToIFID, Flushes, Jumps, Fetch
      <4>2. pc' = PredictedPC
        BY <1>3, <1>14, <2>4, <3>1, <3>2, <3>6 DEF ToPC, SteppedPC, Jumps
      <4>3. CASE ifid.pc = None
        <5>1. idex.pc = None
          <6>1. ASSUME idex.pc # None PROVE ifid.pc # None
            <7>1. idex.pc \in Word /\ ifid.pc = idex.pc + 1
              BY <1>1, <1>7, <3>6, <6>1, Fields
            <7> QED BY <7>1, Words DEF None, Word
          <6> QED BY <4>3, <6>1
        <5> QED BY <1>14, <2>1, <2>4, <3>3, <4>1, <4>2, <4>3, <5>1 DEF Moves, Fills
      <4>4. CASE ifid.pc # None
        <5>1. idex.pc = None => exmem.pc = None
          BY <1>5, <1>6, <4>4
        <5> QED BY <1>14, <2>1, <2>4, <3>1, <3>6, <4>1, <4>2, <4>4, <5>1 DEF Moves, Advances
      <4> QED BY <4>3, <4>4
    <3> QED BY <3>4, <3>5, <3>6
  <2> QED BY <2>2, <2>3, <2>4
<1> QED BY <1>13, <1>14

LEMMA WriteBackType ==
  ASSUME TypeOK
  PROVE  WriteBack \in [Register -> Word] /\ WriteBack[0] = 0
BY Wires, Words DEF TypeOK, WriteBack, Register

\* BufferMEMWB takes the instruction from BufferEXMEM.
LEMMA AccessedWires ==
  ASSUME TypeOK
  PROVE  /\ Stored \in [Word -> Word] /\ ToMEMWB(Stored) \in Accessed
         /\ ToMEMWB(Stored).pc = exmem.pc /\ ToMEMWB(Stored).op = exmem.op
         /\ ToMEMWB(Stored).result = exmem.result /\ ToMEMWB(Stored).writeReg = exmem.writeReg
         /\ exmem.op = "lw" => ToMEMWB(Stored).read = Stored[exmem.result]
<1>1. Stored \in [Word -> Word]
  BY Fields DEF TypeOK, Stored
<1>2. 0 \in Word /\ Stored[exmem.result] \in Word
  <2>1. 0 \in Word
    BY Words DEF Word
  <2> QED BY <1>1, <2>1, Fields
<1> QED BY <1>1, <1>2, Fields DEF ToMEMWB, Accessed

LEMMA TypeStep == Inv /\ Clock => TypeOK'
<1> SUFFICES ASSUME Inv, Clock PROVE TypeOK'
  OBVIOUS
<1>1. TypeOK
  BY DEF Inv
<1>2. /\ 0 \in Word /\ 0 \in Register /\ RA \in Register /\ Size - 1 \in Word
  BY Words DEF Word, Register
<1>3. ResetIFID \in Fetched /\ ResetIDEX \in Decoded /\ ResetEXMEM \in Computed
  <2>1. Nop \in Instruction /\ [Nop EXCEPT !.op = "reset"] \in Instruction
    BY <1>2 DEF Nop, Instruction, Op
  <2> QED BY <1>2, <2>1 DEF ResetIFID, ResetIDEX, ResetEXMEM, Fetched, Decoded, Computed, Op
<1>4. /\ ComputedIDEX \in Computed /\ DecodedIFID \in Decoded /\ Fetch \in Fetched
      /\ PredictedPC \in Word /\ ToMEMWB(Stored) \in Accessed /\ Learned \in [0..15 -> BOOLEAN]
      /\ Stored \in [Word -> Word]
  BY <1>1, ComputedWires, DecodedWires, FetchType, AccessedWires
<1>5. regFile' \in [Register -> Word] /\ regFile'[0] = 0
  BY <1>1, WriteBackType DEF Clock
<1>6. /\ memory' \in [Word -> Word] /\ table' \in [0..15 -> BOOLEAN] /\ memwb' \in Accessed
      /\ program' \in [Word -> Instruction]
  BY <1>1, <1>4 DEF Clock, TypeOK
<1>7. exmem' \in Computed
  BY <1>3, <1>4 DEF Clock, ToEXMEM
<1>8. idex' \in Decoded
  BY <1>1, <1>3, <1>4 DEF Clock, ToIDEX, TypeOK
<1>9. ifid' \in Fetched
  BY <1>1, <1>3, <1>4 DEF Clock, ToIFID, TypeOK, Fetch
<1>10. pc' \in Word
  <2>1. exmem'.target \in Word
    BY <1>7 DEF Computed
  <2>2. idex'.jumpAddr \in Word
    BY <1>8 DEF Decoded
  <2>3. SteppedPC \in Word
    BY <1>1, <1>4, Fields DEF SteppedPC
  <2> QED BY <2>1, <2>2, <2>3 DEF Clock, ToPC
<1> QED BY <1>5, <1>6, <1>7, <1>8, <1>9, <1>10 DEF TypeOK

\* What the registers are after the instruction in the memory stage
Result(i) ==
  CASE i.op = "jal" -> Sum(exmem.pc, 1)
    [] i.op = "lw"  -> Stored[exmem.result]
    [] OTHER        -> exmem.result
Target(i) == IF i.op = "jal" THEN RA ELSE Named(i)

LEMMA Written ==
  ASSUME Inv, Clock
  PROVE  /\ exmem.pc = None => WriteBack' = WriteBack
         /\ exmem.pc # None =>
              LET i == program[exmem.pc]
              IN  WriteBack' = IF regWrite(i.op) /\ Target(i) # 0
                               THEN [WriteBack EXCEPT ![Target(i)] = Result(i)] ELSE WriteBack
<1>1. TypeOK /\ HeldInv
  BY DEF Inv
<1>2. /\ memwb'.pc = exmem.pc /\ memwb'.op = exmem.op /\ memwb'.result = exmem.result
      /\ memwb'.writeReg = exmem.writeReg /\ (exmem.op = "lw" => memwb'.read = Stored[exmem.result])
      /\ regFile' = WriteBack
  BY <1>1, AccessedWires DEF Clock
<1>3. CASE exmem.pc = None
  <2>1. ~regWrite(memwb'.op)
    BY <1>1, <1>2, <1>3 DEF HeldInv, ComputedInv, regWrite
  <2> QED BY <1>2, <1>3, <2>1 DEF WriteBack
<1>4. CASE exmem.pc # None
  <2> DEFINE i == program[exmem.pc]
  <2>1. exmem.op = i.op /\ exmem.writeReg = Named(i)
    BY <1>1, <1>4 DEF HeldInv, ComputedInv
  <2>2. WB_writeReg' = Target(i)
    BY <1>2, <2>1 DEF WB_writeReg, Target
  <2>3. WB_writeData' = Result(i)
    BY <1>2, <2>1 DEF WB_writeData, forwardData, Result
  <2>4. WriteBack' = IF regWrite(memwb'.op) /\ WB_writeReg' # 0
                     THEN [regFile' EXCEPT ![WB_writeReg'] = WB_writeData'] ELSE regFile'
    BY DEF WriteBack
  <2> QED BY <1>2, <1>4, <2>1, <2>2, <2>3, <2>4
<1> QED BY <1>3, <1>4

-----------------------------------------------------------------------------
(* What the execution stage computes. *)

\* What is known of an instruction of a program that is handled
LEMMA IsHandled ==
  ASSUME TypeOK, ProgramInv, NEW k \in Word, k < Length
  PROVE  LET i == program[k]
         IN  /\ 0 \notin Writes(i) /\ RA \notin Operands(i)
             /\ k > 0 => /\ k - 1 \in Word /\ k - 1 < Length
                         /\ ~jump(program[k - 1].op) =>
                              Follows(IF k < 2 THEN Nop ELSE program[k - 2], program[k - 1], i)
             /\ i.op = "jr" => /\ k > 0 => i.rs \notin Writes(program[k - 1])
                               /\ k > 1 => i.rs \notin Writes(program[k - 2])
             /\ isBranch(i.op) =>
                  /\ k + 1 + i.imm <= Length
                  /\ \A j \in 0..(k - 1) : isBranch(program[j].op) => Entry(j) # Entry(k)
                  /\ \A j \in 0..(Length - 1) : program[j].op # "jr"
             /\ i.op \in {"j", "jal"} => i.imm \in (k + 1)..Length
<1> DEFINE before(n, d) == IF n < d THEN Nop ELSE program[n - d]
<1>1. k \in 0..(Length - 1) /\ k \in Nat
  BY Words DEF Word
<1>2. LET i == program[k]
      IN  /\ 0 \notin Writes(i)
          /\ RA \notin Operands(i)
          /\ ~jump(before(k, 1).op) => Follows(before(k, 2), before(k, 1), i)
          /\ i.op = "jr" => i.rs \notin Writes(before(k, 1)) \cup Writes(before(k, 2))
          /\ isBranch(i.op) =>
               /\ k + 1 + i.imm <= Length
               /\ \A j \in 0..(k - 1) : isBranch(program[j].op) => Entry(j) # Entry(k)
               /\ \A j \in 0..(Length - 1) : program[j].op # "jr"
          /\ i.op \in {"j", "jal"} => i.imm \in (k + 1)..Length
  BY <1>1, Zenon DEF ProgramInv, Handled
<1>3. k > 0 => before(k, 1) = program[k - 1] /\ k - 1 \in Word /\ k - 1 < Length
  BY <1>1, Words DEF Word
<1>4. k > 1 => before(k, 2) = program[k - 2]
  BY <1>1
<1>5. before(k, 2) = IF k < 2 THEN Nop ELSE program[k - 2]
  OBVIOUS
<1> HIDE DEF before
<1> QED BY <1>2, <1>3, <1>4, <1>5

\* The instruction behind the one in the memory stage
LEMMA Behind ==
  ASSUME Inv, exmem.pc # None, idex.pc # None
  PROVE  /\ ~Diverts /\ exmem.pc \in Word /\ exmem.pc < Length /\ idex.pc = exmem.pc + 1
         /\ exmem.op = program[exmem.pc].op /\ exmem.writeReg = Named(program[exmem.pc])
         /\ exmem.op \in {"R", "I", "lw", "sw", "beq", "bne"}
         /\ Target(program[exmem.pc]) = exmem.writeReg
<1>1. TypeOK /\ ProgramInv /\ HeldInv /\ FlowInv
  BY DEF Inv
<1>2. ~Diverts /\ exmem.pc \in Word /\ idex.pc = exmem.pc + 1
  BY <1>1, Fields DEF FlowInv
<1>3. exmem.op = program[exmem.pc].op /\ exmem.writeReg = Named(program[exmem.pc])
  BY <1>1 DEF HeldInv, ComputedInv
<1>4. ~jump(exmem.op) /\ exmem.op \in Op
  BY <1>1, <1>2, Fields DEF Diverts
<1>5. exmem.pc < Length /\ exmem.op \notin {"nop", "reset"}
  BY <1>1, <1>2, <1>3, <1>4, InProgram
<1>6. exmem.op \in {"R", "I", "lw", "sw", "beq", "bne"}
  BY <1>4, <1>5 DEF Op, jump
<1>7. Target(program[exmem.pc]) = exmem.writeReg
  BY <1>3, <1>6 DEF Target
<1> QED BY <1>2, <1>3, <1>5, <1>6, <1>7

\* An instruction that has operands is in the program and reads neither $31 nor
\* what it does not name.
LEMMA HasOperands ==
  ASSUME TypeOK, ProgramInv, NEW k \in Word, NEW r \in Operands(program[k])
  PROVE  /\ k < Length /\ r \in Register /\ r # RA /\ ~jump(program[k].op)
<1>1. ~jump(program[k].op)
  BY DEF Operands, jump
<1>2. k < Length /\ program[k] \in Instruction
  BY <1>1, InProgram
<1>3. r \in Register
  BY <1>2 DEF Operands, Instruction
<1>4. r # RA
  BY <1>2, IsHandled
<1> QED BY <1>1, <1>2, <1>3, <1>4

\* Before the instruction in the memory stage has written, a value that is not
\* forwarded from there is right.
LEMMA ForwardedRight ==
  ASSUME Inv, idex.pc # None, NEW r \in Register, NEW v, Ready(r, v)
  PROVE  (IF memForward(r) THEN forwardData ELSE v) = WriteBack[r]
<1>1. TypeOK /\ HeldInv /\ OrderInv
  BY DEF Inv
<1>2. CASE memForward(r)
  <2>1. r = memwb.writeReg /\ regWrite(memwb.op) /\ r # 0
    BY <1>2 DEF memForward
  <2>2. memwb.op # "jal"
    BY <1>1, <2>1 DEF OrderInv, HeldInv, AccessedInv, regWrite, jump
  <2>3. WB_writeReg = r /\ WB_writeData = forwardData
    BY <2>1, <2>2 DEF WB_writeReg, WB_writeData
  <2> QED BY <1>1, <1>2, <2>1, <2>3 DEF WriteBack, TypeOK
<1>3. CASE ~memForward(r)
  BY <1>3 DEF Ready
<1> QED BY <1>2, <1>3

LEMMA OperandRight ==
  ASSUME Inv, Clock, ~MEM_stall, idex.pc # None,
         NEW r \in Operands(idex.instruction), NEW v, Ready(r, v)
  PROVE  Operand(r, v) = WriteBack'[r]
<1> DEFINE i == idex.instruction
           h == program[exmem.pc]
           base == IF memForward(r) THEN forwardData ELSE v
<1>1. TypeOK /\ ProgramInv /\ HeldInv /\ FlowInv
  BY DEF Inv
<1>2. i = program[idex.pc] /\ idex.pc \in Word
  BY <1>1, Fields DEF HeldInv, DecodedInv
<1>3. r \in Register /\ r # RA /\ idex.pc < Length
  BY <1>1, <1>2, HasOperands
<1>4. base = WriteBack[r]
  BY <1>3, ForwardedRight
<1>5. Operand(r, v) = IF innerForward(r) THEN exmem.result ELSE base
  BY DEF Operand
<1>6. WriteBack \in [Register -> Word]
  BY <1>1, WriteBackType
<1>7. CASE exmem.pc = None
  <2>1. exmem.writeReg \in {0, RA}
    BY <1>1, <1>7 DEF HeldInv, ComputedInv
  <2>2. ~innerForward(r)
    BY <1>3, <2>1 DEF innerForward
  <2> QED BY <1>4, <1>5, <1>7, <2>2, Written
<1>8. CASE exmem.pc # None
  <2>1. /\ exmem.pc \in Word /\ exmem.pc < Length /\ idex.pc = exmem.pc + 1
        /\ exmem.op = h.op /\ exmem.writeReg = Named(h) /\ Target(h) = exmem.writeReg
        /\ exmem.op \in {"R", "I", "lw", "sw", "beq", "bne"}
    BY <1>8, Behind
  <2>2. WriteBack' = IF regWrite(h.op) /\ exmem.writeReg # 0
                     THEN [WriteBack EXCEPT ![exmem.writeReg] = Result(h)] ELSE WriteBack
    BY <1>8, <2>1, Written
  <2>3. CASE ~innerForward(r)
    <3>1. r # exmem.writeReg \/ r = 0
      BY <2>3 DEF innerForward
    <3>2. WriteBack'[r] = WriteBack[r]
      BY <1>3, <1>6, <2>2, <3>1
    <3> QED BY <1>4, <1>5, <2>3, <3>2
  <2>4. CASE innerForward(r)
    <3>1. r = exmem.writeReg /\ r # 0
      BY <2>4 DEF innerForward
    <3>2. PICK g : Follows(g, h, i)
      <4>1. idex.pc > 0 /\ idex.pc - 1 = exmem.pc
        BY <2>1 DEF Word
      <4>2. ~jump(h.op)
        BY <2>1 DEF jump
      <4> QED BY <1>1, <1>2, <1>3, <4>1, <4>2, IsHandled
    <3>3. CASE h.op \in {"R", "I"}
      <4>1. regWrite(h.op) /\ Result(h) = exmem.result
        BY <3>3 DEF regWrite, Result
      <4> QED BY <1>3, <1>5, <1>6, <2>2, <2>4, <3>1, <4>1
    <3>4. CASE h.op = "lw"
      <4>1. Named(h) = h.rt
        BY <3>4 DEF Named, regDst
      <4>2. Stalls(exmem.writeReg, i)
        BY <2>1, <3>1, <3>2, <3>4, <4>1 DEF Follows
      <4> QED BY <2>1, <3>4, <4>2 DEF MEM_stall
    <3>5. CASE h.op \in {"sw", "beq", "bne"}
      <4>1. Named(h) = h.rt
        BY <3>5 DEF Named, regDst
      <4> QED BY <2>1, <3>1, <3>2, <3>5, <4>1 DEF Follows
    <3> QED BY <2>1, <3>3, <3>4, <3>5
  <2> QED BY <2>3, <2>4
<1> QED BY <1>7, <1>8

LEMMA ResultStep == Inv /\ Clock => ResultInv'
<1> SUFFICES ASSUME Inv, Clock, exmem'.pc # None PROVE ResultInv'
  BY DEF ResultInv
<1> DEFINE i == idex.instruction
           a == Operand(i.rs, idex.data1)
           b == IF ALUSrc(i.op) THEN Operand(0, i.imm) ELSE Operand(i.rt, idex.data2)
<1>1. TypeOK /\ ProgramInv /\ HeldInv /\ DataInv
  BY DEF Inv
<1>2. ~MEM_stall /\ exmem' = ComputedIDEX /\ program' = program
  BY DEF Clock, ToEXMEM, ResetEXMEM
<1>3. /\ exmem'.pc = idex.pc /\ exmem'.op = i.op /\ exmem'.result = ALU(i.op, a, b)
      /\ exmem'.store = Operand(i.rt, idex.data2)
      /\ exmem'.branch = branchTaken(i.op, exmem'.result = 0)
      /\ exmem'.target = Sum(Sum(idex.pc, 1), i.imm)
      /\ exmem'.correct = ~exmem'.branch
  BY <1>1, <1>2, ComputedWires, Correctness
<1>4. idex.pc # None /\ idex.pc \in Word /\ i = program[idex.pc] /\ i \in Instruction
  BY <1>1, <1>3, Fields DEF HeldInv, DecodedInv
<1>5. i.op \notin {"nop", "reset"} /\ i.op \in Op
  BY <1>1, <1>4, InProgram DEF Instruction
<1>6. i.rs \in Operands(i) => a = WriteBack'[i.rs]
  BY <1>1, <1>2, <1>4, OperandRight DEF DataInv
<1>7. i.rt \in Operands(i) => Operand(i.rt, idex.data2) = WriteBack'[i.rt]
  BY <1>1, <1>2, <1>4, OperandRight DEF DataInv
<1>8. Operand(0, i.imm) = i.imm
  BY DEF Operand, innerForward, memForward
<1>9. Outcome(i, WriteBack') = ALU(i.op, WriteBack'[i.rs], IF ALUSrc(i.op) THEN i.imm ELSE WriteBack'[i.rt])
  BY DEF Outcome
<1>10. ALU(i.op, a, b) = Outcome(i, WriteBack')
  <2>1. CASE i.op \in {"R", "beq", "bne"}
    <3>1. i.rs \in Operands(i) /\ i.rt \in Operands(i) /\ ~ALUSrc(i.op)
      BY <2>1 DEF Operands, ALUSrc
    <3> QED BY <1>6, <1>7, <1>9, <3>1
  <2>2. CASE i.op \in {"I", "lw", "sw"}
    <3>1. i.rs \in Operands(i) /\ ALUSrc(i.op)
      BY <2>2 DEF Operands, ALUSrc
    <3> QED BY <1>6, <1>8, <1>9, <3>1
  <2>3. CASE i.op \in {"j", "jal", "jr"}
    <3>1. \A x, y : ALU(i.op, x, y) = 0
      BY <2>3 DEF ALU
    <3> QED BY <1>9, <3>1
  <2> QED BY <1>5, <2>1, <2>2, <2>3 DEF Op
<1>11. i.op = "sw" => exmem'.store = WriteBack'[i.rt]
  BY <1>3, <1>7 DEF Operands
<1>12. program'[exmem'.pc] = i
  BY <1>2, <1>3, <1>4
<1> HIDE DEF i, a, b
<1> QED BY <1>3, <1>10, <1>11, <1>12 DEF ResultInv

-----------------------------------------------------------------------------
(* The order of instructions. *)

LEMMA NotDiverting ==
  ASSUME Inv, exmem.pc # None, ~Diverts
  PROVE  Successor(exmem.pc, program[exmem.pc], WriteBack) = idex.pc /\ idex.pc # None
<1> DEFINE i == program[exmem.pc]
<1>1. TypeOK /\ ProgramInv /\ HeldInv /\ FlowInv /\ ResultInv
  BY DEF Inv
<1>2. exmem.pc \in Word /\ exmem.op = i.op /\ idex.pc = exmem.pc + 1
  BY <1>1, Fields DEF HeldInv, ComputedInv, FlowInv
<1>3. ~jump(i.op) /\ ~branchTaken(i.op, Outcome(i, WriteBack) = 0)
  BY <1>1, <1>2 DEF Diverts, ResultInv
<1>4. Sum(exmem.pc, 1) = exmem.pc + 1
  BY <1>1, <1>2, <1>3, InProgram
<1>5. Successor(exmem.pc, i, WriteBack) = Sum(exmem.pc, 1)
  BY <1>3 DEF Successor, jump
<1> QED BY <1>2, <1>4, <1>5, Words DEF None, Word

\* A branch that is taken leads to its target.
Led ==
  exmem.pc # None /\ exmem.branch =>
    Successor(exmem.pc, program[exmem.pc], WriteBack) = exmem.target

LEMMA BranchLeads == ResultInv => Led
<1> DEFINE i == program[exmem.pc]
<1> SUFFICES ASSUME ResultInv, exmem.pc # None, exmem.branch
             PROVE  Successor(exmem.pc, i, WriteBack) = exmem.target
  BY DEF Led
<1>1. branchTaken(i.op, exmem.result = 0) /\ exmem.result = Outcome(i, WriteBack)
  BY DEF ResultInv
<1>2. exmem.target = Sum(Sum(exmem.pc, 1), i.imm)
  BY DEF ResultInv
<1>3. branchTaken(i.op, Outcome(i, WriteBack) = 0)
  BY <1>1
<1>4. i.op \in {"beq", "bne"}
  BY <1>1 DEF branchTaken
<1> HIDE DEF i
<1>5. Successor(exmem.pc, i, WriteBack) = Sum(Sum(exmem.pc, 1), i.imm)
  BY <1>3, <1>4 DEF Successor
<1> QED BY <1>2, <1>5

\* The oldest instruction under way is what the single-cycle processor executes next.
LEMMA OldestStep ==
  ASSUME Inv, Clock
  PROVE  Oldest' = IF exmem.pc = None THEN Oldest
                   ELSE Successor(exmem.pc, program[exmem.pc], WriteBack)
<1> DEFINE s == Successor(exmem.pc, program[exmem.pc], WriteBack)
<1>1. TypeOK /\ HeldInv /\ FlowInv /\ ResultInv /\ Moves
  BY ClockMoves DEF Inv
<1>2. /\ Oldest = IF exmem.pc # None THEN exmem.pc ELSE IF idex.pc # None THEN idex.pc
                  ELSE IF ifid.pc # None THEN ifid.pc ELSE pc
      /\ Oldest' = IF exmem'.pc # None THEN exmem'.pc ELSE IF idex'.pc # None THEN idex'.pc
                   ELSE IF ifid'.pc # None THEN ifid'.pc ELSE pc'
  BY DEF Oldest
<1>3. exmem.pc # None /\ ~Diverts => s = idex.pc /\ idex.pc # None
  BY NotDiverting
<1>4. CASE Holds
  <2>1. exmem'.pc = None /\ idex'.pc = idex.pc /\ exmem.pc # None /\ ~Diverts
    BY <1>4 DEF Holds, ResetEXMEM
  <2> QED BY <1>2, <1>3, <2>1
<1>5. CASE ~Holds
  <2>1. exmem' = ComputedIDEX /\ (Taken \/ Flushed \/ JumpsOff \/ Fills \/ Advances)
    BY <1>1, <1>5 DEF Moves
  <2>2. exmem'.pc = idex.pc
    BY <1>1, <2>1, ComputedWires
  <2>3. CASE idex.pc # None
    <3>1. exmem.pc # None => ~Diverts
      BY <1>1, <2>3 DEF FlowInv
    <3> QED BY <1>2, <1>3, <2>2, <2>3, <3>1
  <2>4. CASE idex.pc = None
    <3>1. CASE Flushed
      <4>1. exmem.pc # None /\ exmem.branch /\ idex'.pc = None /\ ifid'.pc = None /\ pc' = exmem.target
        BY <3>1 DEF Flushed, ResetIDEX, ResetIFID
      <4>2. s = exmem.target
        BY <1>1, <4>1, BranchLeads DEF Led
      <4> QED BY <1>2, <2>2, <2>4, <4>1, <4>2
    <3>2. CASE Fills
      <4>1. ifid.pc = None /\ idex'.pc = None /\ ifid'.pc = pc
        BY <3>2 DEF Fills, Empty, Fetch
      <4>2. pc \in Word /\ pc # None
        BY <1>1, Fields, Words
      <4>3. exmem.pc # None => s = pc
        BY <1>1, <1>3, <2>4 DEF FlowInv
      <4> QED BY <1>2, <2>2, <2>4, <4>1, <4>2, <4>3
    <3>3. CASE Advances
      <4>1. ifid.pc # None /\ exmem.pc = None /\ idex'.pc = ifid.pc
        BY <1>1, <2>4, <3>3, DecodedWires DEF Advances
      <4> QED BY <1>2, <2>2, <2>4, <4>1
    <3> QED BY <2>1, <2>4, <3>1, <3>2, <3>3 DEF Taken, JumpsOff
  <2> QED BY <2>3, <2>4
<1> QED BY <1>4, <1>5

\* In a program with branches every instruction leads forward.
LEMMA Forward ==
  ASSUME TypeOK, ProgramInv, Branches # {}, NEW k \in Word, NEW regs
  PROVE  LET s == Successor(k, program[k], regs)
         IN  /\ s \in Nat /\ s <= Length
             /\ IF k < Length THEN k < s ELSE s = Length
<1> DEFINE i == program[k]
           s == Successor(k, i, regs)
<1>1. CASE k < Length
  <2>1. \A j \in 0..(Length - 1) : program[j].op # "jr"
    <3>1. PICK b \in 0..(Length - 1) : isBranch(program[b].op)
      BY DEF Branches
    <3>2. b \in Word /\ b < Length
      BY <3>1, Words DEF Word
    <3> QED BY <3>1, <3>2, IsHandled
  <2>2. k \in 0..(Length - 1) /\ k \in Nat /\ i \in Instruction /\ i.imm \in Nat /\ i.imm \in Word
    BY <1>1, InProgram, Words DEF Word, Instruction
  <2>3. i.op # "jr"
    BY <2>1, <2>2
  <2>4. CASE branchTaken(i.op, Outcome(i, regs) = 0)
    <3>1. isBranch(i.op) /\ ~jump(i.op)
      BY <2>4 DEF branchTaken, isBranch, jump
    <3>2. k + 1 + i.imm <= Length /\ Sum(k, 1) = k + 1 /\ k + 1 \in Word
      BY <1>1, <3>1, IsHandled, InProgram
    <3>3. Sum(k + 1, i.imm) = k + 1 + i.imm
      BY <2>2, <3>2, Sums, Words
    <3>4. s = Sum(Sum(k, 1), i.imm)
      BY <2>4, <3>1 DEF Successor, isBranch
    <3>5. s = k + 1 + i.imm
      BY <3>2, <3>3, <3>4
    <3> QED BY <1>1, <2>2, <3>2, <3>5
  <2>5. CASE ~branchTaken(i.op, Outcome(i, regs) = 0) /\ i.op \in {"j", "jal"}
    <3>1. s = i.imm /\ i.imm \in (k + 1)..Length
      BY <1>1, <2>5, IsHandled DEF Successor
    <3> QED BY <1>1, <2>2, <3>1
  <2>6. CASE ~branchTaken(i.op, Outcome(i, regs) = 0) /\ i.op \notin {"j", "jal"}
    <3>1. s = Sum(k, 1)
      BY <2>3, <2>6 DEF Successor
    <3>2. Sum(k, 1) = k + 1
      BY <2>3, <2>6, InProgram DEF jump
    <3> QED BY <1>1, <2>2, <3>1, <3>2, Words
  <2> QED BY <2>4, <2>5, <2>6
<1>2. CASE ~(k < Length)
  <2>1. i = End
    BY <1>2 DEF ProgramInv
  <2>2. i.op = "j" /\ i.imm = Length
    BY <2>1 DEF End
  <2>3. s = Length
    BY <2>2 DEF Successor, branchTaken
  <2> QED BY <1>2, <2>3, Words
<1> QED BY <1>1, <1>2

LEMMA TableStep == Inv /\ Clock => TableInv'
<1> SUFFICES ASSUME Inv, Clock PROVE TableInv'
  OBVIOUS
<1> DEFINE s == Successor(exmem.pc, program[exmem.pc], WriteBack)
<1>1. TypeOK /\ ProgramInv /\ HeldInv /\ ResultInv /\ TableInv
  BY DEF Inv
<1>2. table' = Learned /\ program' = program /\ Branches' = Branches
  BY DEF Clock, Branches
<1>3. Oldest' = IF exmem.pc = None THEN Oldest ELSE s
  BY OldestStep
<1>4. exmem.pc # None => Oldest = exmem.pc /\ exmem.pc \in Word
  BY <1>1, Fields DEF Oldest
<1>5. Branches # {} /\ exmem.pc # None =>
        s \in Nat /\ s <= Length /\ IF exmem.pc < Length THEN exmem.pc < s ELSE s = Length
  BY <1>1, <1>4, Forward
<1>6. Branches # {} => Oldest' <= Length
  BY <1>1, <1>3, <1>5 DEF TableInv
<1>7. ASSUME NEW b \in Branches, b < Oldest PROVE b < Oldest'
  <2>1. b \in Nat /\ b < Length /\ Length \in Nat
    BY Words DEF Branches
  <2> QED BY <1>3, <1>4, <1>5, <1>7, <2>1, Words DEF Word
<1>8. ASSUME NEW e \in 0..15, table'[e] PROVE \E b \in Branches : b < Oldest' /\ Entry(b) = e
  <2>1. CASE table[e]
    BY <1>1, <1>7, <2>1 DEF TableInv
  <2>2. CASE ~table[e]
    <3>1. ~exmem.correct /\ e = Entry(exmem.pc)
      BY <1>1, <1>2, <1>8, <2>2 DEF Learned, TypeOK
    <3>2. exmem.branch /\ exmem.pc # None
      BY <1>1, <3>1, Correctness DEF HeldInv, ComputedInv
    <3>3. isBranch(program[exmem.pc].op)
      BY <1>1, <3>2 DEF ResultInv, branchTaken, isBranch
    <3>4. exmem.pc < Length
      BY <1>1, <1>4, <3>2, <3>3, InProgram DEF isBranch, jump
    <3>5. exmem.pc \in Branches
      BY <1>4, <3>2, <3>3, <3>4, Words DEF Branches, Word
    <3> QED BY <1>3, <1>5, <3>1, <3>2, <3>4, <3>5
  <2> QED BY <2>1, <2>2
<1> QED BY <1>2, <1>6, <1>8 DEF TableInv

\* No branch is fetched with its entry set.
LEMMA NotPredicted ==
  ASSUME Inv, Fills \/ (Advances /\ ~jump(ifid.instruction.op)), isBranch(program[pc].op)
  PROVE  ~Learned[Entry(pc)]
<1>1. TypeOK /\ ProgramInv /\ HeldInv /\ FlowInv /\ TableInv
  BY DEF Inv
<1>2. pc \in Word /\ pc < Length
  BY <1>1, Fields, InProgram DEF isBranch, jump
<1>3. pc \in Branches
  BY <1>2, Words DEF Branches, Word
<1>4. ~exmem.branch
  BY <1>1 DEF Fills, Advances, FlowInv, HeldInv, ComputedInv, Diverts
<1>5. Learned = table
  BY <1>4, Correctness DEF Learned
<1>6. Entry(pc) \in 0..15
  BY <1>2, Entries
<1>7. Oldest <= pc
  <2>1. Oldest = IF exmem.pc # None THEN exmem.pc ELSE IF idex.pc # None THEN idex.pc
                 ELSE IF ifid.pc # None THEN ifid.pc ELSE pc
    BY DEF Oldest
  <2>2. CASE Fills
    <3>1. idex.pc = None /\ ifid.pc = None
      BY <2>2 DEF Fills
    <3>2. CASE exmem.pc # None
      <4>1. exmem.pc \in Word /\ pc = Successor(exmem.pc, program[exmem.pc], WriteBack)
        BY <1>1, <3>1, <3>2, Fields, NotDiverting DEF FlowInv
      <4>2. Branches # {}
        BY <1>3
      <4>3. IF exmem.pc < Length THEN exmem.pc < pc ELSE pc = Length
        BY <1>1, <4>1, <4>2, Forward
      <4> QED BY <1>2, <2>1, <3>2, <4>1, <4>3, Words DEF Word
    <3> QED BY <1>2, <2>1, <3>1, <3>2 DEF Word
  <2>3. CASE Advances /\ ~jump(ifid.instruction.op)
    <3>1. ifid.pc \in Word /\ pc = ifid.pc + 1
      BY <1>1, <2>3, Fields DEF Advances, FlowInv
    <3>2. idex.pc # None => idex.pc \in Word /\ ifid.pc = idex.pc + 1
      BY <1>1, <2>3, Fields DEF Advances, FlowInv
    <3>3. exmem.pc # None => idex.pc # None /\ exmem.pc \in Word /\ idex.pc = exmem.pc + 1
      BY <1>1, <2>3, Fields, NotDiverting DEF Advances, FlowInv
    <3> QED BY <2>1, <3>1, <3>2, <3>3, Words DEF Word
  <2> QED BY <2>2, <2>3
<1>8. ASSUME table[Entry(pc)] PROVE FALSE
  <2>1. PICK b \in Branches : b < Oldest /\ Entry(b) = Entry(pc)
    BY <1>1, <1>6, <1>8 DEF TableInv
  <2>2. b \in Nat /\ isBranch(program[b].op)
    BY DEF Branches
  <2>3. b < pc
    <3>1. Oldest \in Int
      BY <1>1, Fields DEF Oldest, Word, None
    <3> QED BY <1>2, <1>7, <2>1, <2>2, <3>1 DEF Word
  <2>4. b \in 0..(pc - 1)
    BY <1>2, <2>2, <2>3 DEF Word
  <2> QED BY <1>1, <1>2, <2>1, <2>2, <2>4, IsHandled
<1> QED BY <1>5, <1>8

LEMMA HeldStep == Inv /\ Clock => HeldInv'
<1> SUFFICES ASSUME Inv, Clock PROVE HeldInv'
  OBVIOUS
<1>1. TypeOK /\ ProgramInv /\ HeldInv /\ ResultInv /\ Moves
  BY ClockMoves DEF Inv
<1>2. program' = program
  BY DEF Clock
<1>3. /\ memwb'.pc = exmem.pc /\ memwb'.op = exmem.op /\ memwb'.result = exmem.result
      /\ memwb'.writeReg = exmem.writeReg
  BY <1>1, AccessedWires DEF Clock
<1>4. exmem.pc # None /\ exmem.op = "jr" => exmem.result = 0
  <2>1. exmem.pc # None => exmem.op = program[exmem.pc].op
                           /\ exmem.result = Outcome(program[exmem.pc], WriteBack)
    BY <1>1 DEF HeldInv, ComputedInv, ResultInv
  <2>2. \A i, regs : i.op = "jr" => Outcome(i, regs) = 0
    BY DEF Outcome, ALU
  <2> QED BY <2>1, <2>2
<1>5. AccessedInv'
  BY <1>1, <1>2, <1>3, <1>4 DEF HeldInv, ComputedInv, AccessedInv
<1>6. ComputedInv'
  <2>1. CASE Holds
    BY <2>1 DEF Holds, ResetEXMEM, ComputedInv
  <2>2. CASE exmem' = ComputedIDEX
    <3>1. /\ exmem'.pc = idex.pc /\ exmem'.op = idex.instruction.op
          /\ exmem'.writeReg = Named(idex.instruction)
          /\ exmem'.correct = ~exmem'.branch /\ exmem'.branch \in BOOLEAN
      BY <1>1, <2>2, ComputedWires, Correctness
    <3>2. CASE idex.pc = None
      <4>1. idex.instruction.op \in {"nop", "reset"} /\ idex.instruction.rt = RA
        BY <1>1, <3>2 DEF HeldInv, DecodedInv
      <4>2. Named(idex.instruction) = RA
        BY <4>1 DEF Named, regDst
      <4>3. ~exmem'.branch
        BY <2>2, <3>2, Correctness
      <4> QED BY <3>1, <3>2, <4>1, <4>2, <4>3 DEF ComputedInv
    <3>3. CASE idex.pc # None
      BY <1>1, <1>2, <3>1, <3>3 DEF HeldInv, DecodedInv, ComputedInv
    <3> QED BY <3>2, <3>3
  <2> QED BY <1>1, <2>1, <2>2 DEF Moves
<1>7. DecodedInv'
  <2>1. CASE Holds
    BY <1>1, <1>2, <2>1 DEF Holds, HeldInv, DecodedInv
  <2>2. CASE Taken \/ Flushed
    BY <2>2 DEF Taken, Flushed, ResetIDEX, Nop, DecodedInv
  <2>3. CASE JumpsOff \/ Fills
    BY <2>3 DEF JumpsOff, Fills, Empty, Nop, DecodedInv
  <2>4. CASE Advances
    <3>1. idex'.pc = ifid.pc /\ idex'.instruction = ifid.instruction /\ idex'.predict = ifid.predict
          /\ ifid.pc # None
      BY <1>1, <2>4, DecodedWires DEF Advances
    <3> QED BY <1>1, <1>2, <3>1 DEF HeldInv, FetchedInv, DecodedInv
  <2> QED BY <1>1, <2>1, <2>2, <2>3, <2>4 DEF Moves
<1>8. FetchedInv'
  <2>1. CASE Holds
    BY <1>1, <1>2, <2>1 DEF Holds, HeldInv, FetchedInv
  <2>2. CASE ifid' = ResetIFID
    BY <2>2 DEF ResetIFID, FetchedInv
  <2>3. CASE Fills \/ (Advances /\ ~jump(ifid.instruction.op))
    <3>1. ifid' = Fetch
      BY <2>3 DEF Fills, Advances
    <3>2. ifid'.pc = pc /\ ifid'.instruction = program[pc] /\ ifid'.predict = Learned[Entry(pc)]
      BY <3>1 DEF Fetch
    <3>3. isBranch(program[pc].op) => ~Learned[Entry(pc)]
      BY <2>3, NotPredicted
    <3>4. pc # None
      BY <1>1, Fields, Words
    <3> QED BY <1>2, <3>2, <3>3, <3>4 DEF FetchedInv
  <2> QED BY <1>1, <2>1, <2>2, <2>3 DEF Moves, Taken, Flushed, JumpsOff, Advances
<1> QED BY <1>5, <1>6, <1>7, <1>8 DEF HeldInv

\* The register of a return is not written by what is under way before it.
LEMMA ReturnStable ==
  ASSUME Inv, Clock, NEW k \in Word, program[k].op = "jr",
         exmem.pc = None \/ (idex.pc # None /\ k - exmem.pc \in {1, 2})
  PROVE  WriteBack'[program[k].rs] = WriteBack[program[k].rs]
<1> DEFINE r == program[k].rs
           h == program[exmem.pc]
<1>1. TypeOK /\ ProgramInv
  BY DEF Inv
<1>2. CASE exmem.pc = None
  BY <1>2, Written
<1>3. CASE exmem.pc # None
  <2>1. k < Length
    BY <1>1 DEF ProgramInv, End
  <2>2. idex.pc # None /\ k - exmem.pc \in {1, 2}
    BY <1>3
  <2>3. /\ exmem.pc \in Word /\ exmem.pc < Length /\ Target(h) = exmem.writeReg
        /\ exmem.op = h.op /\ exmem.writeReg = Named(h)
        /\ exmem.op \in {"R", "I", "lw", "sw", "beq", "bne"}
    BY <1>3, <2>2, Behind
  <2>4. (k > 0 /\ k - 1 = exmem.pc) \/ (k > 1 /\ k - 2 = exmem.pc)
    BY <2>2, <2>3, Words DEF Word
  <2>5. r \notin Writes(h)
    BY <1>1, <2>1, <2>4, IsHandled
  <2>6. regWrite(h.op) => Named(h) \in Writes(h)
    BY <2>3 DEF regWrite, Named, regDst, Writes
  <2>7. WriteBack' = IF regWrite(h.op) /\ Target(h) # 0
                     THEN [WriteBack EXCEPT ![Target(h)] = Result(h)] ELSE WriteBack
    BY <1>3, Written
  <2>8. r \in Register /\ WriteBack \in [Register -> Word]
    BY <1>1, InProgram, WriteBackType DEF Instruction
  <2> QED BY <2>3, <2>5, <2>6, <2>7, <2>8
<1> QED BY <1>2, <1>3

LEMMA FlowStep == Inv /\ Clock => FlowInv'
<1> SUFFICES ASSUME Inv, Clock PROVE FlowInv'
  OBVIOUS
<1> DEFINE i == idex.instruction
<1>1. TypeOK /\ ProgramInv /\ HeldInv /\ FlowInv /\ DataInv /\ Moves
  BY ClockMoves DEF Inv
<1>2. program' = program /\ ResultInv'
  BY ResultStep DEF Clock
<1>3. ASSUME exmem'.pc # None
      PROVE  IF Diverts'
             THEN /\ idex'.pc = None /\ ifid'.pc = None
                  /\ pc' = Successor(exmem'.pc, program'[exmem'.pc], WriteBack')
             ELSE idex'.pc = exmem'.pc + 1
  <2>1. /\ exmem' = ComputedIDEX /\ (Taken \/ Flushed \/ JumpsOff \/ Fills \/ Advances)
    BY <1>1, <1>3 DEF Moves, Holds, ResetEXMEM
  <2>2. exmem'.pc = idex.pc /\ exmem'.op = i.op /\ idex.pc # None /\ idex.pc \in Word
        /\ i = program[idex.pc] /\ program'[exmem'.pc] = i
    BY <1>1, <1>2, <1>3, <2>1, ComputedWires, Fields DEF HeldInv, DecodedInv
  <2>3. Diverts' <=> ComputedIDEX.branch \/ jump(i.op)
    BY <2>1, <2>2 DEF Diverts
  <2>4. CASE Taken
    <3>1. exmem'.branch /\ idex'.pc = None /\ ifid'.pc = None /\ pc' = exmem'.target
      BY <2>1, <2>4 DEF Taken, ResetIDEX, ResetIFID
    <3>2. Led'
      BY <1>2, BranchLeads, PTL
    <3>3. Successor(exmem'.pc, program'[exmem'.pc], WriteBack') = exmem'.target
      BY <1>3, <3>1, <3>2 DEF Led
    <3> QED BY <2>1, <2>3, <3>1, <3>3
  <2>5. CASE JumpsOff
    <3>1. jump(i.op) /\ idex'.pc = None /\ ifid'.pc = None /\ pc' = idex.jumpAddr
      BY <2>5 DEF JumpsOff, Empty, ResetIFID
    <3>2. idex.jumpAddr = IF i.op = "jr" THEN WriteBack[i.rs] ELSE i.imm
      BY <1>1, <2>2, <3>1 DEF DataInv, jump
    <3>3. i.op = "jr" => WriteBack'[i.rs] = WriteBack[i.rs]
      <4>1. exmem.pc # None => idex.pc - exmem.pc = 1
        BY <1>1, <2>2, Fields DEF FlowInv, Word
      <4> QED BY <2>2, <4>1, ReturnStable
    <3>4. Successor(idex.pc, i, WriteBack') = IF i.op = "jr" THEN WriteBack'[i.rs] ELSE i.imm
      <4>1. ~branchTaken(i.op, Outcome(i, WriteBack') = 0)
        BY <3>1 DEF branchTaken, jump
      <4> QED BY <3>1, <4>1 DEF Successor, jump
    <3> QED BY <2>2, <2>3, <3>1, <3>2, <3>3, <3>4
  <2>6. CASE Advances
    <3>1. ~jump(i.op) /\ ~ComputedIDEX.branch /\ idex'.pc = ifid.pc
      BY <1>1, <2>2, <2>6, DecodedWires DEF Advances
    <3>2. ifid.pc = idex.pc + 1
      BY <1>1, <2>2, <3>1 DEF FlowInv
    <3> QED BY <2>2, <2>3, <3>1, <3>2
  <2> QED BY <2>1, <2>2, <2>4, <2>5, <2>6 DEF Flushed, Fills
<1>4. ASSUME idex'.pc # None
      PROVE  IF jump(idex'.instruction.op) THEN ifid'.pc = None /\ pc' = idex'.jumpAddr
             ELSE ifid'.pc = idex'.pc + 1
  <2>1. Holds \/ Advances
    BY <1>1, <1>4 DEF Moves, Taken, Flushed, JumpsOff, Fills, Empty, ResetIDEX
  <2>2. CASE Holds
    BY <2>2 DEF Holds
  <2>3. CASE Advances
    <3>1. idex'.pc = ifid.pc /\ idex'.instruction = ifid.instruction /\ ifid.pc # None
          /\ idex' = DecodedIFID
      BY <1>1, <2>3, DecodedWires DEF Advances
    <3>2. CASE jump(ifid.instruction.op)
      BY <2>3, <3>1, <3>2 DEF Advances, ResetIFID
    <3>3. CASE ~jump(ifid.instruction.op)
      <4>1. ifid'.pc = pc
        BY <2>3, <3>3 DEF Advances, Fetch
      <4>2. pc = ifid.pc + 1
        BY <1>1, <3>1, <3>3 DEF FlowInv
      <4> QED BY <3>1, <3>3, <4>1, <4>2
    <3> QED BY <3>2, <3>3
  <2> QED BY <2>1, <2>2, <2>3
<1>5. ASSUME ifid'.pc # None, ~jump(ifid'.instruction.op) PROVE pc' = ifid'.pc + 1
  <2>1. CASE Holds
    BY <1>1, <1>5, <2>1 DEF Holds, FlowInv
  <2>2. CASE Fills \/ (Advances /\ ~jump(ifid.instruction.op))
    <3>1. ifid'.pc = pc /\ ifid'.instruction = program[pc] /\ pc' = PredictedPC
      BY <2>2 DEF Fills, Advances, Fetch
    <3>2. isBranch(program[pc].op) => ~Learned[Entry(pc)]
      BY <2>2, NotPredicted
    <3>3. PredictedPC = Sum(pc, 1)
      BY <3>2 DEF PredictedPC
    <3>4. Sum(pc, 1) = pc + 1
      BY <1>1, <1>5, <3>1, Fields, InProgram
    <3> QED BY <3>1, <3>3, <3>4
  <2> QED BY <1>1, <1>5, <2>1, <2>2 DEF Moves, Taken, Flushed, JumpsOff, Advances, ResetIFID
<1> QED BY <1>3, <1>4, <1>5 DEF FlowInv

LEMMA OrderStep == Inv /\ Clock => OrderInv'
<1> SUFFICES ASSUME Inv, Clock, idex'.pc # None PROVE OrderInv'
  BY DEF OrderInv
<1>1. TypeOK /\ HeldInv /\ FlowInv /\ Moves
  BY ClockMoves DEF Inv
<1>2. memwb'.pc = exmem.pc /\ memwb'.op = exmem.op
  BY <1>1, AccessedWires DEF Clock
<1>3. Holds \/ (Advances /\ exmem' = ComputedIDEX)
  BY <1>1 DEF Moves, Taken, Flushed, JumpsOff, Fills, Empty, ResetIDEX
<1>4. CASE Holds
  <2>1. /\ exmem'.pc = None /\ idex' = idex /\ exmem.op = "lw" /\ idex.pc = exmem.pc + 1
        /\ exmem.pc # None
    BY <1>4 DEF Holds, ResetEXMEM
  <2>2. exmem.pc \in Int
    BY <1>1, Fields DEF Word, None
  <2> QED BY <1>2, <2>1, <2>2 DEF OrderInv
<1>5. CASE Advances /\ exmem' = ComputedIDEX
  <2>1. exmem'.pc = idex.pc /\ idex'.pc = ifid.pc
    BY <1>1, <1>5, ComputedWires, DecodedWires DEF Advances
  <2>2. CASE exmem.pc = None
    BY <1>2, <2>2 DEF OrderInv
  <2>3. CASE exmem.pc # None
    <3>1. idex.pc # None /\ ~jump(idex.instruction.op)
      BY <1>5, <2>3 DEF Advances
    <3>2. exmem.pc \in Word /\ idex.pc = exmem.pc + 1 /\ ~Diverts
      BY <2>3, <3>1, Behind
    <3>3. ifid.pc = idex.pc + 1
      BY <1>1, <3>1 DEF FlowInv
    <3>4. memwb'.pc = idex'.pc - 2
      BY <1>2, <2>1, <3>2, <3>3 DEF Word
    <3> QED BY <1>2, <2>1, <3>1, <3>2, <3>4 DEF OrderInv, Diverts
  <2> QED BY <2>2, <2>3
<1> QED BY <1>3, <1>4, <1>5

\* What is read is what is being written back.
LEMMA ReadRight ==
  ASSUME Inv, NEW r \in Register
  PROVE  readData(r) = WriteBack[r]
<1>1. TypeOK /\ ProgramInv /\ HeldInv
  BY DEF Inv
<1>2. WriteBack \in [Register -> Word] /\ WriteBack[0] = 0 /\ regFile \in [Register -> Word] /\ regFile[0] = 0
  BY <1>1, WriteBackType DEF TypeOK
<1>3. CASE ~(regWrite(memwb.op) /\ WB_writeReg = r)
  BY <1>2, <1>3 DEF readData, WriteBack
<1>4. CASE regWrite(memwb.op) /\ WB_writeReg = r /\ r # 0
  BY <1>2, <1>4 DEF readData, WriteBack
<1>5. CASE regWrite(memwb.op) /\ WB_writeReg = r /\ r = 0
  <2> DEFINE g == program[memwb.pc]
  <2>1. memwb.pc # None /\ memwb.pc \in Word
    BY <1>1, <1>5, Fields DEF HeldInv, AccessedInv, regWrite
  <2>2. memwb.op = g.op /\ memwb.writeReg = Named(g) /\ (memwb.op = "jr" => memwb.result = 0)
    BY <1>1, <2>1 DEF HeldInv, AccessedInv
  <2>3. memwb.op # "jal" /\ memwb.writeReg = 0
    BY <1>5, Words DEF WB_writeReg
  <2>4. CASE memwb.op = "jr"
    <3>1. readData(r) = 0
      BY <1>5, <2>2, <2>4 DEF readData, WB_writeData, forwardData
    <3> QED BY <1>2, <1>5, <3>1
  <2>5. CASE memwb.op \in {"R", "I", "lw"}
    <3>1. memwb.pc < Length
      BY <1>1, <2>1, <2>2, <2>5, InProgram DEF jump
    <3>2. 0 \in Writes(g)
      BY <2>2, <2>3, <2>5 DEF Writes, Named, regDst
    <3> QED BY <1>1, <2>1, <3>1, <3>2, IsHandled
  <2> QED BY <1>5, <2>3, <2>4, <2>5 DEF regWrite
<1> QED BY <1>3, <1>4, <1>5

\* An operand of the instruction that waits for a load
LEMMA HeldReady ==
  ASSUME Inv, Clock, Holds, NEW r \in Operands(idex.instruction), NEW v \in Word, Ready(r, v)
  PROVE  ~memForward(r)' => v = WriteBack'[r]
<1> DEFINE i == idex.instruction
           h == program[exmem.pc]
           g == program[memwb.pc]
<1>1. TypeOK /\ ProgramInv /\ HeldInv /\ OrderInv
  BY DEF Inv
<1>2. exmem.pc # None /\ exmem.op = "lw" /\ idex.pc = exmem.pc + 1 /\ Stalls(exmem.writeReg, i)
  BY DEF Holds, MEM_stall
<1>3. exmem.pc \in Word /\ idex.pc # None /\ idex.pc \in Word
  BY <1>1, <1>2, Fields, Words DEF None, Word
<1>4. /\ exmem.op = h.op /\ exmem.writeReg = Named(h) /\ Target(h) = exmem.writeReg
      /\ i = program[idex.pc]
  BY <1>1, <1>2, <1>3, Behind DEF HeldInv, DecodedInv
<1>5. r \in Register /\ idex.pc < Length
  BY <1>1, <1>3, <1>4, HasOperands
<1>6. h.rt = exmem.writeReg
  BY <1>2, <1>4 DEF Named, regDst
<1>7. memwb'.op = "lw" /\ memwb'.writeReg = exmem.writeReg
  BY <1>1, <1>2, AccessedWires DEF Clock
<1>8. SUFFICES ASSUME ~memForward(r)' PROVE v = WriteBack'[r]
  OBVIOUS
<1>9. r # exmem.writeReg \/ r = 0
  BY <1>7, <1>8 DEF memForward, regWrite
<1>10. WriteBack'[r] = WriteBack[r]
  <2>1. WriteBack' = IF regWrite(h.op) /\ Target(h) # 0
                     THEN [WriteBack EXCEPT ![Target(h)] = Result(h)] ELSE WriteBack
    BY <1>2, Written
  <2> QED BY <1>1, <1>4, <1>5, <1>9, <2>1, WriteBackType
<1>11. ASSUME memForward(r) PROVE FALSE
  <2>1. r = memwb.writeReg /\ regWrite(memwb.op) /\ r # 0
    BY <1>11 DEF memForward
  <2>2. memwb.pc # None /\ memwb.pc \in Word
    BY <1>1, <2>1, Fields DEF HeldInv, AccessedInv, regWrite
  <2>3. memwb.pc = idex.pc - 2 /\ ~jump(memwb.op) /\ memwb.op = g.op /\ memwb.writeReg = Named(g)
    BY <1>1, <1>2, <1>3, <2>2 DEF OrderInv, HeldInv, AccessedInv
  <2>4. r \in Writes(g)
    BY <2>1, <2>3 DEF regWrite, jump, Writes, Named, regDst
  <2>5. idex.pc > 0 /\ idex.pc - 1 = exmem.pc /\ ~(idex.pc < 2)
    BY <1>2, <1>3, <2>2, <2>3, Words DEF Word
  <2>6. ~jump(h.op)
    BY <1>2, <1>4 DEF jump
  <2>7. Follows(g, h, i)
    BY <1>1, <1>3, <1>4, <1>5, <2>3, <2>5, <2>6, IsHandled
  <2>8. Writes(g) \cap Operands(i) \subseteq {h.rt}
    BY <1>2, <1>4, <1>6, <2>7 DEF Follows
  <2> QED BY <1>6, <1>9, <2>1, <2>4, <2>8
<1>12. v = WriteBack[r]
  BY <1>11 DEF Ready
<1> QED BY <1>10, <1>12

\* An operand of the instruction that is decoded
LEMMA ReadReady ==
  ASSUME Inv, Clock, Advances, NEW r \in Register
  PROVE  ~memForward(r)' => readData(r) = WriteBack'[r]
<1> DEFINE h == program[exmem.pc]
<1>1. TypeOK
  BY DEF Inv
<1>2. readData(r) = WriteBack[r]
  BY ReadRight
<1>3. CASE exmem.pc = None
  BY <1>2, <1>3, Written
<1>4. CASE exmem.pc # None
  <2>1. idex.pc # None
    BY <1>4 DEF Advances
  <2>2. exmem.op = h.op /\ Target(h) = exmem.writeReg
    BY <1>4, <2>1, Behind
  <2>3. memwb'.op = exmem.op /\ memwb'.writeReg = exmem.writeReg
    BY <1>1, AccessedWires DEF Clock
  <2>4. SUFFICES ASSUME ~memForward(r)' PROVE readData(r) = WriteBack'[r]
    OBVIOUS
  <2>5. ~(r = exmem.writeReg /\ regWrite(exmem.op) /\ r # 0)
    BY <2>3, <2>4 DEF memForward
  <2>6. WriteBack' = IF regWrite(h.op) /\ Target(h) # 0
                     THEN [WriteBack EXCEPT ![Target(h)] = Result(h)] ELSE WriteBack
    BY <1>4, Written
  <2> QED BY <1>1, <1>2, <2>2, <2>5, <2>6, WriteBackType
<1> QED BY <1>3, <1>4

LEMMA DataStep == Inv /\ Clock => DataInv'
<1> SUFFICES ASSUME Inv, Clock, idex'.pc # None PROVE DataInv'
  BY DEF DataInv
<1>1. TypeOK /\ ProgramInv /\ HeldInv /\ FlowInv /\ DataInv /\ Moves
  BY ClockMoves DEF Inv
<1>2. Holds \/ Advances
  BY <1>1 DEF Moves, Taken, Flushed, JumpsOff, Fills, Empty, ResetIDEX
<1> PICK i : i = idex'.instruction
  OBVIOUS
<1>3. CASE Holds
  <2>1. idex' = idex /\ i = idex.instruction /\ ~jump(i.op) /\ idex.pc # None
    BY <1>3 DEF Holds
  <2>2. idex.data1 \in Word /\ idex.data2 \in Word
    BY <1>1, Fields
  <2>3. i.rs \in Operands(i) => Ready(i.rs, idex.data1)
    BY <1>1, <2>1 DEF DataInv
  <2>4. i.rt \in Operands(i) => Ready(i.rt, idex.data2)
    BY <1>1, <2>1 DEF DataInv
  <2>5. i.rs \in Operands(i) => (~memForward(i.rs)' => idex.data1 = WriteBack'[i.rs])
    BY <1>3, <2>1, <2>2, <2>3, HeldReady
  <2>6. i.rt \in Operands(i) => (~memForward(i.rt)' => idex.data2 = WriteBack'[i.rt])
    BY <1>3, <2>1, <2>2, <2>4, HeldReady
  <2> QED BY <2>1, <2>5, <2>6 DEF DataInv, Ready, memForward, jump
<1>4. CASE Advances
  <2>1. /\ i = ifid.instruction /\ idex'.data1 = readData(i.rs) /\ idex'.data2 = readData(i.rt)
        /\ i.op = "jr" => idex'.jumpAddr = readData(i.rs)
        /\ i.op # "jr" => idex'.jumpAddr = i.imm
        /\ ifid.pc # None
    BY <1>1, <1>4, DecodedWires DEF Advances
  <2>2. i = program[ifid.pc] /\ ifid.pc \in Word
    BY <1>1, <2>1, Fields DEF HeldInv, FetchedInv
  <2>3. i.rs \in Register /\ i.rt \in Register
    BY <1>1, <2>2, InProgram DEF Instruction
  <2>4. /\ ~memForward(i.rs)' => readData(i.rs) = WriteBack'[i.rs]
        /\ ~memForward(i.rt)' => readData(i.rt) = WriteBack'[i.rt]
    BY <1>4, <2>3, ReadReady
  <2>5. i.op = "jr" => idex'.jumpAddr = WriteBack'[i.rs]
    <3>1. readData(i.rs) = WriteBack[i.rs]
      BY <2>3, ReadRight
    <3>2. exmem.pc # None => idex.pc # None /\ ifid.pc - exmem.pc = 2
      <4>1. exmem.pc # None => idex.pc # None /\ ~jump(idex.instruction.op)
        BY <1>4 DEF Advances
      <4>2. exmem.pc # None => exmem.pc \in Word /\ idex.pc = exmem.pc + 1 /\ ifid.pc = idex.pc + 1
        BY <1>1, <4>1, Behind DEF FlowInv
      <4> QED BY <4>1, <4>2 DEF Word
    <3>3. i.op = "jr" => WriteBack'[i.rs] = WriteBack[i.rs]
      BY <2>2, <3>2, ReturnStable
    <3> QED BY <2>1, <3>1, <3>3
  <2> QED BY <2>1, <2>4, <2>5 DEF DataInv, Ready, memForward
<1> QED BY <1>2, <1>3, <1>4

LEMMA ProgramStep == Inv /\ Clock => ProgramInv'
BY DEF Inv, Clock, ProgramInv, Handled

LEMMA InitInv == Init => Inv
<1> SUFFICES ASSUME Init PROVE Inv
  OBVIOUS
<1>1. PICK p \in [0..(Length - 1) -> Code] : Handled(p) /\ program = Ended(p)
  BY DEF Init, Reset
<1>2. 0 \in Word /\ 0 \in Register /\ RA \in Register /\ Size - 1 \in Word /\ Length \in Word /\ Register \subseteq Word
  BY Words DEF Word, Register
<1>3. \A a \in Word : program[a] = IF a < Length THEN p[a] ELSE End
  BY <1>1 DEF Ended
<1>4. \A a \in Word : IF a < Length THEN program[a] \in Code ELSE program[a] = End
  <2>1. ASSUME NEW a \in Word, a < Length PROVE program[a] \in Code
    <3>1. a \in 0..(Length - 1)
      BY <2>1, Words DEF Word
    <3> QED BY <1>1, <1>3, <2>1, <3>1
  <2> QED BY <1>3, <2>1
<1>5. program \in [Word -> Instruction]
  <2>1. End \in Instruction
    BY <1>2 DEF End, Instruction, Op
  <2>2. \A a \in Word : program[a] \in Instruction
    BY <1>4, <2>1, CodeAssumption
  <2>3. program = [a \in Word |-> program[a]]
    BY <1>1 DEF Ended
  <2> QED BY <2>2, <2>3
<1>6. Handled(program)
  <2>1. \A k \in 0..(Length - 1) : program[k] = p[k]
    BY <1>3, Words DEF Word
  <2>2. ASSUME NEW k \in 0..(Length - 1), NEW d \in {1, 2}
        PROVE  (IF k < d THEN Nop ELSE program[k - d]) = (IF k < d THEN Nop ELSE p[k - d])
    <3>1. ~(k < d) => k - d \in 0..(Length - 1)
      BY <2>2, Words
    <3> QED BY <2>1, <3>1
  <2>3. \A k \in 0..(Length - 1) :
          /\ (IF k < 1 THEN Nop ELSE program[k - 1]) = (IF k < 1 THEN Nop ELSE p[k - 1])
          /\ (IF k < 2 THEN Nop ELSE program[k - 2]) = (IF k < 2 THEN Nop ELSE p[k - 2])
    BY <2>2
  <2>4. \A k \in 0..(Length - 1) : \A j \in 0..(k - 1) : program[j] = p[j]
    BY <2>1, Words
  <2> QED BY <1>1, <2>1, <2>3, <2>4 DEF Handled
<1>7. /\ pc = 0 /\ table = [e \in 0..15 |-> FALSE] /\ ifid = ResetIFID /\ idex = ResetIDEX
      /\ exmem = ResetEXMEM /\ memwb = ResetMEMWB
      /\ regFile = [r \in Register |-> r] /\ memory = [a \in Word |-> (a + RA) % Size]
  BY DEF Init, Reset
<1>8. TypeOK
  <2>1. Nop \in Instruction /\ [Nop EXCEPT !.op = "reset"] \in Instruction
    BY <1>2 DEF Nop, Instruction, Op
  <2>2. ifid \in Fetched /\ idex \in Decoded
    BY <1>2, <1>7, <2>1 DEF ResetIFID, ResetIDEX, Fetched, Decoded
  <2>3. exmem \in Computed /\ memwb \in Accessed
    BY <1>2, <1>7 DEF ResetEXMEM, ResetMEMWB, Computed, Accessed, Op
  <2>4. memory \in [Word -> Word]
    <3>1. \A a \in Word : (a + RA) % Size \in Word
      BY Words DEF Word
    <3> QED BY <1>7, <3>1
  <2> QED BY <1>2, <1>5, <1>7, <2>2, <2>3, <2>4 DEF TypeOK
<1>9. /\ ifid.pc = None /\ idex.pc = None /\ idex.instruction.op = "reset" /\ idex.instruction.rt = RA
      /\ exmem.pc = None /\ exmem.op = "reset" /\ exmem.writeReg = 0 /\ ~exmem.branch /\ exmem.correct
      /\ memwb.pc = None /\ memwb.op = "reset"
  BY <1>7 DEF ResetIFID, ResetIDEX, ResetEXMEM, ResetMEMWB, Nop
<1>10. HeldInv
  BY <1>7, <1>9 DEF HeldInv, FetchedInv, DecodedInv, ComputedInv, AccessedInv
<1>11. FlowInv /\ OrderInv /\ ResultInv /\ DataInv
  BY <1>9 DEF FlowInv, OrderInv, ResultInv, DataInv
<1>12. TableInv
  BY <1>7, <1>9, Words DEF TableInv, Oldest
<1> QED BY <1>4, <1>6, <1>8, <1>10, <1>11, <1>12 DEF Inv, ProgramInv

LEMMA InvStep == Inv /\ [Next]_vars => Inv'
<1> SUFFICES ASSUME Inv, [Next]_vars PROVE Inv'
  OBVIOUS
<1>1. CASE Clock
  BY <1>1, TypeStep, ProgramStep, HeldStep, FlowStep, OrderStep, ResultStep, DataStep, TableStep DEF Inv
<1>2. CASE UNCHANGED vars
  <2>1. /\ program' = program /\ pc' = pc /\ table' = table /\ ifid' = ifid /\ idex' = idex
        /\ exmem' = exmem /\ memwb' = memwb /\ regFile' = regFile /\ memory' = memory
    BY <1>2 DEF vars
  <2>2. WriteBack' = WriteBack /\ Oldest' = Oldest /\ Branches' = Branches /\ Diverts' = Diverts
    BY <2>1 DEF WriteBack, WB_writeReg, WB_writeData, forwardData, Oldest, Branches, Diverts
  <2>3. TypeOK' /\ ProgramInv' /\ HeldInv'
    BY <2>1 DEF Inv, TypeOK, ProgramInv, Handled, HeldInv, FetchedInv, DecodedInv, ComputedInv, AccessedInv
  <2>4. FlowInv' /\ OrderInv' /\ ResultInv' /\ TableInv'
    BY <2>1, <2>2 DEF Inv, FlowInv, OrderInv, ResultInv, TableInv
  <2>5. DataInv'
    BY <2>1, <2>2 DEF Inv, DataInv, Ready, memForward
  <2> QED BY <2>3, <2>4, <2>5 DEF Inv
<1> QED BY <1>1, <1>2 DEF Next

LEMMA InvHolds == Spec => []Inv
BY InitInv, InvStep, PTL DEF Spec

-----------------------------------------------------------------------------
(* The single-cycle processor. *)

\* What SingleCycle computes of the oldest instruction, in terms of this module
LEMMA ProcessorWires ==
  ASSUME Inv, exmem.pc # None
  PROVE  LET i == program[exmem.pc]
         IN  /\ Processor!Executed = i
             /\ Processor!ALUResult = exmem.result
             /\ Processor!writeReg = Target(i)
             /\ Processor!writeData = Result(i)
             /\ Processor!ProgramCounter = Successor(exmem.pc, i, WriteBack)
<1> DEFINE i == program[exmem.pc]
<1>1. HeldInv /\ ResultInv
  BY DEF Inv
<1>2. Oldest = exmem.pc
  BY DEF Oldest
<1>3. Processor!Executed = i
  BY <1>2 DEF Processor!Executed
<1>4. exmem.op = i.op /\ exmem.result = Outcome(i, WriteBack)
  BY <1>1 DEF HeldInv, ComputedInv, ResultInv
<1>5. Processor!ALUResult = Outcome(i, WriteBack)
  BY <1>3 DEF Processor!ALUResult, Processor!ALU, Processor!ALUSrc, Processor!Sum, Outcome, ALU, ALUSrc, Sum
<1>6. Processor!writeReg = Target(i)
  BY <1>3 DEF Processor!writeReg, Processor!regDst, Target, Named, regDst
<1>7. i.op = "lw" => Stored = memory
  BY <1>4 DEF Stored
<1>8. Processor!writeData = Result(i)
  BY <1>2, <1>3, <1>4, <1>5, <1>7 DEF Processor!writeData, Processor!Sum, Result, Sum
<1>9. Processor!ProgramCounter = Successor(exmem.pc, i, WriteBack)
  BY <1>2, <1>3, <1>5 DEF Processor!ProgramCounter, Processor!branchTaken, Processor!Sum,
                          Successor, branchTaken, Sum
<1> QED BY <1>3, <1>4, <1>5, <1>6, <1>8, <1>9

LEMMA Implements == Inv /\ [Next]_vars => [Processor!Next]_(Processor!vars)
<1> SUFFICES ASSUME Inv, [Next]_vars PROVE [Processor!Next]_(Processor!vars)
  OBVIOUS
<1>1. CASE Clock /\ exmem.pc # None
  <2> DEFINE i == program[exmem.pc]
  <2>1. /\ Oldest' = Successor(exmem.pc, i, WriteBack)
        /\ WriteBack' = IF regWrite(i.op) /\ Target(i) # 0
                        THEN [WriteBack EXCEPT ![Target(i)] = Result(i)] ELSE WriteBack
    BY <1>1, OldestStep, Written
  <2>2. /\ Processor!Executed = i /\ Processor!ALUResult = exmem.result
        /\ Processor!writeReg = Target(i) /\ Processor!writeData = Result(i)
        /\ Processor!ProgramCounter = Successor(exmem.pc, i, WriteBack)
    BY <1>1, ProcessorWires
  <2>3. exmem.op = i.op /\ (i.op = "sw" => exmem.store = WriteBack[i.rt])
    BY <1>1 DEF Inv, HeldInv, ComputedInv, ResultInv
  <2>4. memory' = IF i.op = "sw" THEN [memory EXCEPT ![exmem.result] = WriteBack[i.rt]] ELSE memory
    BY <1>1, <2>3 DEF Clock, Stored
  <2>5. UNCHANGED program
    BY <1>1 DEF Clock
  <2> QED BY <2>1, <2>2, <2>4, <2>5 DEF Processor!Next, Processor!Cycle, Processor!regWrite, regWrite
<1>2. CASE Clock /\ exmem.pc = None
  <2>1. Oldest' = Oldest /\ WriteBack' = WriteBack
    BY <1>2, OldestStep, Written
  <2>2. exmem.op # "sw"
    BY <1>2 DEF Inv, HeldInv, ComputedInv
  <2>3. memory' = memory /\ program' = program
    BY <1>2, <2>2 DEF Clock, Stored
  <2> QED BY <2>1, <2>3 DEF Processor!vars
<1>3. CASE UNCHANGED vars
  BY <1>3 DEF vars, Processor!vars, Oldest, WriteBack, WB_writeReg, WB_writeData, forwardData
<1> QED BY <1>1, <1>2, <1>3 DEF Next

LEMMA InitImplements == Init => Processor!Init
<1> SUFFICES ASSUME Init PROVE Processor!Init
  OBVIOUS
<1>1. TypeOK
  BY InitInv DEF Inv
<1>2. Oldest = 0
  BY DEF Init, Reset, ResetEXMEM, ResetIDEX, ResetIFID, Oldest
<1>3. WriteBack \in [Register -> Word] /\ WriteBack[0] = 0
  BY <1>1, WriteBackType
<1> QED BY <1>1, <1>2, <1>3 DEF TypeOK, Processor!Init, Processor!Word, Processor!Register,
          Processor!Instruction, Processor!Op, Word, Register, Instruction, Op

\* The state of the pipeline is well typed (Top.v).
THEOREM TypeCorrect == Spec => []TypeOK
BY InvHolds, PTL DEF Inv

\* Whatever is forwarded, stalled, flushed or predicted, the pipeline executes the
\* instructions of a program that is handled in their order, each with the
\* effect that it has in the single-cycle processor (Top.v).
THEOREM PipelineImplementsSingleCycle == Spec => ImplementsSingleCycle
<1>1. Inv /\ [Next]_vars => [Processor!Next]_(Processor!vars)
  BY Implements
<1> QED BY <1>1, InvHolds, InitImplements, PTL DEF Spec, ImplementsSingleCycle, Processor!Spec

=============================================================================
