----------------------------- MODULE Instructions -----------------------------
(***************************************************************************)
(* What the two MIPS processors share: the control signals of an           *)
(* instruction and the ALU.  The 31 instructions fall into classes with    *)
(* equal control signals; the ALU computes one difference for the R type   *)
(* and one sum for the immediates.  Addresses count words of four bytes,   *)
(* and arithmetic wraps around at Size words.                              *)
(***************************************************************************)
EXTENDS Integers

CONSTANTS Size,  \* the number of words: instructions, data and addresses
          RA     \* the register that jal writes, the last one

ASSUME SizeAssumption == Size \in Nat \ {0} /\ RA \in 1..(Size - 1)

Word     == 0..(Size - 1)
Register == 0..RA

\* "nop" is the word of all ones that a reset puts in a buffer; "reset" is
\* no instruction but the signals of a buffer that was reset.
Op == {"R", "I", "lw", "sw", "beq", "bne", "j", "jal", "jr", "nop", "reset"}

Instruction == [op : Op, rs : Register, rt : Register, rd : Register, imm : Word]

Nop == [op |-> "nop", rs |-> RA, rt |-> RA, rd |-> RA, imm |-> Size - 1]

\* Control.v and BranchControl.v.
regDst(op)   == op \in {"R", "jr"}
ALUSrc(op)   == op \in {"I", "lw", "sw", "nop"}
regWrite(op) == op \in {"R", "I", "lw", "jal", "jr"}
jump(op)     == op \in {"j", "jal", "jr"}
isBranch(op) == op \in {"beq", "bne"}

Sum(a, b) == (a + b) % Size

\* Both inputs of a buffer that was reset are equal, and their AND is either.
ALU(op, a, b) ==
  CASE op \in {"R", "beq", "bne"} -> (a - b) % Size
    [] op \in {"I", "lw", "sw"}   -> Sum(a, b)
    [] op = "reset"               -> a
    [] OTHER                      -> 0

branchTaken(op, zero) == (op = "beq" /\ zero) \/ (op = "bne" /\ ~zero)

=============================================================================
