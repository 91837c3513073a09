----------------------------- MODULE MCPipeline -----------------------------
(* Pipeline for TLC: an instruction or two of each class, on two registers. *)
EXTENDS Pipeline

R(d, s, t)    == [op |-> "R", rs |-> s, rt |-> t, rd |-> d, imm |-> 0]
I(op, t, s, m) == [op |-> op, rs |-> s, rt |-> t, rd |-> 0, imm |-> m]

Mixed == {R(1, 1, 2), R(2, 2, 1), I("I", 1, 2, 1), I("I", 2, 1, 3),
          I("lw", 1, 2, 0), I("lw", 2, 1, 1), I("sw", 1, 2, 1), I("sw", 2, 2, 0),
          I("beq", 1, 2, 1), I("bne", 2, 1, 1), I("bne", 0, 1, 0), I("j", 0, 0, 3),
          I("jal", 0, 0, 2), I("jr", 0, RA, 0)}

=============================================================================
