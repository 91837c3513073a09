------------------------------ MODULE MCBanker ------------------------------
(* Banker for TLC: two resources, two units of one and one of the other. *)
EXTENDS Banker

CONSTANTS printers, disks

TwoAndOne == [r \in Resources |-> IF r = printers THEN 2 ELSE 1]

=============================================================================
