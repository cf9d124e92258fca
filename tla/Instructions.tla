---------------------------- MODULE Instructions ----------------------------
(***************************************************************************)
(* What the programs of sw/hps_driver and the testbenches of sim/ have in  *)
(* common: both are straight sequences of instructions, whose checks read  *)
(* a signal or a register and count an error where it is not as expected,  *)
(* and whose counter checks compare with a value saved before.             *)
(***************************************************************************)
EXTENDS Integers, SequencesExt

\* An 8-bit address {cache tag, index}, and a 32-bit word by its halves.
at(n) == <<n \div 16, n % 16>>
word(hi, lo) == <<hi, lo>>
zero == word(0, 0)

expect(reg, value) == <<[op |-> "expect", reg |-> reg, value |-> value]>>
save(reg) == <<[op |-> "save", reg |-> reg]>>
delta(reg, by) == <<[op |-> "delta", reg |-> reg, by |-> by]>>

\* The instructions of a loop over 1 .. n.
unrolled(n, body(_)) == FlattenSeq([i \in 1 .. n |-> body(i)])

=============================================================================
