----------------------------- MODULE WidePairs -----------------------------
(***************************************************************************)
(* 64-bit numbers in pairs of 32-bit registers (libultra_stubs.cpp).       *)
(*                                                                         *)
(* The game passes a number of two words in two 64-bit registers, each     *)
(* with a sign-extended word; the host answers in two registers whose      *)
(* upper halves are zero.  Only the lower words count.                     *)
(***************************************************************************)
EXTENDS Integers

CONSTANT Word        \* 2^32: how many values a word has

ASSUME WordAssumption == Word \in Nat /\ Word > 1 /\ Word % 2 = 0

Wide == Word * Word

Gpr == 0..(Wide - 1)

(* A word in a register, as the game keeps it. *)
SignExtended(w) == IF w >= Word \div 2 THEN w + Wide - Word ELSE w

(* gpr_pair_to_u64 *)
PairToU64(hi, lo) == ((hi % Word) * Word) + (lo % Word)

(* u64_to_gpr_pair: r2 and r3 *)
U64ToPair(v) == <<v \div Word, v % Word>>

(* An unsigned number read as a signed one, and back. *)
Signed(v) == IF v >= Wide \div 2 THEN v - Wide ELSE v
Unsigned(n) == n % Wide
=============================================================================
