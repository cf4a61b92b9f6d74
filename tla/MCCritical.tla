----------------------------- MODULE MCCritical -----------------------------
(* Critical for the model checker.                                         *)
EXTENDS Critical, TLC

(* No definition of Critical tells one value from another, so states that  *)
(* differ by a renaming of the values are one state; the properties of the *)
(* run are all safety properties.                                          *)
ValueSymmetry == Permutations(Values)

(* A burst leaves a value with junk beside it, or with the checksum that   *)
(* makes it intact in one of the copies.                                   *)
MCPatterns == {w \in Copy : w.sum \in {Junk} \cup {checksum_of(w.value, c) : c \in Copies}}
=============================================================================
