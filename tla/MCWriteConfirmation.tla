------------------------ MODULE MCWriteConfirmation ------------------------
(* Instances of WriteConfirmation for TLC: turns are interchangeable.        *)
EXTENDS WriteConfirmation, TLC

TurnSymmetry == Permutations(Turns)
=============================================================================
