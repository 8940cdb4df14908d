---------------------------- MODULE PinThrottleMC ----------------------------
(* PinThrottle for TLC: the dialogs are interchangeable. *)
EXTENDS PinThrottle, TLC

Symmetry == Permutations(Guessers \ {Control})
=============================================================================
