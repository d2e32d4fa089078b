------------------------------- MODULE MCWallet -------------------------------
(* Wallet for TLC: keys are interchangeable. *)
EXTENDS Wallet, TLC

KeySymmetry == Permutations(Key)
=============================================================================
