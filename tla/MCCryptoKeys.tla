---------------------------- MODULE MCCryptoKeys ----------------------------
(* Small instances of CryptoKeys.                                           *)
EXTENDS CryptoKeys, TLC

Symmetry == Permutations(Processes)
=============================================================================
