---------------------------- MODULE MCVaultAuth ----------------------------
(* Small instances of VaultAuth for TLC.                                    *)
EXTENDS VaultAuth, TLC

CONSTANTS p1, p2, p3

ProcSymmetry == Permutations({p1, p2, p3})
=============================================================================
