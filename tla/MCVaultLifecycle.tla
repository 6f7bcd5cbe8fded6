-------------------------- MODULE MCVaultLifecycle --------------------------
(* Small instances of VaultLifecycle for TLC. *)
EXTENDS VaultLifecycle, TLC

Symmetry ==
  Permutations(Process) \cup Permutations(Conversation)
    \cup Permutations(Scan) \cup Permutations(Value)
=============================================================================
