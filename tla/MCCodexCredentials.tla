------------------------- MODULE MCCodexCredentials -------------------------
(* Runs and handlers are interchangeable: no order among them is used.     *)
EXTENDS CodexCredentials, TLC

Symmetric == Permutations(Runs) \cup Permutations(Handlers)

=============================================================================
