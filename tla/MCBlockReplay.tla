--------------------------- MODULE MCBlockReplay ---------------------------
(* Every block of up to three transactions over four outpoints, and every  *)
(* set of coins for it to be read back over.                               *)
EXTENDS BlockReplay, TLC

Interchangeable == Permutations(Outs)
=============================================================================
