---------------------------- MODULE MCCoinsCache ----------------------------
(* Model-checking instance of CoinsCache.                                  *)
EXTENDS CoinsCache, TLC

CONSTANTS o1, o2, c1, c2, burned, h1, h2

MCOutpoints == {o1, o2}
MCCoins == {c1, c2, burned}
MCUnspendable == {burned}
MCHashes == {h1, h2}

Symmetry == Permutations({o1, o2}) \union Permutations({c1, c2})
                \union Permutations({h1, h2})
=============================================================================
