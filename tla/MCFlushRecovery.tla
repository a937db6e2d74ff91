-------------------------- MODULE MCFlushRecovery --------------------------
(* A model-checking instance of FlushRecovery: the tree                    *)
(*     g - a1 - a2                                                         *)
(*            \ b2                                                         *)
(* a1 creates x; a2 and b2 spend it and create y, which b2 spends again.   *)
EXTENDS FlushRecovery, TLC

CONSTANTS g, a1, a2, b2, x, y

MCBlocks == {g, a1, a2, b2}
MCParent == (a1 :> g) @@ (a2 :> a1) @@ (b2 :> a1)
MCChain[b \in MCBlocks] == IF b = g THEN {g} ELSE MCChain[MCParent[b]] \union {b}
MCOuts == {x, y}
MCSpends == [b \in MCBlocks |-> IF b \in {a2, b2} THEN {x} ELSE {}]
MCCreates == (g :> {}) @@ (a1 :> {x}) @@ (a2 :> {y}) @@ (b2 :> {})
MCPassing == [b \in MCBlocks |-> IF b = b2 THEN {y} ELSE {}]
MCUtxo[b \in MCBlocks] ==
    IF b = g THEN {} ELSE (MCUtxo[MCParent[b]] \ MCSpends[b]) \union MCCreates[b]
==============================================================================
