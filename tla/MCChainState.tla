--------------------------- MODULE MCChainState ---------------------------
(* Model-checking instances of ChainState: two branches of a tree,         *)
(*     g - a1 - a2                                                         *)
(*            \ b2 - b3                                                    *)
(* in which b2 or b3 may break a rule.                                     *)
EXTENDS ChainState, TLC

CONSTANTS g, a1, a2, b2, b3

MCBlocks == {g, a1, a2, b2, b3}
MCParent == (a1 :> g) @@ (a2 :> a1) @@ (b2 :> a1) @@ (b3 :> b2)
MCChain[b \in MCBlocks] == IF b = g THEN {g} ELSE MCChain[MCParent[b]] \union {b}
MCWork == [b \in MCBlocks |-> Cardinality(MCChain[b])]
MCAddr == (g :> 1) @@ (a1 :> 2) @@ (a2 :> 3) @@ (b2 :> 5) @@ (b3 :> 4)

(* For the pruned node, one block more and branches that part at the       *)
(* genesis block: g - a1 - a2 and g - b1 - b2 - b3; b3 may break a rule.   *)
CONSTANT b1

ForkBlocks == {g, a1, a2, b1, b2, b3}
ForkParent == (a1 :> g) @@ (a2 :> a1) @@ (b1 :> g) @@ (b2 :> b1) @@ (b3 :> b2)
ForkChain[b \in ForkBlocks] == IF b = g THEN {g} ELSE ForkChain[ForkParent[b]] \union {b}
ForkWork == [b \in ForkBlocks |-> Cardinality(ForkChain[b])]
ForkAddr == MCAddr @@ (b1 :> 6)
ForkGood == {[b \in ForkBlocks |-> "good"]}
ForkOneBad == ForkGood \union {[b \in ForkBlocks |-> IF b = b3 THEN "connect" ELSE "good"]}

AllGood == [b \in MCBlocks |-> "good"]
NoneBad == {AllGood}
OneBad == {AllGood} \union
    {[AllGood EXCEPT ![b] = v] : b \in {b2, b3}, v \in {"context", "connect"}}

(* Bounds on the operations that can be repeated for ever.                 *)
Calls(i, r, p, n, s) ==
    [op \in Operations |-> CASE op = "invalidate" -> i
                             [] op = "reconsider" -> r
                             [] op = "precious" -> p
                             [] op = "prune" -> n
                             [] op = "shutdown" -> s]
OperatorCalls == {Calls(1, 0, 1, 0, 1)}
NodeCalls == {Calls(0, 0, 0, 2, 1), Calls(1, 1, 0, 0, 0), Calls(1, 0, 0, 1, 0)}
PruneCall == {Calls(0, 0, 0, 1, 1)}
InvalidateCall == {Calls(1, 0, 0, 0, 0)}
UndoCalls == {Calls(1, 1, 0, 0, 0)}
==============================================================================
