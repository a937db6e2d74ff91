---------------------------- MODULE BlockReplay ----------------------------
(***************************************************************************)
(* The three loops over the transactions of a block: ConnectBlock's, with  *)
(* UpdateCoins, RollforwardBlock's and DisconnectBlock's (all in           *)
(* src/src/validation.cpp).  The other two may meet a coins view in any    *)
(* state, because an interrupted flush leaves a mixture of two.            *)
(*                                                                         *)
(* A coin is its outpoint; a transaction is the coins it spends and the    *)
(* spendable outputs it makes, none of which existed before (a transaction *)
(* id is not repeated).  The first transaction is the coinbase.            *)
(***************************************************************************)
EXTENDS Naturals, Sequences

CONSTANTS
    Outs,     \* outpoints
    MaxTxs    \* bound on the transactions of a block

VARIABLES
    before,   \* the coins the block was connected to
    block,    \* block.vtx
    undo,     \* blockUndo.vtxundo
    loop,     \* which loop runs
    start,    \* the coins that loop began with
    view,     \* the coins now
    done,     \* how many transactions it has processed
    clean     \* DisconnectBlock: fClean

vars == <<before, block, undo, loop, start, view, done, clean>>

Ins == UNION {block[i].ins : i \in DOMAIN block}
Made == UNION {block[i].outs : i \in DOMAIN block}

Init ==
    /\ before \in SUBSET Outs
    /\ block = <<>> /\ undo = <<>> /\ loop = "connect"
    /\ start = before /\ view = before
    /\ done = 0 /\ clean = TRUE

-----------------------------------------------------------------------------
(* Mutant: the inputs stay.                                                *)
UpdateCoinsAdds(c, tx) == c \union tx.outs

UpdateCoins(c, tx) == (c \ tx.ins) \union tx.outs

(* Mutant: the coinbase gets a record too.                                 *)
UndoForEvery(tx) == Append(undo, tx.ins)

(* No record for the coinbase.                                             *)
UndoAfter(tx) == IF block = <<>> THEN undo ELSE Append(undo, tx.ins)

(* ConnectBlock: one more transaction, valid on what the earlier ones left. *)
ConnectTx(tx) ==
    /\ loop = "connect" /\ Len(block) < MaxTxs
    /\ tx.ins \subseteq view /\ (block = <<>> <=> tx.ins = {})
    /\ tx.outs \intersect (before \union Made) = {}
    /\ block' = Append(block, tx)
    /\ undo' = UndoAfter(tx)
    /\ view' = UpdateCoins(view, tx)
    /\ done' = done + 1
    /\ UNCHANGED <<before, loop, start, clean>>

(* The block is read back for one of the other loops, over the coins c.    *)
ReadBlock(l, c) ==
    /\ loop = "connect" /\ block # <<>>
    /\ loop' = l /\ start' = c /\ view' = c
    /\ done' = 0
    /\ UNCHANGED <<before, block, undo, clean>>

(* Mutant: an output is added only if its transaction's inputs were there. *)
RollforwardChecks(c, tx) == IF tx.ins \subseteq c THEN (c \ tx.ins) \union tx.outs ELSE c

(* SpendCoin's result is ignored, and any addition may be an overwrite.    *)
Rollforward(c, tx) == (c \ tx.ins) \union tx.outs

RollforwardTx ==
    /\ loop = "rollforward" /\ done < Len(block)
    /\ view' = Rollforward(view, block[done + 1])
    /\ done' = done + 1
    /\ UNCHANGED <<before, block, undo, loop, start, clean>>

(* Mutant: the transactions are undone in the order they were applied.     *)
UndoneForwards(n) == n + 1

(* "undo transactions in reverse order"                                    *)
Undone(n) == Len(block) - n

(* Mutant: only the restored inputs decide whether the undo was clean.     *)
CleanInputs(c, tx, restored) == (c \ tx.outs) \intersect restored = {}

(* Every output was there to be spent, and no restored coin was.           *)
CleanUndo(c, tx, restored) ==
    tx.outs \subseteq c /\ (c \ tx.outs) \intersect restored = {}

DisconnectTx ==
    LET i == Undone(done)
        restored == IF i > 1 THEN undo[i - 1] ELSE {}
    IN  /\ loop = "disconnect" /\ done < Len(block)
        /\ view' = (view \ block[i].outs) \union restored
        /\ clean' = (clean /\ CleanUndo(view, block[i], restored))
        /\ done' = done + 1
        /\ UNCHANGED <<before, block, undo, loop, start>>

Tx == [ins : SUBSET Outs, outs : SUBSET Outs]

Next ==
    \/ RollforwardTx \/ DisconnectTx
    \/ \E tx \in Tx : ConnectTx(tx)
    \/ \E l \in {"rollforward", "disconnect"}, c \in SUBSET Outs : ReadBlock(l, c)

Spec == Init /\ [][Next]_vars

-----------------------------------------------------------------------------
(* The state has its types, and block and undo data match, which           *)
(* DisconnectBlock verifies: one record for each transaction but the first. *)
TypeOK ==
    /\ before \subseteq Outs /\ start \subseteq Outs /\ view \subseteq Outs
    /\ block \in Seq(Tx) /\ undo \in Seq(SUBSET Outs)
    /\ loop \in {"connect", "rollforward", "disconnect"}
    /\ done \in 0 .. Len(block) /\ clean \in BOOLEAN
    /\ block # <<>> => Len(undo) + 1 = Len(block)

(* What a whole block does to a set of coins.                              *)
Spends == Ins \ Made
Creates == Made \ Ins
Passing == Made \intersect Ins
Forward(c) == (c \ (Spends \union Passing)) \union Creates
Backward(c) == (c \ (Creates \union Passing)) \union Spends

(* ConnectBlock's loop turns the coins before the block into those after   *)
(* it, where the coins it makes and spends itself leave no trace.          *)
ConnectEffect == loop = "connect" => view = Forward(before)

(* RollforwardBlock: "Apply the effects of a block on the utxo cache,      *)
(* ignoring that it may already have been applied", whatever the coins.    *)
RollforwardEffect ==
    loop = "rollforward" /\ done = Len(block) => view = Forward(start)

(* DisconnectBlock undoes the block over any coins ("the result is still a *)
(* version of the UTXO set with the effects of that block undone"), and    *)
(* over the coins the block left it gives back those before it.            *)
DisconnectEffect ==
    loop = "disconnect" /\ done = Len(block) =>
        /\ view = Backward(start)
        /\ start = Forward(before) => view = before

(* The undo is clean exactly over coins on which the block had had all its *)
(* effects: DISCONNECT_UNCLEAN tells "a non-existing UTXO was deleted, or  *)
(* an existing UTXO was overwritten".                                      *)
CleanExact ==
    loop = "disconnect" /\ done = Len(block) => (clean <=> Forward(start) = start)
=============================================================================
