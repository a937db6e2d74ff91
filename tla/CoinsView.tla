------------------------------ MODULE CoinsView ------------------------------
(***************************************************************************)
(* What a stack of coins views promises to its users (coins.h, CCoinsView  *)
(* and CCoinsViewCache): three maps from outpoints to coins, one per       *)
(* level, and the hash of the block each of them represents.               *)
(*                                                                         *)
(*   stored   what the database holds;                                     *)
(*   active   what pcoinsTip shows, the UTXO set of the active chain;      *)
(*   pending  what the scratch view of the block being processed shows.    *)
(*                                                                         *)
(* There are no caches, no flags and no lazily read hashes at this level:  *)
(* a read changes nothing, and a flush copies one map onto the next.       *)
(***************************************************************************)
CONSTANTS Outpoints, Coins, Spent, Hashes, NullHash

VARIABLES stored, active, pending, storedBest, activeBest, pendingBest, open

vars == <<stored, active, pending, storedBest, activeBest, pendingBest, open>>

UtxoMap == [Outpoints -> Coins \union {Spent}]

Init == /\ stored \in UtxoMap
        /\ storedBest \in Hashes \union {NullHash}
        /\ active = stored /\ activeBest = storedBest
        /\ pending = stored /\ pendingBest = storedBest
        /\ open = FALSE

(* A scratch view starts as a copy of the active set.                      *)
Begin == /\ ~open
         /\ open' = TRUE
         /\ pending' = active /\ pendingBest' = activeBest
         /\ UNCHANGED <<stored, active, storedBest, activeBest>>

(* One outpoint of the scratch view gets a coin, or loses the one it had.  *)
Put(o, c) == /\ open
             /\ pending' = [pending EXCEPT ![o] = c]
             /\ UNCHANGED <<stored, active, storedBest, activeBest,
                            pendingBest, open>>

SetBest(h) == /\ open
              /\ pendingBest' = h
              /\ UNCHANGED <<stored, active, pending, storedBest, activeBest,
                             open>>

(* The scratch view becomes the active set, whole.                         *)
Commit == /\ open
          /\ active' = pending /\ activeBest' = pendingBest
          /\ open' = FALSE
          /\ UNCHANGED <<stored, pending, storedBest, pendingBest>>

(* The scratch view is dropped, whole.                                     *)
Abort == /\ open
         /\ open' = FALSE
         /\ pending' = active /\ pendingBest' = activeBest
         /\ UNCHANGED <<stored, active, storedBest, activeBest>>

(* The active set becomes the stored one, whole.                           *)
Store == /\ ~open
         /\ stored' = active /\ storedBest' = activeBest
         /\ UNCHANGED <<active, pending, activeBest, pendingBest, open>>

Next == \/ Begin
        \/ \E o \in Outpoints, c \in Coins \union {Spent} : Put(o, c)
        \/ \E h \in Hashes : SetBest(h)
        \/ Commit
        \/ Abort
        \/ Store

Spec == Init /\ [][Next]_vars
==============================================================================
