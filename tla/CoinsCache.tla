------------------------------ MODULE CoinsCache ------------------------------
(***************************************************************************)
(* CCoinsViewCache (src/src/coins.cpp): a write-back cache of unspent      *)
(* transaction outputs with DIRTY and FRESH flags, in the stack the node   *)
(* runs: the scratch view of one block (ConnectTip, DisconnectTip) over    *)
(* pcoinsTip over the coins database.                                      *)
(*                                                                         *)
(* A coin is an opaque value.  Spent is what Coin::IsSpent recognises: a   *)
(* cleared coin in a cache, no record in the database.                     *)
(***************************************************************************)
EXTENDS Naturals

CONSTANTS
    Outpoints,    \* transaction outputs
    Coins,        \* the unspent coins an output may hold
    Unspendable,  \* the coins whose script IsUnspendable
    Spent,        \* a cleared coin
    NoEntry,      \* cacheCoins has no entry for an outpoint
    Hashes,       \* block hashes
    NullHash      \* the null uint256

Entry == [coin : Coins \union {Spent}, dirty : BOOLEAN, fresh : BOOLEAN]

ASSUME CoinsAssumption ==
    /\ Unspendable \subseteq Coins
    /\ Spent \notin Coins
    /\ NoEntry \notin Entry
    /\ NullHash \notin Hashes

VARIABLES
    db, dbBest,        \* the coins database and its DB_BEST_BLOCK
    tip, tipHash,      \* pcoinsTip: cacheCoins, hashBlock
    view, viewHash,    \* the scratch view: cacheCoins, hashBlock
    open,              \* the scratch view exists
    threw              \* a std::logic_error left coins.cpp

vars == <<db, dbBest, tip, tipHash, view, viewHash, open, threw>>

Cache == [Outpoints -> Entry \union {NoEntry}]
EmptyCache == [o \in Outpoints |-> NoEntry]

-----------------------------------------------------------------------------
(* The operations of one cache, as functions of its cacheCoins c and of    *)
(* the map b its base shows.                                               *)

(* What GetCoin, HaveCoin and AccessCoin answer, outpoint by outpoint.     *)
Contents(c, b) ==
    [o \in Outpoints |-> IF c[o] = NoEntry THEN b[o] ELSE c[o].coin]

(* A miss copies the base's coin without flags; a coin the base does not   *)
(* have is not cached.  (base->GetCoin never returns a spent coin, so the  *)
(* branch that would mark a spent copy FRESH is not taken.)                *)
FetchCoin(c, b, o) ==
    IF c[o] # NoEntry \/ b[o] = Spent
    THEN c
    ELSE [c EXCEPT ![o] = [coin |-> b[o], dirty |-> FALSE, fresh |-> FALSE]]

AddThrows(c, o, coin, overwrite) ==
    /\ coin \notin Unspendable
    /\ ~overwrite
    /\ c[o] # NoEntry
    /\ c[o].coin # Spent

(* Mutant: the IsUnspendable return is missing.                            *)
AddCoinUnspendable(c, o, coin, overwrite) ==
    [c EXCEPT ![o] =
        [coin  |-> coin,
         dirty |-> TRUE,
         fresh |-> \/ c[o] # NoEntry /\ c[o].fresh
                   \/ ~overwrite /\ (c[o] = NoEntry \/ ~c[o].dirty)]]

(* Mutant: a possible overwrite is marked FRESH too.                       *)
AddCoinAlwaysFresh(c, o, coin, overwrite) ==
    IF coin \in Unspendable
    THEN c
    ELSE [c EXCEPT ![o] = [coin |-> coin, dirty |-> TRUE, fresh |-> TRUE]]

(* A new entry is FRESH unless the caller says it may overwrite; an entry  *)
(* that was DIRTY keeps the FRESH flag it had.                             *)
AddCoin(c, o, coin, overwrite) ==
    IF coin \in Unspendable
    THEN c
    ELSE [c EXCEPT ![o] =
            [coin  |-> coin,
             dirty |-> TRUE,
             fresh |-> \/ c[o] # NoEntry /\ c[o].fresh
                       \/ ~overwrite /\ (c[o] = NoEntry \/ ~c[o].dirty)]]

(* Mutant: the entry is forgotten whether FRESH or not.                    *)
SpendCoinForgets(c, b, o) ==
    [FetchCoin(c, b, o) EXCEPT ![o] = NoEntry]

(* A FRESH entry is forgotten, any other is kept as a spent one.           *)
SpendCoin(c, b, o) ==
    LET f == FetchCoin(c, b, o)
    IN  IF f[o] = NoEntry
        THEN f
        ELSE IF f[o].fresh
             THEN [f EXCEPT ![o] = NoEntry]
             ELSE [f EXCEPT ![o] = [coin |-> Spent, dirty |-> TRUE, fresh |-> FALSE]]

(* Mutant: an entry is dropped whatever its flags.                         *)
UncacheAlways(c, o) == [c EXCEPT ![o] = NoEntry]

Uncache(c, o) ==
    IF c[o] # NoEntry /\ ~c[o].dirty /\ ~c[o].fresh
    THEN [c EXCEPT ![o] = NoEntry]
    ELSE c

Modified(c, o) == c[o] # NoEntry /\ c[o].dirty

BatchWriteThrows(p, c) ==
    \E o \in Outpoints : /\ Modified(c, o)
                         /\ c[o].fresh
                         /\ p[o] # NoEntry
                         /\ p[o].coin # Spent

(* Mutant: the child's FRESH flag is copied onto an entry the parent has.  *)
BatchWriteCopiesFresh(p, c) ==
    [o \in Outpoints |->
        IF ~Modified(c, o)
        THEN p[o]
        ELSE IF c[o].coin = Spent /\ (IF p[o] = NoEntry THEN c[o].fresh ELSE p[o].fresh)
             THEN NoEntry
             ELSE [coin |-> c[o].coin, dirty |-> TRUE, fresh |-> c[o].fresh]]

(* CCoinsViewCache::BatchWrite: the entries of the child c written onto    *)
(* the parent cache p.                                                     *)
BatchWrite(p, c) ==
    [o \in Outpoints |->
        IF ~Modified(c, o)
        THEN p[o]
        ELSE IF c[o].coin = Spent /\ (IF p[o] = NoEntry THEN c[o].fresh ELSE p[o].fresh)
             THEN NoEntry
             ELSE [coin  |-> c[o].coin,
                   dirty |-> TRUE,
                   fresh |-> IF p[o] = NoEntry THEN c[o].fresh ELSE p[o].fresh]]

(* CCoinsViewDB::BatchWrite, as one step (FlushRecovery splits it).        *)
DBWrite(d, c) ==
    [o \in Outpoints |-> IF Modified(c, o) THEN c[o].coin ELSE d[o]]

GetBestBlock(hash, base) == IF hash = NullHash THEN base ELSE hash

-----------------------------------------------------------------------------
TipContents == Contents(tip, db)
ViewContents == Contents(view, TipContents)

(* A lookup in the scratch view that misses is a lookup in pcoinsTip.      *)
TipAfterViewLookup(o) ==
    IF view[o] = NoEntry THEN FetchCoin(tip, db, o) ELSE tip

Init == /\ db \in [Outpoints -> (Coins \ Unspendable) \union {Spent}]
        /\ dbBest \in Hashes \union {NullHash}
        /\ dbBest = NullHash => \A o \in Outpoints : db[o] = Spent
        /\ tip = EmptyCache /\ tipHash = NullHash
        /\ view = EmptyCache /\ viewHash = NullHash
        /\ open = FALSE
        /\ threw = FALSE

(* CCoinsViewCache view(pcoinsTip.get())                                   *)
NewView ==
    /\ ~open /\ ~threw
    /\ open' = TRUE
    /\ view' = EmptyCache /\ viewHash' = NullHash
    /\ UNCHANGED <<db, dbBest, tip, tipHash, threw>>

(* GetCoin, HaveCoin, AccessCoin on the scratch view.                      *)
ViewLookup(o) ==
    /\ open /\ ~threw
    /\ tip' = TipAfterViewLookup(o)
    /\ view' = FetchCoin(view, TipContents, o)
    /\ UNCHANGED <<db, dbBest, tipHash, viewHash, open, threw>>

(* AddCoin as AddCoins(check = false) calls it: overwrite is set for the   *)
(* outputs of a coinbase, which may duplicate an older one; the outputs of *)
(* any other transaction are new.                                          *)
ViewAddCoin(o, coin, overwrite) ==
    /\ open /\ ~threw
    /\ overwrite \/ ViewContents[o] = Spent
    /\ threw' = AddThrows(view, o, coin, overwrite)
    /\ view' = IF threw' THEN view ELSE AddCoin(view, o, coin, overwrite)
    /\ UNCHANGED <<db, dbBest, tip, tipHash, viewHash, open>>

(* AddCoin as AddCoins(check = true) and ApplyTxInUndo call it: HaveCoin   *)
(* decides overwrite.                                                      *)
ViewRestoreCoin(o, coin) ==
    /\ open /\ ~threw
    /\ LET fetched == FetchCoin(view, TipContents, o)
           have == fetched[o] # NoEntry /\ fetched[o].coin # Spent
       IN  /\ threw' = AddThrows(fetched, o, coin, have)
           /\ view' = IF threw' THEN fetched ELSE AddCoin(fetched, o, coin, have)
    /\ tip' = TipAfterViewLookup(o)
    /\ UNCHANGED <<db, dbBest, tipHash, viewHash, open>>

ViewSpendCoin(o) ==
    /\ open /\ ~threw
    /\ tip' = TipAfterViewLookup(o)
    /\ view' = SpendCoin(view, TipContents, o)
    /\ UNCHANGED <<db, dbBest, tipHash, viewHash, open, threw>>

(* A null hash is read from the base, through pcoinsTip, and kept.         *)
ViewGetBestBlock ==
    /\ open /\ ~threw
    /\ tipHash' = IF viewHash = NullHash THEN GetBestBlock(tipHash, dbBest) ELSE tipHash
    /\ viewHash' = GetBestBlock(viewHash, tipHash')
    /\ UNCHANGED <<db, dbBest, tip, view, open, threw>>

ViewSetBestBlock(h) ==
    /\ open /\ ~threw
    /\ viewHash' = h
    /\ UNCHANGED <<db, dbBest, tip, tipHash, view, open, threw>>

(* Flush, then the view goes out of scope.  Every caller has set the best  *)
(* block, or read it, before.                                              *)
ViewFlush ==
    /\ open /\ ~threw
    /\ viewHash # NullHash
    /\ threw' = BatchWriteThrows(tip, view)
    /\ IF threw'
       THEN UNCHANGED <<tip, tipHash, view, viewHash, open>>
       ELSE /\ tip' = BatchWrite(tip, view)
            /\ tipHash' = viewHash
            /\ view' = EmptyCache /\ viewHash' = NullHash
            /\ open' = FALSE
    /\ UNCHANGED <<db, dbBest>>

(* ConnectBlock failed: the view goes out of scope without a Flush.        *)
DropView ==
    /\ open /\ ~threw
    /\ open' = FALSE
    /\ view' = EmptyCache /\ viewHash' = NullHash
    /\ UNCHANGED <<db, dbBest, tip, tipHash, threw>>

(* Lookups in pcoinsTip by others (mempool acceptance, RPC).               *)
TipLookup(o) ==
    /\ ~open /\ ~threw
    /\ tip' = FetchCoin(tip, db, o)
    /\ UNCHANGED <<db, dbBest, tipHash, view, viewHash, open, threw>>

TipGetBestBlock ==
    /\ ~open /\ ~threw
    /\ tipHash' = GetBestBlock(tipHash, dbBest)
    /\ UNCHANGED <<db, dbBest, tip, view, viewHash, open, threw>>

(* AcceptToMemoryPool drops the coins a rejected transaction pulled in.    *)
TipUncache(o) ==
    /\ ~open /\ ~threw
    /\ tip' = Uncache(tip, o)
    /\ UNCHANGED <<db, dbBest, tipHash, view, viewHash, open, threw>>

(* FlushStateToDisk: if (!pcoinsTip->GetBestBlock().IsNull())              *)
(* pcoinsTip->Flush().                                                     *)
TipFlush ==
    /\ ~open /\ ~threw
    /\ GetBestBlock(tipHash, dbBest) # NullHash
    /\ tipHash' = GetBestBlock(tipHash, dbBest)
    /\ db' = DBWrite(db, tip)
    /\ dbBest' = tipHash'
    /\ tip' = EmptyCache
    /\ UNCHANGED <<view, viewHash, open, threw>>

Next ==
    \/ NewView
    \/ \E o \in Outpoints : ViewLookup(o) \/ ViewSpendCoin(o) \/ TipLookup(o) \/ TipUncache(o)
    \/ \E o \in Outpoints, c \in Coins, ow \in BOOLEAN : ViewAddCoin(o, c, ow)
    \/ \E o \in Outpoints, c \in Coins : ViewRestoreCoin(o, c)
    \/ ViewGetBestBlock
    \/ \E h \in Hashes : ViewSetBestBlock(h)
    \/ ViewFlush
    \/ DropView
    \/ TipGetBestBlock
    \/ TipFlush

Spec == Init /\ [][Next]_vars

-----------------------------------------------------------------------------
(* Every variable has its type; in particular the database holds no        *)
(* unspendable output.                                                     *)
TypeOK == /\ db \in [Outpoints -> (Coins \ Unspendable) \union {Spent}]
          /\ dbBest \in Hashes \union {NullHash}
          /\ tip \in Cache /\ tipHash \in Hashes \union {NullHash}
          /\ view \in Cache /\ viewHash \in Hashes \union {NullHash}
          /\ open \in BOOLEAN
          /\ threw \in BOOLEAN

(* What the flags of an entry of cache c claim about its base b.           *)
SoundEntry(c, b, o) ==
    c[o] # NoEntry =>
        /\ c[o].fresh => c[o].dirty /\ b[o] = Spent
        /\ ~c[o].dirty => c[o].coin = b[o]
        /\ c[o].coin = Spent => c[o].dirty /\ ~c[o].fresh

SoundCache(c, b) == \A o \in Outpoints : SoundEntry(c, b, o)

(* The comments on CCoinsCacheEntry::Flags, at both levels: a FRESH entry  *)
(* is one the parent does not have (or has pruned), an entry that is not   *)
(* DIRTY is the parent's own version, and a spent entry is kept only to    *)
(* tell the parent, so it is DIRTY and not FRESH.                          *)
FlagsSound == SoundCache(tip, db) /\ SoundCache(view, TipContents)

(* Neither logic_error of coins.cpp is ever thrown: not "Adding new coin   *)
(* that replaces non-pruned entry" in AddCoin, not "FRESH flag misapplied" *)
(* in BatchWrite.                                                          *)
NeverThrows == ~threw

Having(m, o, c) == IF c \in Unspendable THEN m ELSE [m EXCEPT ![o] = c]

(* A call on the scratch view has its effect at once, however the coin is  *)
(* spread over the caches below: after SpendCoin the view shows the        *)
(* outpoint spent, after AddCoin it shows the new coin, and it shows every *)
(* other outpoint as before.                                               *)
CallsTakeEffect ==
    [][\A o \in Outpoints :
        /\ ViewSpendCoin(o) => ViewContents' = [ViewContents EXCEPT ![o] = Spent]
        /\ \A c \in Coins :
             \/ ViewRestoreCoin(o, c)
             \/ \E ow \in BOOLEAN : ViewAddCoin(o, c, ow)
             => ViewContents' = Having(ViewContents, o, c)]_vars

(* The stack of caches behaves as three plain maps: a lookup, an Uncache   *)
(* or a lazily read best block changes nothing anyone can see, a flush     *)
(* moves a whole map and its best block down one level, and dropping a     *)
(* view leaves no trace.                                                   *)
Plain == INSTANCE CoinsView
    WITH stored <- db,
         active <- TipContents,
         pending <- IF open THEN ViewContents ELSE TipContents,
         storedBest <- dbBest,
         activeBest <- GetBestBlock(tipHash, dbBest),
         pendingBest <- IF open
                        THEN GetBestBlock(viewHash, GetBestBlock(tipHash, dbBest))
                        ELSE GetBestBlock(tipHash, dbBest)

PlainMaps == Plain!Spec
==============================================================================
