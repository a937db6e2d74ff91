--------------------------- MODULE FlushRecovery ---------------------------
(***************************************************************************)
(* What a crash leaves, and how the next start repairs it                  *)
(* (FlushStateToDisk and ReplayBlocks in src/src/validation.cpp,           *)
(* CCoinsViewDB::BatchWrite in src/src/txdb.cpp).                          *)
(*                                                                         *)
(* Blocks go to the last block file when they arrive, their undo data to   *)
(* the undo file of the same number when they are connected.  A flush      *)
(* commits the last of these files, writes the block index, removes the    *)
(* files it prunes, then writes the coins.  The coins go out in several    *)
(* batches; the first one replaces DB_BEST_BLOCK by DB_HEAD_BLOCKS = (new  *)
(* tip, old tip), the last one puts it back.  pcoinsTip is here the map it *)
(* implements (CoinsCache shows that it is one), and a block is what it    *)
(* does to that map (BlockReplay shows that the loops over transactions do *)
(* this).                                                                  *)
(***************************************************************************)
EXTENDS FiniteSets, Naturals

CONSTANTS
    Blocks, Genesis,
    Parent,        \* pprev
    Chain,         \* Chain[b]: b and its ancestors
    Outs,          \* outpoints
    Spends,        \* Spends[b]: the older coins block b spends (its undo data)
    Creates,       \* Creates[b]: the coins it leaves
    Passing,       \* Passing[b]: the coins it creates and spends
    Utxo,          \* Utxo[b]: the coins there are after b
    None,          \* a null hash
    Keep,          \* MIN_BLOCKS_TO_KEEP
    MaxFile,       \* bound on the numbers of the block files
    MaxCrashes     \* bound on the crashes

ASSUME ChainAssumption ==
    /\ Genesis \in Blocks /\ None \notin Blocks
    /\ Parent \in [Blocks \ {Genesis} -> Blocks]
    /\ Chain \in [Blocks -> SUBSET Blocks]
    /\ Chain[Genesis] = {Genesis}
    /\ \A b \in Blocks \ {Genesis} :
        b \notin Chain[Parent[b]] /\ Chain[b] = Chain[Parent[b]] \union {b}
    /\ \A b \in Blocks : \A a \in Chain[b] : Chain[a] \subseteq Chain[b]
    /\ \A b \in Blocks : \A a \in Chain[b] \ {b} :
        \E c \in Chain[b] \ {Genesis} : Parent[c] = a
    /\ Keep \in Nat /\ MaxFile \in Nat /\ MaxCrashes \in Nat

ASSUME CoinsAssumption ==
    /\ Utxo \in [Blocks -> SUBSET Outs]
    /\ Spends \in [Blocks -> SUBSET Outs]
    /\ Creates \in [Blocks -> SUBSET Outs]
    /\ Passing \in [Blocks -> SUBSET Outs]
    /\ Utxo[Genesis] = {}
    /\ \A b \in Blocks \ {Genesis} :
        /\ Spends[b] \subseteq Utxo[Parent[b]]
        /\ Creates[b] \intersect Utxo[Parent[b]] = {}
        /\ Passing[b] \intersect (Utxo[Parent[b]] \union Creates[b]) = {}
        /\ Utxo[b] = (Utxo[Parent[b]] \ Spends[b]) \union Creates[b]

VARIABLES
    stage,      \* what the process is doing
    tip, coins, \* pcoinsTip: hashBlock and contents; the replay's cache while replaying
    cursor,     \* ReplayBlocks: the block whose effects have been applied last
    index,      \* mapBlockIndex and nLastBlockFile
    doomed,     \* the blocks in setFilesToPrune
    files,      \* the blocks in the blk files and the undo data in the rev files
    safe,       \* the part of them that a power failure leaves
    stored,     \* the block index database
    disk,       \* the coins database as a process finds it
    durable,    \* the coins database as a power failure leaves it
    crashes

vars == <<stage, tip, coins, cursor, index, doomed, files, safe, stored, disk, durable, crashes>>

(* known: the blocks that have an entry; data, undo: those with            *)
(* BLOCK_HAVE_DATA, BLOCK_HAVE_UNDO; file: nFile; last: nLastBlockFile.    *)
Index ==
    [known : SUBSET Blocks, data : SUBSET Blocks, undo : SUBSET Blocks,
     file : [Blocks -> Nat], last : Nat]

Files == [blk : SUBSET Blocks, rev : SUBSET Blocks]

(* best: DB_BEST_BLOCK; new and old: DB_HEAD_BLOCKS, if "heads".           *)
Database ==
    [coins : SUBSET Outs, best : Blocks \union {None}, heads : BOOLEAN,
     new : Blocks \union {None}, old : Blocks \union {None}]

(* The block whose coins a database with that best block holds: none at    *)
(* all before the first flush.                                             *)
Base(b) == IF b = None THEN Genesis ELSE b

Height(b) == Cardinality(Chain[b]) - 1

-----------------------------------------------------------------------------
(* The effects of one block.                                               *)

ConnectBlock(c, b) == (c \ (Spends[b] \union Passing[b])) \union Creates[b]
DisconnectBlock(c, b) == (c \ (Creates[b] \union Passing[b])) \union Spends[b]

(* Mutant: the inputs are not spent again.                                 *)
RollforwardAdds(c, b) == c \union Creates[b]

RollforwardBlock(c, b) == (c \ (Spends[b] \union Passing[b])) \union Creates[b]

Init ==
    /\ stage = "up" /\ tip = Genesis /\ coins = {} /\ cursor = Genesis
    /\ index = [known |-> {Genesis}, data |-> {Genesis}, undo |-> {},
                file |-> [b \in Blocks |-> 0], last |-> 0]
    /\ stored = index
    /\ doomed = {}
    /\ files = [blk |-> {Genesis}, rev |-> {}] /\ safe = files
    /\ disk = [coins |-> {}, best |-> None, heads |-> FALSE, new |-> None, old |-> None]
    /\ durable = disk
    /\ crashes = 0

-----------------------------------------------------------------------------
(* FlushBlockFile: FileCommit on the blk and the rev file nLastBlockFile,  *)
(* and on no other.                                                        *)
FlushBlockFile ==
    [blk |-> safe.blk \union {b \in files.blk \intersect index.data : index.file[b] = index.last},
     rev |-> safe.rev \union {b \in files.rev \intersect index.undo : index.file[b] = index.last}]

(* Between flushes.                                                        *)

(* Mutant: FindBlockPos leaves a file without committing it.               *)
AcceptIntoNext(b, n) ==
    /\ stage = "up" /\ b # Genesis
    /\ Parent[b] \in index.known /\ b \notin index.data
    /\ n \in {index.last, index.last + 1} /\ n <= MaxFile
    /\ index' = [index EXCEPT !.known = @ \union {b}, !.data = @ \union {b},
                              !.file[b] = n, !.last = n]
    /\ files' = [files EXCEPT !.blk = @ \union {b}]
    /\ UNCHANGED <<stage, tip, coins, cursor, doomed, safe, stored, disk, durable, crashes>>

(* AcceptBlock saves the block to the last file or, if that is full, to    *)
(* the next one: FindBlockPos then commits the file it leaves.             *)
AcceptBlock(b, n) ==
    /\ stage = "up" /\ b # Genesis
    /\ Parent[b] \in index.known /\ b \notin index.data
    /\ n \in {index.last, index.last + 1} /\ n <= MaxFile
    /\ index' = [index EXCEPT !.known = @ \union {b}, !.data = @ \union {b},
                              !.file[b] = n, !.last = n]
    /\ files' = [files EXCEPT !.blk = @ \union {b}]
    /\ safe' = IF n = index.last THEN safe ELSE FlushBlockFile
    /\ UNCHANGED <<stage, tip, coins, cursor, doomed, stored, disk, durable, crashes>>

(* ReadBlockFromDisk, then ConnectBlock with WriteUndoDataForBlock: undo   *)
(* data that is there already is not written again.                        *)
ConnectTip(b) ==
    /\ stage = "up" /\ b # Genesis /\ Parent[b] = tip
    /\ b \in index.data \intersect files.blk
    /\ tip' = b
    /\ coins' = ConnectBlock(coins, b)
    /\ index' = [index EXCEPT !.undo = @ \union {b}]
    /\ files' = IF b \in index.undo THEN files ELSE [files EXCEPT !.rev = @ \union {b}]
    /\ UNCHANGED <<stage, cursor, doomed, safe, stored, disk, durable, crashes>>

(* It needs the block and its undo data; without them nothing changes.     *)
DisconnectTip ==
    /\ stage = "up" /\ tip # Genesis
    /\ tip \in index.data \intersect files.blk
    /\ tip \in index.undo \intersect files.rev
    /\ tip' = Parent[tip]
    /\ coins' = DisconnectBlock(coins, tip)
    /\ UNCHANGED <<stage, cursor, index, doomed, files, safe, stored, disk, durable, crashes>>

-----------------------------------------------------------------------------
(* FlushStateToDisk.                                                       *)

(* FindFilesToPrune takes files up to n until enough space is free,        *)
(* FindFilesToPruneManual those whose blocks are no higher than h; neither *)
(* takes the last file.                                                    *)
FilesToPrune(n, h) ==
    {f \in 0 .. n : f < index.last /\ \A b \in index.data : index.file[b] = f => Height(b) <= h}

BlocksToPrune(n, h) == {b \in index.data : index.file[b] \in FilesToPrune(n, h)}

(* Mutant: the pruned files are removed before the index is written.       *)
StartFlushUnlinks(p) ==
    /\ stage = "up"
    /\ stage' = "files"
    /\ index' = [index EXCEPT !.data = @ \ p, !.undo = @ \ p,
                              !.file = [b \in Blocks |-> IF b \in p THEN 0 ELSE @[b]]]
    /\ doomed' = p
    /\ files' = [blk |-> files.blk \ p, rev |-> files.rev \ p]
    /\ safe' = [blk |-> FlushBlockFile.blk \ p, rev |-> FlushBlockFile.rev \ p]
    /\ UNCHANGED <<tip, coins, cursor, stored, disk, durable, crashes>>

(* PruneOneBlockFile for the blocks p, if any, and FlushBlockFile.         *)
StartFlush(p) ==
    /\ stage = "up"
    /\ stage' = "files"
    /\ index' = [index EXCEPT !.data = @ \ p, !.undo = @ \ p,
                              !.file = [b \in Blocks |-> IF b \in p THEN 0 ELSE @[b]]]
    /\ doomed' = p
    /\ safe' = FlushBlockFile
    /\ UNCHANGED <<tip, coins, cursor, files, stored, disk, durable, crashes>>

(* WriteBatchSync.                                                         *)
WriteIndex ==
    /\ stage = "files"
    /\ stage' = "index"
    /\ stored' = index
    /\ UNCHANGED <<tip, coins, cursor, index, doomed, files, safe, disk, durable, crashes>>

(* fFlushForPrune: the coins are written after it.                         *)
UnlinkPrunedFiles ==
    /\ stage = "index" /\ doomed # {}
    /\ stage' = "coins"
    /\ files' = [blk |-> files.blk \ doomed, rev |-> files.rev \ doomed]
    /\ safe' = [blk |-> safe.blk \ doomed, rev |-> safe.rev \ doomed]
    /\ doomed' = {}
    /\ UNCHANGED <<tip, coins, cursor, index, stored, disk, durable, crashes>>

(* fPeriodicWrite without fDoFullFlush.                                    *)
EndIndexWrite ==
    /\ stage = "index" /\ doomed = {}
    /\ stage' = "up"
    /\ UNCHANGED <<tip, coins, cursor, index, doomed, files, safe, stored, disk, durable, crashes>>

(* Mutant: a replay does not look for the heads it interrupts.             *)
OldTipBest == disk.best

OldTip == IF disk.best = None /\ disk.heads THEN disk.old ELSE disk.best

(* Mutant: DB_BEST_BLOCK stays while the coins change.                     *)
HeadsBeside == [disk EXCEPT !.heads = TRUE, !.new = tip, !.old = OldTip]

(* DB_HEAD_BLOCKS takes the place of DB_BEST_BLOCK.                        *)
HeadsOnly == [disk EXCEPT !.best = None, !.heads = TRUE, !.new = tip, !.old = OldTip]

(* A batch that reached -dbbatchsize, with the changed coins w.            *)
WritePartialBatch(w) ==
    /\ stage \in {"index", "coins"} /\ doomed = {}
    /\ w \subseteq (coins \ disk.coins) \union (disk.coins \ coins)
    /\ stage' = "coins"
    /\ disk' = [HeadsOnly EXCEPT !.coins = (@ \ (w \ coins)) \union (w \intersect coins)]
    /\ UNCHANGED <<tip, coins, cursor, index, doomed, files, safe, stored, durable, crashes>>

(* The last batch, with the changes left.                                  *)
WriteFinalBatch ==
    /\ stage \in {"index", "coins"} /\ doomed = {}
    /\ stage' = "up"
    /\ disk' = [coins |-> coins, best |-> tip, heads |-> FALSE, new |-> None, old |-> None]
    /\ UNCHANGED <<tip, coins, cursor, index, doomed, files, safe, stored, durable, crashes>>

(* The operating system writes LevelDB's log back: batches are not synced. *)
WriteBack ==
    /\ durable # disk
    /\ durable' = disk
    /\ UNCHANGED <<stage, tip, coins, cursor, index, doomed, files, safe, stored, disk, crashes>>

-----------------------------------------------------------------------------
(* The process or the machine stops.  What the index on disk does not name *)
(* is as good as gone from the files f: the next blocks are written there. *)
Named(f) == [blk |-> f.blk \intersect stored.data, rev |-> f.rev \intersect stored.undo]

Crash(d, f, s) ==
    /\ stage \notin {"down", "failed"} /\ crashes < MaxCrashes
    /\ crashes' = crashes + 1
    /\ stage' = "down"
    /\ tip' = Genesis /\ coins' = {} /\ cursor' = Genesis /\ doomed' = {}
    /\ index' = [known |-> {}, data |-> {}, undo |-> {}, file |-> [b \in Blocks |-> 0], last |-> 0]
    /\ disk' = d
    /\ files' = Named(f) /\ safe' = Named(s)
    /\ UNCHANGED <<stored, durable>>

(* Besides what was committed, a power failure leaves what the operating   *)
(* system happened to have written back.                                   *)
Remains ==
    {[blk |-> safe.blk \union x, rev |-> safe.rev \union y] :
        x \in SUBSET (files.blk \ safe.blk), y \in SUBSET (files.rev \ safe.rev)}

Kill == Crash(disk, files, safe)
PowerFailure == \E f \in Remains : Crash(durable, f, f)

(* "Checking all blk files are present...": each file the index names is   *)
(* opened.                                                                 *)
FilesPresent ==
    \A b \in stored.data : \E c \in files.blk : stored.file[c] = stored.file[b]

(* AppInitMain: LoadBlockIndex, ReplayBlocks if there are heads, and       *)
(* LoadChainTip if there are coins.                                        *)
Restart ==
    /\ stage = "down"
    /\ index' = stored
    /\ coins' = disk.coins
    /\ \/ /\ FilesPresent /\ ~disk.heads /\ Base(disk.best) \in stored.known
          /\ stage' = "up"
          /\ tip' = Base(disk.best)
          /\ UNCHANGED cursor
       \/ /\ FilesPresent /\ disk.heads /\ {disk.new, Base(disk.old)} \subseteq stored.known
          /\ stage' = "replay"
          /\ cursor' = Base(disk.old)
          /\ UNCHANGED tip
       \/ /\ \/ ~FilesPresent
             \/ ~disk.heads /\ Base(disk.best) \notin stored.known
             \/ disk.heads /\ ~({disk.new, Base(disk.old)} \subseteq stored.known)
          /\ stage' = "failed"
          /\ UNCHANGED <<tip, cursor>>
    /\ UNCHANGED <<doomed, files, safe, stored, disk, durable, crashes>>

(* ReplayBlocks has to roll back a block of the old branch.  DisconnectBlock *)
(* begins with assert(pindex->GetBlockHash() == view.GetBestBlock()); the    *)
(* cache asks the database, which has no DB_BEST_BLOCK now.  (globalState,   *)
(* which it would use next, does not exist yet either.)                      *)
RollbackBlock ==
    /\ stage = "replay" /\ cursor \notin Chain[disk.new]
    /\ cursor # disk.best
    /\ stage' = "failed"
    /\ UNCHANGED <<tip, coins, cursor, index, doomed, files, safe, stored, disk, durable, crashes>>

(* Mutant: the height does not advance.                                    *)
SameBlock(b) == Parent[b]

NextBlock(b) == b

(* ReplayBlocks rolls the next block of the new branch forward, or gives   *)
(* up if ReadBlockFromDisk does not find it.                               *)
RollForward(b) ==
    /\ stage = "replay" /\ cursor \in Chain[disk.new]
    /\ b \in Chain[disk.new] \ {Genesis} /\ Parent[b] = cursor
    /\ \/ /\ b \in index.data \intersect files.blk
          /\ coins' = RollforwardBlock(coins, b)
          /\ cursor' = NextBlock(b)
          /\ UNCHANGED stage
       \/ /\ b \notin index.data \intersect files.blk
          /\ stage' = "failed"
          /\ UNCHANGED <<coins, cursor>>
    /\ UNCHANGED <<tip, index, doomed, files, safe, stored, disk, durable, crashes>>

(* cache.SetBestBlock(pindexNew), then cache.Flush().                      *)
FinishReplay ==
    /\ stage = "replay" /\ cursor = disk.new
    /\ stage' = "coins"
    /\ tip' = disk.new
    /\ UNCHANGED <<coins, cursor, index, doomed, files, safe, stored, disk, durable, crashes>>

Next ==
    \/ DisconnectTip \/ StartFlush({}) \/ WriteIndex \/ UnlinkPrunedFiles \/ EndIndexWrite
    \/ WriteFinalBatch \/ WriteBack
    \/ Kill \/ PowerFailure
    \/ Restart \/ RollbackBlock \/ FinishReplay
    \/ \E b \in Blocks : ConnectTip(b) \/ RollForward(b)
    \/ \E b \in Blocks, n \in 0 .. MaxFile : AcceptBlock(b, n)
    \/ \E b \in Blocks, n \in 0 .. MaxFile :
        Height(b) + Keep <= Height(tip) /\ StartFlush(BlocksToPrune(n, Height(b)))
    \/ \E w \in SUBSET Outs : WritePartialBatch(w)

Spec == Init /\ [][Next]_vars

(* The node is started again after a crash; a flush and a replay go on.    *)
FairSpec ==
    /\ Spec
    /\ WF_vars(WriteIndex) /\ WF_vars(UnlinkPrunedFiles) /\ WF_vars(WriteFinalBatch)
    /\ WF_vars(Restart) /\ WF_vars(RollbackBlock) /\ WF_vars(FinishReplay)
    /\ WF_vars(\E b \in Blocks : RollForward(b))

-----------------------------------------------------------------------------
(* The state has its types, and the database has either a best block or    *)
(* heads (BatchWrite), never both.                                         *)
TypeOK ==
    /\ stage \in {"up", "files", "index", "coins", "down", "replay", "failed"}
    /\ tip \in Blocks /\ cursor \in Blocks
    /\ coins \subseteq Outs
    /\ index \in Index /\ stored \in Index
    /\ doomed \subseteq Blocks
    /\ files \in Files /\ safe \in Files
    /\ crashes \in Nat
    /\ \A d \in {disk, durable} :
        /\ d \in Database
        /\ d.heads => d.best = None /\ d.new # None

(* The coins a running node works with are those of its tip, whatever      *)
(* crashes and repairs came before.                                        *)
CoinsOfTip == stage \in {"up", "files", "index", "coins"} => coins = Utxo[tip]

(* Between two batches every coin of the database has the state it has     *)
(* after the old tip or after the new one, which is all that ReplayBlocks  *)
(* relies on; outside a flush the coins are those of DB_BEST_BLOCK.        *)
Between(c, u, v) == u \intersect v \subseteq c /\ c \subseteq u \union v

CoinsBetween(d) ==
    IF d.heads THEN Between(d.coins, Utxo[Base(d.old)], Utxo[d.new])
               ELSE d.coins = Utxo[Base(d.best)]

DatabaseRepairable == CoinsBetween(disk) /\ CoinsBetween(durable)

(* "Flush the chainstate (which may refer to block index entries)" and     *)
(* "update all block file information (which may refer to block and undo   *)
(* files)": every block the coins database names is in the block index on  *)
(* disk with all its ancestors; every block that index has data for is     *)
(* committed to its block file, and so is the undo data it has in the last *)
(* file.                                                                   *)
ReferencesKept ==
    /\ \A d \in {disk, durable} : \A b \in {d.best, d.new, d.old} \ {None} :
        Chain[b] \subseteq stored.known
    /\ stored.data \subseteq safe.blk
    /\ {b \in stored.undo : stored.file[b] = stored.last} \subseteq safe.rev

(* "First make sure all block and undo data is flushed to disk": after     *)
(* any crash the undo data that the index on disk names can be read.       *)
UndoKept == stored.undo \subseteq files.rev

(* A start fails only when the flush that was cut short went from one      *)
(* branch to another, or when a block it has to repeat has been pruned:    *)
(* never because a file, an index entry or a block that the databases name *)
(* is missing.                                                             *)
FailsOnlyForCause ==
    stage = "failed" =>
        /\ disk.heads
        /\ \/ Base(disk.old) \notin Chain[disk.new]
           \/ \E b \in Chain[disk.new] \ Chain[Base(disk.old)] : b \in stored.known \ stored.data

(* After a crash the node comes back up, or fails as above.                *)
Recovers == []<>(stage \in {"up", "failed"})

(* "restart until recovery succeeds" (feature_dbcrash.py): no crash leaves *)
(* a database that no restart can repair.                                  *)
NeverFails == stage # "failed"
==============================================================================
