------------------------ MODULE FlushRecoveryProofs ------------------------
(***************************************************************************)
(* For every tree of blocks, every set of coins and any number of crashes: *)
(* the coins database can always be repaired, and a node that runs has the *)
(* coins of its tip.                                                       *)
(*                                                                         *)
(* What makes the repair work is a fact about one block: applied to any    *)
(* mixture of the coins before it with those of some set v, it gives a     *)
(* mixture of the coins after it with v (RollforwardKeepsBetween).  Rolled *)
(* forward to the new tip, with v the coins of that tip, the mixture has   *)
(* become those coins.                                                     *)
(***************************************************************************)
EXTENDS FlushRecovery, TLAPS

Running == {"up", "files", "index", "coins"}

(* An index entry has undo data only with block data, and no file above    *)
(* nLastBlockFile.                                                         *)
IndexSound(i) ==
    /\ i.undo \subseteq i.data /\ i.data \subseteq i.known
    /\ \A b \in i.data : i.file[b] <= i.last

(* What is in the block index in memory and on disk at each stage.         *)
IndexOk ==
    /\ IndexSound(index) /\ IndexSound(stored)
    /\ Genesis \in stored.known
    /\ stage \in Running => stored.known \subseteq index.known /\ Chain[tip] \subseteq index.known
    /\ stage \in {"index", "coins"} => Chain[tip] \subseteq stored.known
    /\ stage = "replay" => index = stored

(* The files hold what the index says, and only data in the last file may  *)
(* be uncommitted; between FlushBlockFile and the removal of the pruned    *)
(* files nothing that is still indexed is.                                 *)
FilesOk ==
    /\ safe.blk \subseteq files.blk /\ safe.rev \subseteq files.rev
    /\ \A b \in index.data : b \in files.blk /\ (b \in safe.blk \/ index.file[b] = index.last)
    /\ \A b \in index.undo : index.file[b] = index.last => b \in files.rev
    /\ stage = "files" =>
        /\ index.data \subseteq safe.blk
        /\ {b \in index.undo : index.file[b] = index.last} \subseteq safe.rev
    /\ stage \in {"files", "index"} => doomed \intersect index.data = {}
    /\ stage = "index" => stored = index
    /\ stage \notin {"files", "index"} => doomed = {}

(* Heads are on disk only while coins are being written or after a crash,  *)
(* and a replay writes towards the new head it found (the assertion of     *)
(* CCoinsViewDB::BatchWrite).                                              *)
HeadsOk ==
    /\ stage \in {"up", "files", "index"} => ~disk.heads
    /\ stage = "coins" /\ disk.heads => disk.new = tip

(* The progress of a replay.                                               *)
ReplayOk ==
    stage = "replay" =>
        /\ disk.heads
        /\ cursor \in Chain[disk.new] \/ cursor = Base(disk.old)
        /\ Base(disk.old) \in Chain[cursor]
        /\ Between(coins, Utxo[cursor], Utxo[disk.new])

IInv ==
    /\ TypeOK /\ CoinsOfTip /\ DatabaseRepairable /\ ReferencesKept
    /\ FailsOnlyForCause /\ IndexOk /\ FilesOk /\ HeadsOk /\ ReplayOk

-----------------------------------------------------------------------------
(* Lemmas on single blocks.                                                *)

(* Connecting a block to the coins of its parent gives its own coins.      *)
LEMMA ConnectGives ==
    ASSUME NEW b \in Blocks \ {Genesis}
    PROVE  ConnectBlock(Utxo[Parent[b]], b) = Utxo[b]
BY ChainAssumption, CoinsAssumption DEF ConnectBlock

(* Disconnecting it gives its parent's.                                    *)
LEMMA DisconnectGives ==
    ASSUME NEW b \in Blocks \ {Genesis}
    PROVE  DisconnectBlock(Utxo[b], b) = Utxo[Parent[b]]
BY ChainAssumption, CoinsAssumption DEF DisconnectBlock

(* Rolling a block forward over a mixture: the coins it touches get the    *)
(* state they have after it, the others had one of the two states already. *)
LEMMA RollforwardKeepsBetween ==
    ASSUME NEW b \in Blocks \ {Genesis}, NEW c, NEW v,
           Between(c, Utxo[Parent[b]], v)
    PROVE  Between(RollforwardBlock(c, b), Utxo[b], v)
BY ChainAssumption, CoinsAssumption DEF Between, RollforwardBlock

(* Writing some of the coins of a set v over a mixture with v keeps it a   *)
(* mixture.                                                                *)
LEMMA WritingKeepsBetween ==
    ASSUME NEW c, NEW u, NEW v, NEW w, Between(c, u, v)
    PROVE  Between((c \ (w \ v)) \union (w \intersect v), u, v)
BY DEF Between

LEMMA UtxoType ==
    ASSUME NEW b \in Blocks
    PROVE  Utxo[b] \subseteq Outs
BY CoinsAssumption

LEMMA ChainType ==
    ASSUME NEW b \in Blocks
    PROVE  b \in Chain[b] /\ Chain[b] \subseteq Blocks
<1>1. CASE b = Genesis
  BY <1>1, ChainAssumption
<1>2. CASE b # Genesis
  BY <1>2, ChainAssumption
<1> QED BY <1>1, <1>2

-----------------------------------------------------------------------------
(* What a state of the invariant says of its records.                      *)
LEMMA Types ==
    ASSUME TypeOK
    PROVE  /\ index.known \subseteq Blocks /\ index.data \subseteq Blocks /\ index.undo \subseteq Blocks
           /\ index.file \in [Blocks -> Nat] /\ index.last \in Nat
           /\ stored.known \subseteq Blocks /\ stored.data \subseteq Blocks
           /\ stored.undo \subseteq Blocks
           /\ stored.file \in [Blocks -> Nat] /\ stored.last \in Nat
           /\ files.blk \subseteq Blocks /\ files.rev \subseteq Blocks
           /\ safe.blk \subseteq Blocks /\ safe.rev \subseteq Blocks
BY DEF TypeOK, Index, Files

(* FlushBlockFile commits what the files have, and of the last file all    *)
(* that the index names.                                                   *)
LEMMA FlushBlockFileCommits ==
    ASSUME IInv
    PROVE  /\ FlushBlockFile \in Files
           /\ safe.blk \subseteq FlushBlockFile.blk /\ safe.rev \subseteq FlushBlockFile.rev
           /\ FlushBlockFile.blk \subseteq files.blk /\ FlushBlockFile.rev \subseteq files.rev
           /\ index.data \subseteq FlushBlockFile.blk
           /\ \A b \in index.undo : index.file[b] = index.last => b \in FlushBlockFile.rev
<1>1. /\ files.blk \subseteq Blocks /\ files.rev \subseteq Blocks
      /\ safe.blk \subseteq files.blk /\ safe.rev \subseteq files.rev
  BY Types DEF IInv, FilesOk
<1>2. /\ FlushBlockFile.blk = safe.blk \union {b \in files.blk \intersect index.data : index.file[b] = index.last}
      /\ FlushBlockFile.rev = safe.rev \union {b \in files.rev \intersect index.undo : index.file[b] = index.last}
  BY DEF FlushBlockFile
<1>3. FlushBlockFile \in Files
  BY <1>1 DEF FlushBlockFile, Files
<1>4. index.data \subseteq FlushBlockFile.blk
  BY <1>2 DEF IInv, FilesOk
<1>5. \A b \in index.undo : index.file[b] = index.last => b \in FlushBlockFile.rev
  BY <1>2 DEF IInv, FilesOk
<1> QED BY <1>1, <1>2, <1>3, <1>4, <1>5

-----------------------------------------------------------------------------
(* The invariant holds at the start and is kept by every step.             *)

LEMMA InitInv == Init => IInv
<1> SUFFICES ASSUME Init PROVE IInv
  OBVIOUS
<1>1. TypeOK
  BY ChainAssumption DEF Init, TypeOK, Database, Index, Files
<1>2. CoinsOfTip /\ DatabaseRepairable
  BY CoinsAssumption DEF Init, CoinsOfTip, DatabaseRepairable, CoinsBetween, Base
<1>3. ReferencesKept /\ FailsOnlyForCause
  BY DEF Init, ReferencesKept, FailsOnlyForCause
<1>4. IndexOk /\ FilesOk
  BY ChainAssumption DEF Init, IndexOk, IndexSound, FilesOk, Running
<1>5. HeadsOk /\ ReplayOk
  BY DEF Init, HeadsOk, ReplayOk
<1> QED BY <1>1, <1>2, <1>3, <1>4, <1>5 DEF IInv

(* The steps that leave the databases alone keep what is said of them.     *)
LEMMA DatabasesKept ==
    ASSUME IInv, stored' = stored, disk' = disk, durable' = durable,
           safe.blk \subseteq safe'.blk, safe.rev \subseteq safe'.rev
    PROVE  DatabaseRepairable' /\ ReferencesKept'
<1>1. DatabaseRepairable'
  BY DEF IInv, DatabaseRepairable, CoinsBetween, Base
<1>2. ReferencesKept'
  BY DEF IInv, ReferencesKept
<1> QED BY <1>1, <1>2

(* A block goes to the last file or to the next, and then the files before *)
(* it have been committed.                                                 *)
LEMMA AcceptBlockInv ==
    ASSUME IInv, NEW b \in Blocks, NEW n \in 0 .. MaxFile, AcceptBlock(b, n)
    PROVE  IInv'
<1> USE DEF AcceptBlock
<1> n \in Nat
  BY ChainAssumption
<1>1. /\ index'.known = index.known \union {b} /\ index'.data = index.data \union {b}
      /\ index'.undo = index.undo /\ index'.last = n
      /\ index'.file = [index.file EXCEPT ![b] = n] /\ index' \in Index
  BY DEF IInv, TypeOK, Index
<1>2. files'.blk = files.blk \union {b} /\ files'.rev = files.rev /\ files' \in Files
  BY DEF IInv, TypeOK, Files
<1>3. /\ safe' \in Files /\ safe.blk \subseteq safe'.blk /\ safe.rev \subseteq safe'.rev
      /\ safe'.blk \subseteq files.blk /\ safe'.rev \subseteq files.rev
      /\ n # index.last => index.data \subseteq safe'.blk
  BY FlushBlockFileCommits DEF IInv, TypeOK, FilesOk
<1>4. TypeOK'
  BY <1>1, <1>2, <1>3 DEF IInv, TypeOK
<1>5. DatabaseRepairable' /\ ReferencesKept'
  BY <1>3, DatabasesKept
<1>6. CoinsOfTip' /\ FailsOnlyForCause' /\ HeadsOk' /\ ReplayOk'
  BY DEF IInv, CoinsOfTip, FailsOnlyForCause, HeadsOk, ReplayOk
<1>7. /\ b \notin index.undo
      /\ \A c \in index.data : c # b /\ index'.file[c] = index.file[c] /\ index.file[c] <= index.last
      /\ index'.file[b] = n
  BY <1>1, Types DEF IInv, IndexOk, IndexSound
<1>8. IndexOk'
  <2>1. IndexSound(index)'
    BY <1>1, <1>7, Types DEF IInv, IndexOk, IndexSound
  <2>2. IndexSound(stored)'
    BY DEF IInv, IndexOk, IndexSound
  <2> QED BY <1>1, <2>1, <2>2 DEF IInv, IndexOk, Running
<1>9. FilesOk'
  <2>1. safe'.blk \subseteq files'.blk /\ safe'.rev \subseteq files'.rev
    BY <1>2, <1>3
  <2>2. \A c \in index'.data : c \in files'.blk /\ (c \in safe'.blk \/ index'.file[c] = index'.last)
    BY <1>1, <1>2, <1>3, <1>7 DEF IInv, FilesOk
  <2>3. \A c \in index'.undo : index'.file[c] = index'.last => c \in files'.rev
    <3> SUFFICES ASSUME NEW c \in index.undo, index'.file[c] = n PROVE c \in files.rev
      BY <1>1, <1>2
    <3>1. c \in index.data /\ index.file[c] = n /\ index.file[c] <= index.last
      BY <1>7 DEF IInv, IndexOk, IndexSound
    <3>2. n = index.last
      BY <3>1, Types DEF IInv
    <3> QED BY <3>1, <3>2 DEF IInv, FilesOk
  <2> QED BY <2>1, <2>2, <2>3 DEF IInv, FilesOk
<1> QED BY <1>4, <1>5, <1>6, <1>8, <1>9 DEF IInv

LEMMA ConnectTipInv ==
    ASSUME IInv, NEW b \in Blocks, ConnectTip(b)
    PROVE  IInv'
<1> USE DEF ConnectTip
<1>1. b \in Blocks \ {Genesis} /\ coins = Utxo[Parent[b]] /\ Chain[b] = Chain[tip] \union {b}
  BY ChainAssumption DEF IInv, CoinsOfTip
<1>2. coins' = Utxo[b]
  BY <1>1, ConnectGives
<1>3. /\ index'.known = index.known /\ index'.data = index.data
      /\ index'.undo = index.undo \union {b} /\ index'.last = index.last
      /\ index'.file = index.file /\ index' \in Index
  BY DEF IInv, TypeOK, Index
<1>4. /\ files'.blk = files.blk /\ files.rev \subseteq files'.rev /\ files' \in Files
      /\ b \notin index.undo => b \in files'.rev
  BY DEF IInv, TypeOK, Files
<1>5. TypeOK'
  BY <1>2, <1>3, <1>4, UtxoType DEF IInv, TypeOK
<1>6. DatabaseRepairable' /\ ReferencesKept'
  BY DatabasesKept
<1>7. CoinsOfTip' /\ FailsOnlyForCause' /\ HeadsOk' /\ ReplayOk'
  BY <1>2 DEF IInv, CoinsOfTip, FailsOnlyForCause, HeadsOk, ReplayOk
<1>8. IndexOk'
  BY <1>1, <1>3 DEF IInv, IndexOk, IndexSound, Running
<1>9. FilesOk'
  BY <1>3, <1>4 DEF IInv, FilesOk
<1> QED BY <1>5, <1>6, <1>7, <1>8, <1>9 DEF IInv

LEMMA DisconnectTipInv ==
    ASSUME IInv, DisconnectTip
    PROVE  IInv'
<1> USE DEF DisconnectTip
<1>1. tip \in Blocks \ {Genesis} /\ coins = Utxo[tip] /\ Parent[tip] \in Blocks
  BY ChainAssumption DEF IInv, CoinsOfTip, TypeOK
<1>2. coins' = Utxo[Parent[tip]]
  BY <1>1, DisconnectGives
<1>3. Chain[Parent[tip]] \subseteq Chain[tip]
  BY <1>1, ChainAssumption
<1>4. TypeOK'
  BY <1>1, <1>2, UtxoType DEF IInv, TypeOK
<1>5. DatabaseRepairable' /\ ReferencesKept'
  BY DatabasesKept
<1>6. CoinsOfTip' /\ FailsOnlyForCause' /\ HeadsOk' /\ ReplayOk'
  BY <1>2 DEF IInv, CoinsOfTip, FailsOnlyForCause, HeadsOk, ReplayOk
<1>7. IndexOk' /\ FilesOk'
  BY <1>3 DEF IInv, IndexOk, IndexSound, FilesOk, Running
<1> QED BY <1>4, <1>5, <1>6, <1>7 DEF IInv

(* The blocks that stay indexed are committed when a flush has begun.      *)
LEMMA StartFlushInv ==
    ASSUME IInv, NEW p, p \subseteq index.data, StartFlush(p)
    PROVE  IInv'
<1> USE DEF StartFlush
<1>1. /\ index'.known = index.known /\ index'.data = index.data \ p
      /\ index'.undo = index.undo \ p /\ index'.last = index.last
      /\ index' \in Index
      /\ \A b \in index'.data : index'.file[b] = index.file[b]
  BY Types DEF IInv, TypeOK, Index
<1>2. /\ safe' \in Files /\ safe.blk \subseteq safe'.blk /\ safe.rev \subseteq safe'.rev
      /\ safe'.blk \subseteq files.blk /\ safe'.rev \subseteq files.rev
      /\ index.data \subseteq safe'.blk
      /\ \A b \in index.undo : index.file[b] = index.last => b \in safe'.rev
  BY FlushBlockFileCommits
<1>3. TypeOK'
  BY <1>1, <1>2, Types DEF IInv, TypeOK
<1>4. DatabaseRepairable' /\ ReferencesKept'
  BY <1>2, DatabasesKept
<1>5. CoinsOfTip' /\ FailsOnlyForCause' /\ HeadsOk' /\ ReplayOk'
  BY DEF IInv, CoinsOfTip, FailsOnlyForCause, HeadsOk, ReplayOk
<1>6. index'.undo \subseteq index'.data
  BY <1>1 DEF IInv, IndexOk, IndexSound
<1>7. IndexOk'
  BY <1>1, <1>6 DEF IInv, IndexOk, IndexSound, Running
<1>8. FilesOk'
  <2>1. \A b \in index'.data : b \in files'.blk /\ b \in safe'.blk
    BY <1>1, <1>2
  <2>2. \A b \in index'.undo : index'.file[b] = index'.last => b \in safe'.rev
    BY <1>1, <1>2, <1>6
  <2> QED BY <1>1, <1>2, <2>1, <2>2 DEF FilesOk
<1> QED BY <1>3, <1>4, <1>5, <1>7, <1>8 DEF IInv

LEMMA WriteIndexInv ==
    ASSUME IInv, WriteIndex
    PROVE  IInv'
<1> USE DEF WriteIndex
<1>1. TypeOK' /\ CoinsOfTip' /\ FailsOnlyForCause'
  BY DEF IInv, TypeOK, CoinsOfTip, FailsOnlyForCause
<1>2. DatabaseRepairable'
  BY DEF IInv, DatabaseRepairable, CoinsBetween, Base
<1>3. ReferencesKept'
  BY DEF IInv, ReferencesKept, IndexOk, FilesOk, Running
<1>4. IndexOk' /\ FilesOk'
  BY DEF IInv, IndexOk, IndexSound, FilesOk, Running
<1>5. HeadsOk' /\ ReplayOk'
  BY DEF IInv, HeadsOk, ReplayOk
<1> QED BY <1>1, <1>2, <1>3, <1>4, <1>5 DEF IInv

(* Only what the index has given up is removed.                            *)
LEMMA UnlinkPrunedFilesInv ==
    ASSUME IInv, UnlinkPrunedFiles
    PROVE  IInv'
<1> USE DEF UnlinkPrunedFiles
<1>1. /\ files'.blk = files.blk \ doomed /\ files'.rev = files.rev \ doomed
      /\ safe'.blk = safe.blk \ doomed /\ safe'.rev = safe.rev \ doomed
      /\ files' \in Files /\ safe' \in Files
  BY Types DEF IInv, Files
<1>2. /\ doomed \intersect index.data = {} /\ doomed \intersect index.undo = {}
      /\ stored = index
  BY DEF IInv, FilesOk, IndexOk, IndexSound
<1>3. TypeOK' /\ CoinsOfTip' /\ FailsOnlyForCause'
  BY <1>1 DEF IInv, TypeOK, CoinsOfTip, FailsOnlyForCause
<1>4. DatabaseRepairable'
  BY DEF IInv, DatabaseRepairable, CoinsBetween, Base
<1>5. ReferencesKept'
  BY <1>1, <1>2 DEF IInv, ReferencesKept
<1>6. IndexOk'
  BY DEF IInv, IndexOk, IndexSound, Running
<1>7. FilesOk'
  BY <1>1, <1>2 DEF IInv, FilesOk
<1>8. HeadsOk' /\ ReplayOk'
  BY DEF IInv, HeadsOk, ReplayOk
<1> QED BY <1>3, <1>4, <1>5, <1>6, <1>7, <1>8 DEF IInv

LEMMA EndIndexWriteInv ==
    ASSUME IInv, EndIndexWrite
    PROVE  IInv'
<1> USE DEF EndIndexWrite
<1>1. TypeOK' /\ CoinsOfTip' /\ FailsOnlyForCause'
  BY DEF IInv, TypeOK, CoinsOfTip, FailsOnlyForCause
<1>2. DatabaseRepairable' /\ ReferencesKept'
  BY DatabasesKept
<1>3. IndexOk' /\ FilesOk' /\ HeadsOk' /\ ReplayOk'
  BY DEF IInv, IndexOk, IndexSound, FilesOk, HeadsOk, ReplayOk, Running
<1> QED BY <1>1, <1>2, <1>3 DEF IInv

(* A batch either opens a flush, over the coins of the old tip, or goes on *)
(* with one, over a mixture.                                               *)
LEMMA WritePartialBatchInv ==
    ASSUME IInv, NEW w \in SUBSET Outs, WritePartialBatch(w)
    PROVE  IInv'
<1> USE DEF WritePartialBatch
<1>1. disk \in Database /\ tip \in Blocks /\ coins = Utxo[tip] /\ None \notin Blocks
  BY ChainAssumption DEF IInv, TypeOK, CoinsOfTip
<1>2. OldTip \in Blocks \union {None}
  BY <1>1 DEF OldTip, Database
<1> DEFINE written == (disk.coins \ (w \ coins)) \union (w \intersect coins)
<1>3. /\ disk' \in Database /\ disk'.coins = written /\ disk'.best = None
      /\ disk'.heads = TRUE /\ disk'.new = tip /\ disk'.old = OldTip
  BY <1>1, <1>2, Zenon DEF HeadsOnly, Database, IInv, TypeOK
<1>4. Between(disk.coins, Utxo[Base(OldTip)], Utxo[tip])
  <2>1. CASE disk.heads
    BY <2>1, <1>1 DEF OldTip, IInv, TypeOK, HeadsOk, DatabaseRepairable, CoinsBetween
  <2>2. CASE ~disk.heads
    BY <2>2, <1>1 DEF OldTip, IInv, DatabaseRepairable, CoinsBetween, Between
  <2> QED BY <2>1, <2>2
<1>5. Between(written, Utxo[Base(OldTip)], Utxo[tip])
  BY <1>4, <1>1, WritingKeepsBetween, Zenon
<1>6. TypeOK'
  BY <1>1, <1>3 DEF IInv, TypeOK
<1>7. CoinsOfTip' /\ FailsOnlyForCause'
  BY <1>1 DEF CoinsOfTip, FailsOnlyForCause
<1>8. DatabaseRepairable'
  <2>1. CoinsBetween(disk)'
    BY <1>3, <1>5, Zenon DEF CoinsBetween
  <2>2. CoinsBetween(durable)'
    BY DEF IInv, DatabaseRepairable, CoinsBetween, Base
  <2> QED BY <2>1, <2>2 DEF DatabaseRepairable
<1>9. ReferencesKept'
  BY <1>1, <1>3 DEF IInv, ReferencesKept, IndexOk, OldTip
<1>10. IndexOk' /\ FilesOk'
  BY DEF IInv, IndexOk, IndexSound, FilesOk, Running
<1>11. HeadsOk' /\ ReplayOk'
  BY <1>3 DEF IInv, HeadsOk, ReplayOk
<1> QED BY <1>6, <1>7, <1>8, <1>9, <1>10, <1>11 DEF IInv

LEMMA WriteFinalBatchInv ==
    ASSUME IInv, WriteFinalBatch
    PROVE  IInv'
<1> USE DEF WriteFinalBatch
<1>1. tip \in Blocks /\ coins = Utxo[tip] /\ None \notin Blocks
  BY ChainAssumption DEF IInv, TypeOK, CoinsOfTip
<1>2. TypeOK'
  BY <1>1 DEF IInv, TypeOK, Database
<1>3. CoinsOfTip' /\ FailsOnlyForCause'
  BY <1>1 DEF CoinsOfTip, FailsOnlyForCause
<1>4. DatabaseRepairable'
  BY <1>1 DEF IInv, DatabaseRepairable, CoinsBetween, Base
<1>5. ReferencesKept'
  BY <1>1 DEF IInv, ReferencesKept, IndexOk
<1>6. IndexOk' /\ FilesOk'
  BY DEF IInv, IndexOk, IndexSound, FilesOk, Running
<1>7. HeadsOk' /\ ReplayOk'
  BY DEF HeadsOk, ReplayOk
<1> QED BY <1>2, <1>3, <1>4, <1>5, <1>6, <1>7 DEF IInv

LEMMA WriteBackInv ==
    ASSUME IInv, WriteBack
    PROVE  IInv'
<1> USE DEF WriteBack
<1>1. TypeOK' /\ CoinsOfTip' /\ FailsOnlyForCause'
  BY DEF IInv, TypeOK, CoinsOfTip, FailsOnlyForCause, Base
<1>2. DatabaseRepairable' /\ ReferencesKept'
  BY DEF IInv, DatabaseRepairable, CoinsBetween, Base, ReferencesKept
<1>3. IndexOk' /\ FilesOk'
  BY DEF IInv, IndexOk, IndexSound, FilesOk, Running
<1>4. HeadsOk' /\ ReplayOk'
  BY DEF IInv, HeadsOk, ReplayOk, Base
<1> QED BY <1>1, <1>2, <1>3, <1>4 DEF IInv

(* What a crash leaves of the coins is one of the two databases, and both  *)
(* are sound; of the files it leaves at least what was committed.          *)
LEMMA CrashInv ==
    ASSUME IInv, NEW d \in {disk, durable}, NEW f \in Files, NEW s \in Files,
           safe.blk \subseteq s.blk, safe.rev \subseteq s.rev,
           s.blk \subseteq f.blk, s.rev \subseteq f.rev, Crash(d, f, s)
    PROVE  IInv'
<1> USE DEF Crash
<1>1. /\ files'.blk = f.blk \intersect stored.data /\ files'.rev = f.rev \intersect stored.undo
      /\ safe'.blk = s.blk \intersect stored.data /\ safe'.rev = s.rev \intersect stored.undo
      /\ files' \in Files /\ safe' \in Files
  BY DEF Named, Files
<1>2. /\ index' \in Index /\ index'.known = {} /\ index'.data = {} /\ index'.undo = {}
  BY DEF Index
<1>3. TypeOK'
  BY <1>1, <1>2, ChainAssumption DEF IInv, TypeOK
<1>4. CoinsOfTip' /\ FailsOnlyForCause' /\ HeadsOk' /\ ReplayOk'
  BY DEF CoinsOfTip, FailsOnlyForCause, HeadsOk, ReplayOk
<1>5. DatabaseRepairable'
  BY DEF IInv, DatabaseRepairable, CoinsBetween, Base
<1>6. ReferencesKept'
  BY <1>1 DEF IInv, ReferencesKept
<1>7. IndexOk'
  BY <1>2 DEF IInv, IndexOk, IndexSound, Running
<1>8. FilesOk'
  BY <1>1, <1>2 DEF FilesOk
<1> QED BY <1>3, <1>4, <1>5, <1>6, <1>7, <1>8 DEF IInv

LEMMA KillInv ==
    ASSUME IInv, Kill
    PROVE  IInv'
<1>1. files \in Files /\ safe \in Files /\ safe.blk \subseteq files.blk /\ safe.rev \subseteq files.rev
  BY DEF IInv, TypeOK, FilesOk
<1> QED BY <1>1, CrashInv DEF Kill

LEMMA PowerFailureInv ==
    ASSUME IInv, PowerFailure
    PROVE  IInv'
<1>1. PICK f \in Remains : Crash(durable, f, f)
  BY DEF PowerFailure
<1>2. f \in Files /\ safe.blk \subseteq f.blk /\ safe.rev \subseteq f.rev
  BY <1>1, Types DEF Remains, Files, IInv
<1> QED BY <1>1, <1>2, CrashInv

(* A start finds every file and every block that the databases name.       *)
LEMMA RestartInv ==
    ASSUME IInv, Restart
    PROVE  IInv'
<1> USE DEF Restart
<1>1. /\ disk \in Database /\ None \notin Blocks /\ Genesis \in Blocks
      /\ disk.heads \in BOOLEAN /\ disk.coins \subseteq Outs
      /\ Base(disk.best) \in Blocks /\ Base(disk.old) \in Blocks
      /\ disk.heads => disk.new \in Blocks
  BY ChainAssumption DEF IInv, TypeOK, Database, Base
<1>2. DatabaseRepairable' /\ ReferencesKept'
  BY DatabasesKept
<1>3. Chain[Base(disk.best)] \subseteq stored.known /\ Base(disk.best) \in stored.known
  BY <1>1, ChainAssumption, ChainType DEF IInv, ReferencesKept, IndexOk, Base
<1>4. disk.heads => {disk.new, Base(disk.old)} \subseteq stored.known
  BY <1>1, ChainType DEF IInv, ReferencesKept, IndexOk, Base
<1>5. FilesPresent
  BY DEF IInv, ReferencesKept, FilesOk, FilesPresent
<1>6. FilesOk'
  <2>1. stage' \notin {"files", "index"} /\ doomed' = {}
    BY <1>3, <1>4, <1>5 DEF IInv, FilesOk
  <2> QED BY <2>1 DEF IInv, FilesOk, ReferencesKept
<1>7. CASE ~disk.heads
  <2>1. stage' = "up" /\ tip' = Base(disk.best) /\ cursor' = cursor
    BY <1>3, <1>5, <1>7
  <2>2. coins' = Utxo[tip']
    BY <1>7, <2>1 DEF IInv, DatabaseRepairable, CoinsBetween
  <2>3. TypeOK'
    BY <1>1, <2>1 DEF IInv, TypeOK
  <2>4. CoinsOfTip' /\ FailsOnlyForCause' /\ HeadsOk' /\ ReplayOk'
    BY <1>7, <2>1, <2>2 DEF CoinsOfTip, FailsOnlyForCause, HeadsOk, ReplayOk
  <2>5. IndexOk'
    BY <1>3, <2>1 DEF IInv, IndexOk, IndexSound, Running
  <2> QED BY <1>2, <1>6, <2>3, <2>4, <2>5 DEF IInv
<1>8. CASE disk.heads
  <2>1. stage' = "replay" /\ cursor' = Base(disk.old) /\ tip' = tip
    BY <1>4, <1>5, <1>8
  <2>2. TypeOK'
    BY <1>1, <2>1 DEF IInv, TypeOK
  <2>3. CoinsOfTip' /\ FailsOnlyForCause' /\ HeadsOk'
    BY <2>1 DEF CoinsOfTip, FailsOnlyForCause, HeadsOk
  <2>4. IndexOk'
    BY <2>1 DEF IInv, IndexOk, IndexSound, Running
  <2>5. ReplayOk'
    <3>1. Between(disk.coins, Utxo[Base(disk.old)], Utxo[disk.new])
      BY <1>8 DEF IInv, DatabaseRepairable, CoinsBetween
    <3> QED BY <1>1, <1>8, <2>1, <3>1, ChainType DEF ReplayOk, Base
  <2> QED BY <1>2, <1>6, <2>2, <2>3, <2>4, <2>5 DEF IInv
<1> QED BY <1>1, <1>7, <1>8

(* The cursor leaves the new branch only if the old tip is outside it.     *)
LEMMA RollbackBlockInv ==
    ASSUME IInv, RollbackBlock
    PROVE  IInv'
<1> USE DEF RollbackBlock
<1>1. FailsOnlyForCause'
  BY DEF IInv, FailsOnlyForCause, ReplayOk, Base
<1>2. TypeOK' /\ CoinsOfTip'
  BY DEF IInv, TypeOK, CoinsOfTip
<1>3. DatabaseRepairable' /\ ReferencesKept'
  BY DatabasesKept
<1>4. IndexOk' /\ FilesOk' /\ HeadsOk' /\ ReplayOk'
  BY DEF IInv, IndexOk, IndexSound, FilesOk, HeadsOk, ReplayOk, Running
<1> QED BY <1>1, <1>2, <1>3, <1>4 DEF IInv

(* The next block is in the index; if it cannot be read it was pruned, and *)
(* it is above the old tip.                                                *)
LEMMA RollForwardInv ==
    ASSUME IInv, NEW b \in Blocks, RollForward(b)
    PROVE  IInv'
<1> USE DEF RollForward, NextBlock
<1>1. /\ b \in Blocks \ {Genesis} /\ b \in Chain[disk.new] /\ disk.heads
      /\ Between(coins, Utxo[Parent[b]], Utxo[disk.new])
      /\ Base(disk.old) \in Chain[Parent[b]] /\ Parent[b] \in Blocks
  BY DEF IInv, ReplayOk, TypeOK
<1>2. DatabaseRepairable' /\ ReferencesKept'
  BY DatabasesKept
<1>3. CoinsOfTip' /\ HeadsOk' /\ IndexOk' /\ FilesOk'
  BY DEF IInv, CoinsOfTip, HeadsOk, IndexOk, IndexSound, FilesOk, Running
<1>4. CASE b \in index.data \intersect files.blk
  <2>1. coins' = RollforwardBlock(coins, b) /\ cursor' = b /\ stage' = stage
    BY <1>4
  <2>2. Between(coins', Utxo[b], Utxo[disk.new])
    BY <1>1, <2>1, RollforwardKeepsBetween
  <2>3. coins' \subseteq Outs
    BY <2>1, CoinsAssumption DEF RollforwardBlock, IInv, TypeOK
  <2>4. TypeOK' /\ FailsOnlyForCause'
    BY <2>1, <2>3 DEF IInv, TypeOK, FailsOnlyForCause
  <2>5. Base(disk.old) \in Chain[b]
    BY <1>1, ChainAssumption
  <2>6. ReplayOk'
    BY <1>1, <2>1, <2>2, <2>5 DEF ReplayOk, Between, Base
  <2> QED BY <1>2, <1>3, <2>4, <2>6 DEF IInv
<1>5. CASE b \notin index.data \intersect files.blk
  <2>1. stage' = "failed" /\ coins' = coins /\ cursor' = cursor
    BY <1>5
  <2>2. b \in stored.known \ stored.data
    <3>1. disk.new \in Blocks /\ disk.new # None
      BY <1>1, ChainAssumption DEF IInv, TypeOK, Database
    <3>2. b \in stored.known
      BY <1>1, <3>1 DEF IInv, ReferencesKept
    <3>3. b \notin stored.data
      BY <1>5 DEF IInv, IndexOk, FilesOk
    <3> QED BY <3>2, <3>3
  <2>3. b \notin Chain[Base(disk.old)]
    BY <1>1, ChainAssumption
  <2>4. FailsOnlyForCause'
    BY <1>1, <2>2, <2>3 DEF FailsOnlyForCause, Base
  <2>5. TypeOK' /\ ReplayOk'
    BY <2>1 DEF IInv, TypeOK, ReplayOk
  <2> QED BY <1>2, <1>3, <2>4, <2>5 DEF IInv
<1> QED BY <1>4, <1>5

(* At the new tip the mixture has become the coins of that tip.            *)
LEMMA FinishReplayInv ==
    ASSUME IInv, FinishReplay
    PROVE  IInv'
<1> USE DEF FinishReplay
<1>1. disk.heads /\ disk.new \in Blocks /\ disk.new # None /\ cursor = disk.new
  BY ChainAssumption DEF IInv, ReplayOk, TypeOK, Database
<1>2. coins = Utxo[disk.new]
  BY <1>1, Zenon DEF IInv, ReplayOk, Between
<1>3. Chain[disk.new] \subseteq stored.known
  BY <1>1 DEF IInv, ReferencesKept
<1>4. TypeOK' /\ CoinsOfTip' /\ FailsOnlyForCause'
  BY <1>1, <1>2 DEF IInv, TypeOK, CoinsOfTip, FailsOnlyForCause
<1>5. DatabaseRepairable' /\ ReferencesKept'
  BY DatabasesKept
<1>6. IndexOk' /\ FilesOk'
  BY <1>3 DEF IInv, IndexOk, IndexSound, FilesOk, ReplayOk, Running
<1>7. HeadsOk' /\ ReplayOk'
  BY DEF HeadsOk, ReplayOk
<1> QED BY <1>4, <1>5, <1>6, <1>7 DEF IInv

LEMMA StepInv == IInv /\ [Next]_vars => IInv'
<1> SUFFICES ASSUME IInv, [Next]_vars PROVE IInv'
  OBVIOUS
<1>1. CASE DisconnectTip BY <1>1, DisconnectTipInv
<1>2. CASE StartFlush({}) BY <1>2, StartFlushInv
<1>3. CASE WriteIndex BY <1>3, WriteIndexInv
<1>4. CASE UnlinkPrunedFiles BY <1>4, UnlinkPrunedFilesInv
<1>5. CASE EndIndexWrite BY <1>5, EndIndexWriteInv
<1>6. CASE WriteFinalBatch BY <1>6, WriteFinalBatchInv
<1>7. CASE WriteBack BY <1>7, WriteBackInv
<1>8. CASE Kill BY <1>8, KillInv
<1>9. CASE PowerFailure BY <1>9, PowerFailureInv
<1>10. CASE Restart BY <1>10, RestartInv
<1>11. CASE RollbackBlock BY <1>11, RollbackBlockInv
<1>12. CASE FinishReplay BY <1>12, FinishReplayInv
<1>13. CASE \E b \in Blocks : ConnectTip(b) BY <1>13, ConnectTipInv
<1>14. CASE \E b \in Blocks : RollForward(b) BY <1>14, RollForwardInv
<1>15. CASE \E b \in Blocks, n \in 0 .. MaxFile : AcceptBlock(b, n) BY <1>15, AcceptBlockInv
<1>16. CASE \E b \in Blocks, n \in 0 .. MaxFile :
                Height(b) + Keep <= Height(tip) /\ StartFlush(BlocksToPrune(n, Height(b)))
  <2>1. PICK b \in Blocks, n \in 0 .. MaxFile : StartFlush(BlocksToPrune(n, Height(b)))
    BY <1>16
  <2>2. BlocksToPrune(n, Height(b)) \subseteq index.data
    BY DEF BlocksToPrune
  <2> QED BY <2>1, <2>2, StartFlushInv
<1>17. CASE \E w \in SUBSET Outs : WritePartialBatch(w) BY <1>17, WritePartialBatchInv
<1>18. CASE UNCHANGED vars
  <2>1. DatabaseRepairable' /\ ReferencesKept'
    BY <1>18, DatabasesKept DEF vars
  <2>2. TypeOK' /\ CoinsOfTip' /\ FailsOnlyForCause'
    BY <1>18 DEF vars, IInv, TypeOK, CoinsOfTip, FailsOnlyForCause, Base
  <2>3. IndexOk' /\ FilesOk' /\ HeadsOk' /\ ReplayOk'
    BY <1>18 DEF vars, IInv, IndexOk, IndexSound, FilesOk, HeadsOk, ReplayOk, Running, Base
  <2> QED BY <2>1, <2>2, <2>3 DEF IInv
<1> QED
  BY <1>1, <1>2, <1>3, <1>4, <1>5, <1>6, <1>7, <1>8, <1>9, <1>10, <1>11, <1>12, <1>13,
     <1>14, <1>15, <1>16, <1>17, <1>18 DEF Next

-----------------------------------------------------------------------------
LEMMA Invariance == Spec => []IInv
BY InitInv, StepInv, PTL DEF Spec

(* The state keeps its types, and DB_BEST_BLOCK and DB_HEAD_BLOCKS are     *)
(* never both in the coins database.                                       *)
THEOREM TypeCorrect == Spec => []TypeOK
<1>1. IInv => TypeOK BY DEF IInv
<1> QED BY <1>1, Invariance, PTL

(* A running node works with exactly the coins of its tip, after any       *)
(* number of crashes in flushes and in the replays that repair them.       *)
THEOREM CoinsAlwaysOfTip == Spec => []CoinsOfTip
<1>1. IInv => CoinsOfTip BY DEF IInv
<1> QED BY <1>1, Invariance, PTL

(* Whatever batches a crash cuts off, the coins database is a mixture of   *)
(* the coins of the two heads it names.                                    *)
THEOREM AlwaysRepairable == Spec => []DatabaseRepairable
<1>1. IInv => DatabaseRepairable BY DEF IInv
<1> QED BY <1>1, Invariance, PTL

(* The order of the writes of FlushStateToDisk: coins never refer to a     *)
(* block that the index on disk lacks, nor the index to block data that a  *)
(* power failure can take, nor to such undo data in the last file.         *)
THEOREM ReferencesAlwaysKept == Spec => []ReferencesKept
<1>1. IInv => ReferencesKept BY DEF IInv
<1> QED BY <1>1, Invariance, PTL

(* A start fails for no other reasons than a rollback and a block that has *)
(* been pruned: never because a file or a block that the databases name is *)
(* not there.                                                              *)
THEOREM OnlyForksAndPruningFail == Spec => []FailsOnlyForCause
<1>1. IInv => FailsOnlyForCause BY DEF IInv
<1> QED BY <1>1, Invariance, PTL
=============================================================================
