--------------------------- MODULE CoinsCacheProofs ---------------------------
(***************************************************************************)
(* Proofs about CoinsCache, for any sets of outpoints, coins and hashes.   *)
(*                                                                         *)
(* The argument: the flags of an entry are claims about the map the base   *)
(* shows (SoundCache).  Every operation of one cache keeps them true       *)
(* (lemmas *Sound) and, because they are true, has the effect on the       *)
(* contents that the plain map has (lemmas *Contents).  The invariant of   *)
(* the stack puts the two caches together; the refinement reads each step  *)
(* off the *Contents lemma of its operation.                               *)
(***************************************************************************)
EXTENDS CoinsCache, TLAPS

(* The maps a base may show.                                               *)
Shown == [Outpoints -> (Coins \ Unspendable) \union {Spent}]

(* Caches that hold no unspendable coin, which AddCoin never lets in.      *)
SpendableCache ==
    [Outpoints -> [coin : (Coins \ Unspendable) \union {Spent},
                   dirty : BOOLEAN, fresh : BOOLEAN] \union {NoEntry}]

USE CoinsAssumption

-----------------------------------------------------------------------------
(* The contents of a cache over a map are again such a map.                *)
LEMMA ContentsType ==
    ASSUME NEW c \in SpendableCache, NEW b \in Shown
    PROVE  Contents(c, b) \in Shown
BY DEF Contents, SpendableCache, Shown, Entry

(* SpendableCache is a subset of what TypeOK says of a cache.              *)
LEMMA SpendableIsCache ==
    ASSUME NEW c \in SpendableCache
    PROVE  c \in Cache
BY DEF SpendableCache, Cache, Entry

(* An empty cache shows its base, and has no flag to be wrong.             *)
LEMMA EmptyContents ==
    ASSUME NEW b \in Shown
    PROVE  /\ EmptyCache \in SpendableCache
           /\ Contents(EmptyCache, b) = b
           /\ SoundCache(EmptyCache, b)
BY DEF Contents, EmptyCache, SpendableCache, Shown, SoundCache, SoundEntry

(* FetchCoin: a lookup keeps the flags sound and changes no contents.      *)
LEMMA FetchCoinOk ==
    ASSUME NEW c \in SpendableCache, NEW b \in Shown, NEW o \in Outpoints,
           SoundCache(c, b)
    PROVE  /\ FetchCoin(c, b, o) \in SpendableCache
           /\ SoundCache(FetchCoin(c, b, o), b)
           /\ Contents(FetchCoin(c, b, o), b) = Contents(c, b)
<1> DEFINE e == [coin |-> b[o], dirty |-> FALSE, fresh |-> FALSE]
<1>1. CASE c[o] # NoEntry \/ b[o] = Spent
  BY <1>1 DEF FetchCoin
<1>2. CASE ~(c[o] # NoEntry \/ b[o] = Spent)
  <2>1. FetchCoin(c, b, o) = [c EXCEPT ![o] = e]
    BY <1>2 DEF FetchCoin
  <2>2. e \in Entry
    BY DEF Entry, Shown
  <2>3. [c EXCEPT ![o] = e] \in SpendableCache
    BY DEF SpendableCache, Shown
  <2>4. SoundCache([c EXCEPT ![o] = e], b)
    BY <1>2, <2>2 DEF SoundCache, SoundEntry, SpendableCache
  <2>5. Contents([c EXCEPT ![o] = e], b) = Contents(c, b)
    BY <1>2, <2>2 DEF Contents, SpendableCache
  <2> QED BY <2>1, <2>3, <2>4, <2>5
<1> QED BY <1>1, <1>2

(* AddCoin: when it does not throw and overwrite is set wherever the cache *)
(* shows a coin, the outpoint gets the coin and the flags stay sound.      *)
LEMMA AddCoinOk ==
    ASSUME NEW c \in SpendableCache, NEW b \in Shown, NEW o \in Outpoints,
           NEW coin \in Coins, NEW ow \in BOOLEAN,
           SoundCache(c, b),
           ow \/ Contents(c, b)[o] = Spent
    PROVE  /\ ~AddThrows(c, o, coin, ow)
           /\ AddCoin(c, o, coin, ow) \in SpendableCache
           /\ SoundCache(AddCoin(c, o, coin, ow), b)
           /\ Contents(AddCoin(c, o, coin, ow), b) =
                IF coin \in Unspendable THEN Contents(c, b)
                ELSE [Contents(c, b) EXCEPT ![o] = coin]
<1> DEFINE e == [coin  |-> coin,
                 dirty |-> TRUE,
                 fresh |-> \/ c[o] # NoEntry /\ c[o].fresh
                           \/ ~ow /\ (c[o] = NoEntry \/ ~c[o].dirty)]
<1>1. ~AddThrows(c, o, coin, ow)
  BY DEF AddThrows, Contents
<1>2. CASE coin \in Unspendable
  BY <1>1, <1>2 DEF AddCoin
<1>3. CASE coin \notin Unspendable
  <2>1. AddCoin(c, o, coin, ow) = [c EXCEPT ![o] = e]
    BY <1>3 DEF AddCoin
  <2>2. e \in [coin : (Coins \ Unspendable) \union {Spent},
               dirty : BOOLEAN, fresh : BOOLEAN]
    BY <1>3
  <2>3. e \in Entry
    BY DEF Entry
  <2>4. [c EXCEPT ![o] = e] \in SpendableCache
    BY <2>2 DEF SpendableCache
  <2>5. e.fresh => b[o] = Spent
    BY DEF SoundCache, SoundEntry, Contents, SpendableCache
  <2>6. SoundCache([c EXCEPT ![o] = e], b)
    <3> SUFFICES ASSUME NEW q \in Outpoints
                 PROVE  SoundEntry([c EXCEPT ![o] = e], b, q)
      BY Zenon DEF SoundCache
    <3>1. CASE q = o
      <4>1. [c EXCEPT ![o] = e][q] = e
        BY <3>1 DEF SpendableCache
      <4>2. e.coin = coin /\ e.dirty /\ e.coin # Spent
        OBVIOUS
      <4> HIDE DEF e
      <4> QED BY <3>1, <4>1, <4>2, <2>5 DEF SoundEntry
    <3>2. CASE q # o
      BY <3>2 DEF SoundCache, SoundEntry, SpendableCache
    <3> QED BY <3>1, <3>2
  <2>7. Contents([c EXCEPT ![o] = e], b) = [Contents(c, b) EXCEPT ![o] = coin]
    <3>1. e.coin = coin
      OBVIOUS
    <3> HIDE DEF e
    <3> QED BY <3>1, <2>3, Zenon DEF Contents, SpendableCache
  <2> QED BY <1>1, <1>3, <2>1, <2>4, <2>6, <2>7
<1> QED BY <1>2, <1>3

(* SpendCoin: the outpoint is spent, or was, and the flags stay sound.     *)
LEMMA SpendCoinOk ==
    ASSUME NEW c \in SpendableCache, NEW b \in Shown, NEW o \in Outpoints,
           SoundCache(c, b)
    PROVE  /\ SpendCoin(c, b, o) \in SpendableCache
           /\ SoundCache(SpendCoin(c, b, o), b)
           /\ Contents(SpendCoin(c, b, o), b) = [Contents(c, b) EXCEPT ![o] = Spent]
<1> DEFINE f == FetchCoin(c, b, o)
           s == [coin |-> Spent, dirty |-> TRUE, fresh |-> FALSE]
<1>1. /\ f \in SpendableCache
      /\ SoundCache(f, b)
      /\ Contents(f, b) = Contents(c, b)
  BY FetchCoinOk
<1>2. f[o] = NoEntry => b[o] = Spent
  <2>1. [coin |-> b[o], dirty |-> FALSE, fresh |-> FALSE] \in Entry
    BY DEF Entry, Shown
  <2> QED BY <2>1, Zenon DEF FetchCoin, SpendableCache
<1>3. SpendCoin(c, b, o) =
        IF f[o] = NoEntry THEN f
        ELSE IF f[o].fresh THEN [f EXCEPT ![o] = NoEntry] ELSE [f EXCEPT ![o] = s]
  BY DEF SpendCoin
<1> HIDE DEF f
<1>4. CASE f[o] = NoEntry
  <2>1. Contents(f, b) = [Contents(f, b) EXCEPT ![o] = Spent]
    BY <1>2, <1>4, Zenon DEF Contents
  <2> QED BY <1>1, <1>3, <1>4, <2>1
<1>5. CASE f[o] # NoEntry /\ f[o].fresh
  <2>1. b[o] = Spent
    BY <1>1, <1>5 DEF SoundCache, SoundEntry
  <2>2. [f EXCEPT ![o] = NoEntry] \in SpendableCache
    BY <1>1 DEF SpendableCache
  <2>3. SoundCache([f EXCEPT ![o] = NoEntry], b)
    BY <1>1 DEF SoundCache, SoundEntry, SpendableCache
  <2>4. Contents([f EXCEPT ![o] = NoEntry], b) = [Contents(f, b) EXCEPT ![o] = Spent]
    BY <1>1, <2>1, Zenon DEF Contents, SpendableCache
  <2> QED BY <1>1, <1>3, <1>5, <2>2, <2>3, <2>4
<1>6. CASE f[o] # NoEntry /\ ~f[o].fresh
  <2>1. s \in Entry
    BY DEF Entry
  <2>2. [f EXCEPT ![o] = s] \in SpendableCache
    BY <1>1 DEF SpendableCache
  <2>3. SoundCache([f EXCEPT ![o] = s], b)
    BY <1>1 DEF SoundCache, SoundEntry, SpendableCache
  <2>4. Contents([f EXCEPT ![o] = s], b) = [Contents(f, b) EXCEPT ![o] = Spent]
    BY <1>1, <2>1, Zenon DEF Contents, SpendableCache
  <2> QED BY <1>1, <1>3, <1>6, <2>2, <2>3, <2>4
<1> QED BY <1>4, <1>5, <1>6

(* Uncache: only an entry equal to the base's version is dropped.          *)
LEMMA UncacheOk ==
    ASSUME NEW c \in SpendableCache, NEW b \in Shown, NEW o \in Outpoints,
           SoundCache(c, b)
    PROVE  /\ Uncache(c, o) \in SpendableCache
           /\ SoundCache(Uncache(c, o), b)
           /\ Contents(Uncache(c, o), b) = Contents(c, b)
<1>1. CASE c[o] # NoEntry /\ ~c[o].dirty /\ ~c[o].fresh
  <2>1. Uncache(c, o) = [c EXCEPT ![o] = NoEntry]
    BY <1>1 DEF Uncache
  <2>2. [c EXCEPT ![o] = NoEntry] \in SpendableCache
    BY DEF SpendableCache
  <2>3. SoundCache([c EXCEPT ![o] = NoEntry], b)
    BY DEF SoundCache, SoundEntry, SpendableCache
  <2>4. c[o].coin = b[o]
    BY <1>1 DEF SoundCache, SoundEntry
  <2>5. Contents([c EXCEPT ![o] = NoEntry], b) = Contents(c, b)
    BY <1>1, <2>4 DEF Contents, SpendableCache
  <2> QED BY <2>1, <2>2, <2>3, <2>5
<1>2. CASE ~(c[o] # NoEntry /\ ~c[o].dirty /\ ~c[o].fresh)
  BY <1>2 DEF Uncache
<1> QED BY <1>1, <1>2

(* BatchWrite of a child cache c over a parent cache p over a map b: no    *)
(* logic_error, the parent's flags stay sound, and the parent now shows    *)
(* what the child showed.                                                  *)
LEMMA BatchWriteOk ==
    ASSUME NEW p \in SpendableCache, NEW c \in SpendableCache, NEW b \in Shown,
           SoundCache(p, b), SoundCache(c, Contents(p, b))
    PROVE  /\ ~BatchWriteThrows(p, c)
           /\ BatchWrite(p, c) \in SpendableCache
           /\ SoundCache(BatchWrite(p, c), b)
           /\ Contents(BatchWrite(p, c), b) = Contents(c, Contents(p, b))
<1> DEFINE w == BatchWrite(p, c)
           E == [coin : (Coins \ Unspendable) \union {Spent},
                 dirty : BOOLEAN, fresh : BOOLEAN]
<1>1. ~BatchWriteThrows(p, c)
  BY DEF BatchWriteThrows, Modified, SoundCache, SoundEntry, Contents
<1>2. ASSUME NEW o \in Outpoints
      PROVE  /\ w[o] \in E \union {NoEntry}
             /\ SoundEntry(w, b, o)
             /\ (IF w[o] = NoEntry THEN b[o] ELSE w[o].coin)
                  = (IF c[o] = NoEntry THEN Contents(p, b)[o] ELSE c[o].coin)
  <2> DEFINE fr == IF p[o] = NoEntry THEN c[o].fresh ELSE p[o].fresh
             e == [coin |-> c[o].coin, dirty |-> TRUE, fresh |-> fr]
  <2>1. SoundEntry(p, b, o) /\ SoundEntry(c, Contents(p, b), o)
    BY DEF SoundCache
  <2>2. Contents(p, b)[o] = IF p[o] = NoEntry THEN b[o] ELSE p[o].coin
    BY DEF Contents
  <2>3. p[o] \in E \union {NoEntry} /\ c[o] \in E \union {NoEntry}
    BY DEF SpendableCache
  <2>4. w[o] = IF ~Modified(c, o) THEN p[o]
               ELSE IF c[o].coin = Spent /\ fr THEN NoEntry ELSE e
    BY DEF BatchWrite
  <2>5. CASE ~Modified(c, o)
    <3>1. w[o] = p[o]
      BY <2>4, <2>5
    <3> HIDE DEF w
    <3>2. SoundEntry(w, b, o)
      BY <3>1, <2>1 DEF SoundEntry
    <3> QED BY <3>1, <3>2, <2>1, <2>2, <2>3, <2>5 DEF Modified, SoundEntry
  <2>6. CASE Modified(c, o) /\ c[o].coin = Spent /\ fr
    <3>1. w[o] = NoEntry
      BY <2>4, <2>6
    <3>2. b[o] = Spent
      BY <2>1, <2>2, <2>6 DEF SoundEntry, Modified
    <3> HIDE DEF w
    <3>3. SoundEntry(w, b, o)
      BY <3>1 DEF SoundEntry
    <3> QED BY <3>1, <3>2, <3>3, <2>6 DEF Modified
  <2>7. CASE Modified(c, o) /\ ~(c[o].coin = Spent /\ fr)
    <3>1. w[o] = e
      BY <2>4, <2>7
    <3>2. fr \in BOOLEAN /\ c[o] \in E
      BY <2>3, <2>7 DEF Modified
    <3>3. e \in E /\ e \in Entry
      BY <3>2 DEF Entry
    <3>4. fr => b[o] = Spent
      BY <2>1, <2>2, <2>7 DEF SoundEntry, Modified
    <3>5. e.coin = c[o].coin /\ e.dirty /\ e.fresh = fr
      OBVIOUS
    <3>6. e # NoEntry /\ c[o] # NoEntry
      BY <3>3, <2>7, Zenon DEF Modified
    <3> HIDE DEF w, e, fr
    <3>7. SoundEntry(w, b, o)
      BY <3>1, <3>4, <3>5, <2>7 DEF SoundEntry
    <3> QED BY <3>1, <3>3, <3>5, <3>6, <3>7
  <2> QED BY <2>5, <2>6, <2>7
<1>3. w \in SpendableCache
  <2>1. w = [o \in Outpoints |-> w[o]]
    BY DEF BatchWrite
  <2> HIDE DEF w
  <2> QED BY <2>1, <1>2, Zenon DEF SpendableCache
<1>4. SoundCache(w, b)
  BY <1>2, Zenon DEF SoundCache
<1>5. Contents(w, b) = Contents(c, Contents(p, b))
  <2> HIDE DEF w
  <2> QED BY <1>2 DEF Contents
<1> QED BY <1>1, <1>3, <1>4, <1>5

(* The database write stores what the cache showed.                        *)
LEMMA DBWriteOk ==
    ASSUME NEW c \in SpendableCache, NEW b \in Shown, SoundCache(c, b)
    PROVE  DBWrite(b, c) = Contents(c, b)
BY DEF DBWrite, Contents, Modified, SoundCache, SoundEntry

-----------------------------------------------------------------------------
(* The inductive invariant of the stack.                                   *)
MapsOK == db \in Shown /\ tip \in SpendableCache /\ view \in SpendableCache
HashesOK == /\ dbBest \in Hashes \union {NullHash}
            /\ tipHash \in Hashes \union {NullHash}
            /\ viewHash \in Hashes \union {NullHash}
            /\ open \in BOOLEAN
ClosedOK == ~open => view = EmptyCache
StackInv == MapsOK /\ HashesOK /\ ClosedOK /\ FlagsSound /\ threw = FALSE

(* A closed stack shows the same map through the view as through the tip.  *)
LEMMA ClosedContents ==
    ASSUME StackInv, ~open
    PROVE  ViewContents = TipContents
BY EmptyContents, ContentsType DEF StackInv, MapsOK, ClosedOK, ViewContents, TipContents

(* A lookup that goes down to pcoinsTip changes nothing the tip shows.     *)
LEMMA TipLookupOk ==
    ASSUME StackInv, NEW o \in Outpoints
    PROVE  /\ TipAfterViewLookup(o) \in SpendableCache
           /\ SoundCache(TipAfterViewLookup(o), db)
           /\ Contents(TipAfterViewLookup(o), db) = TipContents
BY FetchCoinOk DEF StackInv, MapsOK, FlagsSound, TipAfterViewLookup, TipContents

(* What one step does to the stack: the invariant is kept, and the step is *)
(* a step of the plain maps or changes none of them.                       *)
StepOk == StackInv' /\ (Plain!Next \/ UNCHANGED Plain!vars)

LEMMA InitInv == Init => StackInv
<1> SUFFICES ASSUME Init PROVE StackInv
  OBVIOUS
<1>1. db \in Shown
  BY DEF Init, Shown
<1>2. /\ EmptyCache \in SpendableCache
      /\ Contents(EmptyCache, db) = db
      /\ SoundCache(EmptyCache, db)
  BY <1>1, EmptyContents
<1> QED BY <1>1, <1>2, Zenon DEF Init, StackInv, MapsOK, HashesOK, ClosedOK, FlagsSound, TipContents

(* The facts about the current state that every step below starts from.    *)
LEMMA StateFacts ==
    ASSUME StackInv
    PROVE  /\ db \in Shown /\ tip \in SpendableCache /\ view \in SpendableCache
           /\ SoundCache(tip, db) /\ SoundCache(view, TipContents)
           /\ TipContents \in Shown /\ ViewContents \in Shown
           /\ threw = FALSE
BY ContentsType DEF StackInv, MapsOK, FlagsSound, TipContents, ViewContents

(* NewView and DropView: the scratch view appears and goes whole.          *)
LEMMA OpenCloseStep ==
    ASSUME StackInv, NewView \/ DropView
    PROVE  StepOk
<1> USE StateFacts
<1>1. /\ EmptyCache \in SpendableCache
      /\ Contents(EmptyCache, TipContents) = TipContents
      /\ SoundCache(EmptyCache, TipContents)
  BY EmptyContents
<1>2. /\ TipContents' = TipContents
      /\ ViewContents' = TipContents
      /\ view' = EmptyCache
  BY <1>1, Zenon DEF NewView, DropView, TipContents, ViewContents
<1>3. StackInv'
  BY <1>1, <1>2, Zenon DEF NewView, DropView, StackInv, MapsOK, HashesOK, ClosedOK, FlagsSound
<1>4. CASE NewView
  <2>1. Plain!Begin
    BY <1>2, <1>4 DEF NewView, Plain!Begin, GetBestBlock
  <2> QED BY <1>3, <2>1 DEF StepOk, Plain!Next
<1>5. CASE DropView
  <2>1. Plain!Abort
    BY <1>2, <1>5 DEF DropView, Plain!Abort, GetBestBlock
  <2> QED BY <1>3, <2>1 DEF StepOk, Plain!Next
<1> QED BY <1>4, <1>5

(* Lookups, Uncache and lazily read best blocks change nothing visible.    *)
LEMMA InvisibleStep ==
    ASSUME StackInv,
           \/ \E o \in Outpoints : ViewLookup(o) \/ TipLookup(o) \/ TipUncache(o)
           \/ ViewGetBestBlock
           \/ TipGetBestBlock
    PROVE  StepOk
<1> USE StateFacts
<1>1. ASSUME NEW o \in Outpoints, ViewLookup(o)
      PROVE  StepOk
  <2>1. /\ tip' \in SpendableCache /\ SoundCache(tip', db)
        /\ Contents(tip', db) = TipContents
    BY <1>1, TipLookupOk DEF ViewLookup
  <2>2. /\ view' \in SpendableCache /\ SoundCache(view', TipContents)
        /\ Contents(view', TipContents) = ViewContents
    BY <1>1, FetchCoinOk DEF ViewLookup, ViewContents
  <2>3. TipContents' = TipContents /\ ViewContents' = ViewContents
    BY <1>1, <2>1, <2>2 DEF ViewLookup, TipContents, ViewContents
  <2>4. StackInv'
    BY <1>1, <2>1, <2>2, <2>3 DEF ViewLookup, StackInv, MapsOK, HashesOK, ClosedOK, FlagsSound
  <2> QED BY <1>1, <2>3, <2>4 DEF ViewLookup, StepOk, Plain!vars, GetBestBlock
<1>2. ASSUME NEW o \in Outpoints, TipLookup(o) \/ TipUncache(o)
      PROVE  StepOk
  <2>1. /\ tip' \in SpendableCache /\ SoundCache(tip', db)
        /\ Contents(tip', db) = TipContents
    <3>1. CASE TipLookup(o)
      BY <3>1, FetchCoinOk DEF TipLookup, TipContents
    <3>2. CASE TipUncache(o)
      BY <3>2, UncacheOk DEF TipUncache, TipContents
    <3> QED BY <1>2, <3>1, <3>2
  <2>2. TipContents' = TipContents
    BY <1>2, <2>1, Zenon DEF TipLookup, TipUncache, TipContents
  <2>3. ViewContents' = ViewContents
    BY <1>2, <2>2, Zenon DEF TipLookup, TipUncache, ViewContents
  <2>4. StackInv'
    BY <1>2, <2>1, <2>2 DEF TipLookup, TipUncache, StackInv, MapsOK, HashesOK, ClosedOK, FlagsSound
  <2>5. UNCHANGED <<db, dbBest, tipHash, viewHash, open>>
    BY <1>2, Zenon DEF TipLookup, TipUncache
  <2> QED BY <2>2, <2>3, <2>4, <2>5 DEF StepOk, Plain!vars, GetBestBlock
<1>3. CASE ViewGetBestBlock \/ TipGetBestBlock
  <2>1. TipContents' = TipContents /\ ViewContents' = ViewContents
    BY <1>3, Zenon DEF ViewGetBestBlock, TipGetBestBlock, TipContents, ViewContents
  <2>2. StackInv'
    BY <1>3, <2>1 DEF ViewGetBestBlock, TipGetBestBlock, StackInv, MapsOK, HashesOK,
                      ClosedOK, FlagsSound, GetBestBlock
  <2>3. /\ GetBestBlock(tipHash, dbBest)' = GetBestBlock(tipHash, dbBest)
        /\ open => GetBestBlock(viewHash, GetBestBlock(tipHash, dbBest))'
                     = GetBestBlock(viewHash, GetBestBlock(tipHash, dbBest))
        /\ UNCHANGED <<db, dbBest, open>>
    BY <1>3 DEF ViewGetBestBlock, TipGetBestBlock, GetBestBlock, StackInv, HashesOK
  <2> QED BY <2>1, <2>2, <2>3 DEF StepOk, Plain!vars
<1> QED BY <1>1, <1>2, <1>3

(* AddCoin on the scratch view: the outpoint holds the coin, unless it is  *)
(* unspendable, and nothing else changes.                                  *)
LEMMA AddStep ==
    ASSUME StackInv, NEW o \in Outpoints, NEW c \in Coins, NEW ow \in BOOLEAN,
           ViewAddCoin(o, c, ow)
    PROVE  StepOk /\ ViewContents' = Having(ViewContents, o, c)
<1> USE StateFacts
<1>1. /\ ~AddThrows(view, o, c, ow)
      /\ AddCoin(view, o, c, ow) \in SpendableCache
      /\ SoundCache(AddCoin(view, o, c, ow), TipContents)
      /\ Contents(AddCoin(view, o, c, ow), TipContents) =
            IF c \in Unspendable THEN ViewContents ELSE [ViewContents EXCEPT ![o] = c]
  BY AddCoinOk DEF ViewAddCoin, ViewContents
<1>2. threw' = FALSE /\ view' = AddCoin(view, o, c, ow)
  BY <1>1 DEF ViewAddCoin, AddThrows
<1>3. TipContents' = TipContents
  BY DEF ViewAddCoin, TipContents
<1>4. ViewContents' = IF c \in Unspendable THEN ViewContents
                      ELSE [ViewContents EXCEPT ![o] = c]
  BY <1>1, <1>2, <1>3 DEF ViewContents
<1>5. StackInv'
  BY <1>1, <1>2, <1>3 DEF ViewAddCoin, StackInv, MapsOK, HashesOK, ClosedOK, FlagsSound
<1>6. CASE c \in Unspendable
  BY <1>3, <1>4, <1>5, <1>6 DEF ViewAddCoin, StepOk, Plain!vars, GetBestBlock, Having
<1>7. CASE c \notin Unspendable
  <2>1. Plain!Put(o, c)
    BY <1>3, <1>4, <1>7 DEF ViewAddCoin, Plain!Put, GetBestBlock
  <2> QED BY <1>4, <1>5, <1>7, <2>1 DEF StepOk, Plain!Next, Having
<1> QED BY <1>6, <1>7

(* The same with the overwrite flag HaveCoin gives.                        *)
LEMMA RestoreStep ==
    ASSUME StackInv, NEW o \in Outpoints, NEW c \in Coins, ViewRestoreCoin(o, c)
    PROVE  StepOk /\ ViewContents' = Having(ViewContents, o, c)
<1> USE StateFacts
<1> DEFINE f == FetchCoin(view, TipContents, o)
           have == f[o] # NoEntry /\ f[o].coin # Spent
<1>1. /\ tip' \in SpendableCache /\ SoundCache(tip', db)
      /\ Contents(tip', db) = TipContents
  BY TipLookupOk DEF ViewRestoreCoin
<1>2. /\ f \in SpendableCache /\ SoundCache(f, TipContents)
      /\ Contents(f, TipContents) = ViewContents
  BY FetchCoinOk DEF ViewContents
<1>3. have \/ Contents(f, TipContents)[o] = Spent
  <2>1. f[o] = NoEntry => TipContents[o] = Spent
    <3>1. [coin |-> TipContents[o], dirty |-> FALSE, fresh |-> FALSE] \in Entry
      BY DEF Entry, Shown
    <3> QED BY <3>1, Zenon DEF FetchCoin, SpendableCache
  <2> HIDE DEF f
  <2> QED BY <2>1 DEF Contents
<1>4. have \in BOOLEAN
  OBVIOUS
<1>5. /\ threw' = AddThrows(f, o, c, have)
      /\ view' = IF threw' THEN f ELSE AddCoin(f, o, c, have)
  BY DEF ViewRestoreCoin
<1> HIDE DEF f, have
<1>6. /\ ~AddThrows(f, o, c, have)
      /\ AddCoin(f, o, c, have) \in SpendableCache
      /\ SoundCache(AddCoin(f, o, c, have), TipContents)
      /\ Contents(AddCoin(f, o, c, have), TipContents) =
            IF c \in Unspendable THEN Contents(f, TipContents)
            ELSE [Contents(f, TipContents) EXCEPT ![o] = c]
  BY <1>2, <1>3, <1>4, AddCoinOk
<1>7. threw' = FALSE /\ view' = AddCoin(f, o, c, have)
  BY <1>5, <1>6 DEF AddThrows
<1>8. TipContents' = TipContents
  BY <1>1 DEF ViewRestoreCoin, TipContents
<1>9. ViewContents' = IF c \in Unspendable THEN ViewContents
                      ELSE [ViewContents EXCEPT ![o] = c]
  BY <1>2, <1>6, <1>7, <1>8 DEF ViewContents
<1>10. StackInv'
  BY <1>1, <1>6, <1>7, <1>8
     DEF ViewRestoreCoin, StackInv, MapsOK, HashesOK, ClosedOK, FlagsSound
<1>11. CASE c \in Unspendable
  BY <1>8, <1>9, <1>10, <1>11
     DEF ViewRestoreCoin, StepOk, Plain!vars, GetBestBlock, Having
<1>12. CASE c \notin Unspendable
  <2>1. Plain!Put(o, c)
    BY <1>8, <1>9, <1>12 DEF ViewRestoreCoin, Plain!Put, GetBestBlock
  <2> QED BY <1>9, <1>10, <1>12, <2>1 DEF StepOk, Plain!Next, Having
<1> QED BY <1>11, <1>12

(* SpendCoin on the scratch view.                                          *)
LEMMA SpendStep ==
    ASSUME StackInv, NEW o \in Outpoints, ViewSpendCoin(o)
    PROVE  StepOk /\ ViewContents' = [ViewContents EXCEPT ![o] = Spent]
<1> USE StateFacts
<1>1. /\ tip' \in SpendableCache /\ SoundCache(tip', db)
      /\ Contents(tip', db) = TipContents
  BY TipLookupOk DEF ViewSpendCoin
<1>2. /\ view' \in SpendableCache /\ SoundCache(view', TipContents)
      /\ Contents(view', TipContents) = [ViewContents EXCEPT ![o] = Spent]
  BY SpendCoinOk DEF ViewSpendCoin, ViewContents
<1>3. TipContents' = TipContents /\ ViewContents' = [ViewContents EXCEPT ![o] = Spent]
  BY <1>1, <1>2 DEF ViewSpendCoin, TipContents, ViewContents
<1>4. StackInv'
  BY <1>1, <1>2, <1>3 DEF ViewSpendCoin, StackInv, MapsOK, HashesOK, ClosedOK, FlagsSound
<1>5. Plain!Put(o, Spent)
  BY <1>3 DEF ViewSpendCoin, Plain!Put, GetBestBlock
<1> QED BY <1>3, <1>4, <1>5 DEF StepOk, Plain!Next

(* SetBestBlock on the scratch view.                                       *)
LEMMA SetBestStep ==
    ASSUME StackInv, NEW h \in Hashes, ViewSetBestBlock(h)
    PROVE  StepOk
<1> USE StateFacts
<1>1. TipContents' = TipContents /\ ViewContents' = ViewContents
  BY DEF ViewSetBestBlock, TipContents, ViewContents
<1>2. StackInv'
  BY <1>1 DEF ViewSetBestBlock, StackInv, MapsOK, HashesOK, ClosedOK, FlagsSound
<1>3. Plain!SetBest(h)
  BY <1>1 DEF ViewSetBestBlock, Plain!SetBest, GetBestBlock
<1> QED BY <1>2, <1>3 DEF StepOk, Plain!Next

(* Flush of the scratch view: pcoinsTip takes it over whole.               *)
LEMMA ViewFlushStep ==
    ASSUME StackInv, ViewFlush
    PROVE  StepOk
<1> USE StateFacts
<1>1. /\ ~BatchWriteThrows(tip, view)
      /\ BatchWrite(tip, view) \in SpendableCache
      /\ SoundCache(BatchWrite(tip, view), db)
      /\ Contents(BatchWrite(tip, view), db) = ViewContents
  BY BatchWriteOk DEF TipContents, ViewContents
<1>2. threw' = FALSE
  BY <1>1 DEF ViewFlush, BatchWriteThrows
<1>3. /\ tip' = BatchWrite(tip, view)
      /\ tipHash' = viewHash /\ viewHash # NullHash
      /\ view' = EmptyCache /\ viewHash' = NullHash
      /\ open /\ open' = FALSE
      /\ UNCHANGED <<db, dbBest>>
  BY <1>2 DEF ViewFlush
<1>4. TipContents' = ViewContents
  BY <1>1, <1>3 DEF TipContents
<1>5. EmptyCache \in SpendableCache /\ SoundCache(EmptyCache, ViewContents)
  BY EmptyContents
<1>6. StackInv'
  BY <1>1, <1>2, <1>3, <1>4, <1>5, Zenon DEF StackInv, MapsOK, HashesOK, ClosedOK, FlagsSound
<1>7. Plain!Commit
  BY <1>3, <1>4 DEF Plain!Commit, GetBestBlock
<1> QED BY <1>6, <1>7 DEF StepOk, Plain!Next

(* Flush of pcoinsTip: the database takes it over whole.                   *)
LEMMA TipFlushStep ==
    ASSUME StackInv, TipFlush
    PROVE  StepOk
<1> USE StateFacts
<1>1. db' = TipContents
  BY DBWriteOk DEF TipFlush, TipContents
<1>2. /\ EmptyCache \in SpendableCache
      /\ Contents(EmptyCache, TipContents) = TipContents
      /\ SoundCache(EmptyCache, TipContents)
  BY EmptyContents
<1>3. TipContents' = TipContents
  BY <1>1, <1>2 DEF TipFlush, TipContents
<1>4. SoundCache(tip', db')
  BY <1>1, <1>2 DEF TipFlush
<1>5. ViewContents' = ViewContents
  BY <1>3 DEF TipFlush, ViewContents
<1>6. GetBestBlock(tipHash, dbBest) \in Hashes
  BY DEF TipFlush, GetBestBlock, StackInv, HashesOK
<1>7. StackInv'
  BY <1>1, <1>2, <1>3, <1>4, <1>6, Zenon DEF TipFlush, StackInv, MapsOK, HashesOK, ClosedOK, FlagsSound
<1>8. Plain!Store
  BY <1>1, <1>3, <1>5 DEF TipFlush, Plain!Store, GetBestBlock
<1> QED BY <1>7, <1>8 DEF StepOk, Plain!Next

(* Every step of the specification.                                        *)
LEMMA NextStep == StackInv /\ [Next]_vars => StepOk
<1> SUFFICES ASSUME StackInv, [Next]_vars PROVE StepOk
  OBVIOUS
<1>1. CASE UNCHANGED vars
  <2>1. TipContents' = TipContents /\ ViewContents' = ViewContents
    BY <1>1 DEF vars, TipContents, ViewContents
  <2>2. StackInv'
    BY <1>1, <2>1 DEF vars, StackInv, MapsOK, HashesOK, ClosedOK, FlagsSound
  <2> QED BY <1>1, <2>1, <2>2 DEF vars, StepOk, Plain!vars, GetBestBlock
<1>2. CASE Next
  BY <1>2, OpenCloseStep, InvisibleStep, AddStep, RestoreStep, SpendStep,
     SetBestStep, ViewFlushStep, TipFlushStep
     DEF Next
<1> QED BY <1>1, <1>2

-----------------------------------------------------------------------------
(* The inductive invariant holds in every reachable state.                 *)
LEMMA StackInvariant == Spec => []StackInv
<1>1. StackInv /\ [Next]_vars => StackInv'
  BY NextStep DEF StepOk
<1> QED BY InitInv, <1>1, PTL DEF Spec

(* Type correctness of coins.cpp's caches and of the coins database, which *)
(* never receives an unspendable output (AddCoin's early return).          *)
THEOREM TypeCorrect == Spec => []TypeOK
<1>1. StackInv => TypeOK
  BY SpendableIsCache, Zenon DEF StackInv, MapsOK, HashesOK, TypeOK, Shown
<1> QED BY StackInvariant, <1>1, PTL

(* The comments on DIRTY and FRESH hold at both levels of the stack after  *)
(* any sequence of AddCoin, SpendCoin, lookups, Uncache and flushes.       *)
THEOREM FlagsAlwaysSound == Spec => []FlagsSound
<1>1. StackInv => FlagsSound
  BY DEF StackInv
<1> QED BY StackInvariant, <1>1, PTL

(* Neither logic_error of AddCoin and BatchWrite can be thrown by callers  *)
(* that respect AddCoin's contract on possible_overwrite.                  *)
THEOREM NoLogicError == Spec => []NeverThrows
<1>1. StackInv => NeverThrows
  BY DEF StackInv, NeverThrows
<1> QED BY StackInvariant, <1>1, PTL

(* AddCoin and SpendCoin take effect at once for every reader of the view, *)
(* whatever levels of the stack hold the coin.                             *)
THEOREM EveryCallTakesEffect == Spec => CallsTakeEffect
<1> DEFINE Effect ==
      \A o \in Outpoints :
        /\ ViewSpendCoin(o) => ViewContents' = [ViewContents EXCEPT ![o] = Spent]
        /\ \A c \in Coins :
             \/ ViewRestoreCoin(o, c)
             \/ \E ow \in BOOLEAN : ViewAddCoin(o, c, ow)
             => ViewContents' = Having(ViewContents, o, c)
<1>1. StackInv => Effect
  BY AddStep, RestoreStep, SpendStep
<1>2. StackInv => [Effect]_vars
  BY <1>1
<1> QED BY StackInvariant, <1>2, PTL DEF CallsTakeEffect

(* The stack of write-back caches implements plain maps: flushing moves    *)
(* exactly what was visible, and nothing else ever changes what is.        *)
THEOREM CachesArePlainMaps == Spec => PlainMaps
<1>1. Init => Plain!Init
  <2> SUFFICES ASSUME Init PROVE Plain!Init
    OBVIOUS
  <2>1. db \in Shown
    BY DEF Init, Shown
  <2>2. TipContents = db
    BY <2>1, EmptyContents DEF Init, TipContents
  <2> QED BY <2>1, <2>2 DEF Init, Plain!Init, Plain!UtxoMap, Shown, GetBestBlock
<1>2. StackInv /\ [Next]_vars => [Plain!Next]_(Plain!vars)
  BY NextStep DEF StepOk
<1> QED BY <1>1, <1>2, StackInvariant, PTL DEF Spec, PlainMaps, Plain!Spec
==============================================================================
