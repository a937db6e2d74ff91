-------------------------- MODULE CheckQueueProofs --------------------------
(***************************************************************************)
(* For any number of workers, checks and blocks, and every batch size: the *)
(* counters of CCheckQueue are exact, the verdict is right, nothing is     *)
(* left for the next block, and a sleeping master is always going to be    *)
(* woken.                                                                  *)
(*                                                                         *)
(* The argument turns on nTodo.  It counts the checks that are queued or   *)
(* in a batch, so it is zero only when every verdict has been delivered;   *)
(* the master returns only then, and sleeps only when it is not zero.      *)
(***************************************************************************)
EXTENDS CheckQueue, FiniteSetTheorems, TLAPS

Idlers == {t \in Threads : pc[t] \in {"asleep", "woken"}}
Loopers == {t \in Threads : pc[t] \notin {"free", "adding", "first", "gone"}}

(* Who may be where, and who may hold checks.                              *)
PlacesOk ==
    /\ pc[Master] # "gone"
    /\ \A t \in Workers : pc[t] \notin {"free", "adding"}
    /\ \A t \in Threads : pc[t] \notin {"working", "finished"} => Batch(t) = {}

(* A failure that was noted is a failure of this block.                    *)
FailuresReal ==
    (~fAllOk \/ \E t \in Threads : pc[t] \in {"working", "finished"} /\ ~fOk[t])
        => Added \intersect bad # {}

(* A check that fails is noted by the thread that ran or skipped it, and   *)
(* then in fAllOk.                                                         *)
FailuresNoted ==
    /\ pc[Master] # "free" => \A c \in bad : place[c] = "over" => ~fAllOk
    /\ \A t \in Threads : \A c \in bad : place[c] = t /\ pc[t] = "finished" => ~fOk[t]

(* The master asleep, working on a block, and between blocks.              *)
MasterOk ==
    /\ pc[Master] = "asleep" => Queue = {} /\ Pending # {}
    /\ pc[Master] # "free" => verdict = "none"
    /\ pc[Master] = "free" => Pending = {} /\ fAllOk

IInv ==
    /\ TypeOK /\ CountsExact /\ PlacesOk
    /\ FailuresReal /\ FailuresNoted /\ MasterOk /\ VerdictExact

-----------------------------------------------------------------------------
(* Counting.                                                               *)

LEMMA ThreadsFinite == IsFiniteSet(Threads)
BY QueueAssumption, FS_AddElement DEF Threads

LEMMA SubsetCounts ==
    ASSUME NEW S, IsFiniteSet(S), NEW T \in SUBSET S
    PROVE  /\ IsFiniteSet(T) /\ Cardinality(T) \in Nat
           /\ Cardinality(T) = 0 <=> T = {}
BY FS_Subset, FS_CardinalityType, FS_EmptySet

LEMMA DisjointCounts ==
    ASSUME NEW S, IsFiniteSet(S), NEW T, IsFiniteSet(T), S \intersect T = {}
    PROVE  Cardinality(S \union T) = Cardinality(S) + Cardinality(T)
<1>1. Cardinality(S \union T) = Cardinality(S) + Cardinality(T) - Cardinality(S \intersect T)
  BY FS_Union
<1>2. Cardinality(S \intersect T) = 0
  BY FS_EmptySet
<1>3. Cardinality(S) \in Nat /\ Cardinality(T) \in Nat
  BY FS_CardinalityType
<1> QED BY <1>1, <1>2, <1>3

LEMMA DifferenceCounts ==
    ASSUME NEW S, IsFiniteSet(S), NEW T \in SUBSET S
    PROVE  Cardinality(S \ T) = Cardinality(S) - Cardinality(T)
<1>1. IsFiniteSet(T) /\ IsFiniteSet(S \ T)
  BY FS_Subset
<1>2. Cardinality(T \union (S \ T)) = Cardinality(T) + Cardinality(S \ T)
  BY <1>1, DisjointCounts
<1>3. T \union (S \ T) = S
  OBVIOUS
<1>4. Cardinality(T) \in Nat /\ Cardinality(S \ T) \in Nat /\ Cardinality(S) \in Nat
  BY <1>1, FS_CardinalityType
<1> QED BY <1>2, <1>3, <1>4

(* Clean-up of nTodo: it counts what is pending without the batch that t   *)
(* delivers.                                                               *)
LEMMA TodoCounts ==
    ASSUME TypeOK, CountsExact, NEW t \in Threads
    PROVE  LET rest == {c \in Checks : PlaceAfter(t)[c] \notin {"unknown", "over"}}
           IN  /\ TodoAfter(t) = Cardinality(rest) /\ TodoAfter(t) \in Nat
               /\ TodoAfter(t) = 0 <=> rest = {}
<1> DEFINE rest == {c \in Checks : PlaceAfter(t)[c] \notin {"unknown", "over"}}
<1>1. IsFiniteSet(Pending) /\ IsFiniteSet(rest) /\ Cardinality(rest) \in Nat
  BY QueueAssumption, SubsetCounts DEF Pending
<1>2. CASE Delivers(t)
  <2>1. rest = Pending \ Batch(t) /\ Batch(t) \subseteq Pending
    BY <1>2, QueueAssumption DEF PlaceAfter, Pending, Batch, TypeOK
  <2>2. TodoAfter(t) = Cardinality(rest)
    BY <1>1, <1>2, <2>1, DifferenceCounts DEF TodoAfter, CountsExact
  <2> QED BY <1>1, <2>2, SubsetCounts
<1>3. CASE ~Delivers(t)
  <2>1. rest = Pending
    BY <1>3 DEF PlaceAfter, Pending
  <2> QED BY <1>1, <1>3, <2>1, SubsetCounts, Zenon DEF TodoAfter, CountsExact
<1> QED BY <1>2, <1>3

(* Clean-up of nIdle and nTotal: t is now in Loop and not idle.            *)
LEMMA IdleCounts ==
    ASSUME TypeOK, CountsExact, NEW t \in Threads, Enters(t)
    PROVE  /\ IdleAfter(t) = Cardinality(Idlers \ {t}) + Cardinality(left)
           /\ TotalAfter(t) = Cardinality(Loopers \union {t}) + Cardinality(left)
           /\ IdleAfter(t) \in Nat /\ TotalAfter(t) \in Nat
<1>1. IsFiniteSet(Idlers) /\ IsFiniteSet(Loopers) /\ IsFiniteSet(left)
  BY ThreadsFinite, FS_Subset DEF Idlers, Loopers, TypeOK
<1>2. Cardinality(Idlers) \in Nat /\ Cardinality(Loopers) \in Nat /\ Cardinality(left) \in Nat
  BY <1>1, FS_CardinalityType
<1>3. nIdle = Cardinality(Idlers) + Cardinality(left)
      /\ nTotal = Cardinality(Loopers) + Cardinality(left)
  BY DEF CountsExact, Idlers, Loopers
<1>4. t \in Idlers <=> pc[t] = "woken"
  BY DEF Enters, Idlers
<1>5. t \notin Loopers <=> pc[t] = "first"
  BY DEF Enters, Loopers
<1>6. Cardinality(Idlers \ {t}) = IF t \in Idlers THEN Cardinality(Idlers) - 1 ELSE Cardinality(Idlers)
  BY <1>1, FS_RemoveElement, Zenon
<1>7. Cardinality(Loopers \union {t}) = IF t \in Loopers THEN Cardinality(Loopers) ELSE Cardinality(Loopers) + 1
  BY <1>1, FS_AddElement, Zenon
<1>8. Cardinality(Idlers \ {t}) \in Nat
  BY <1>1, FS_Subset, FS_CardinalityType
<1>9. IdleAfter(t) = Cardinality(Idlers \ {t}) + Cardinality(left)
  BY <1>2, <1>3, <1>4, <1>6 DEF IdleAfter
<1>10. TotalAfter(t) = Cardinality(Loopers \union {t}) + Cardinality(left)
  BY <1>2, <1>3, <1>5, <1>7 DEF TotalAfter
<1>11. Cardinality(Loopers \union {t}) \in Nat
  BY <1>2, <1>7
<1> QED BY <1>2, <1>8, <1>9, <1>10, <1>11

(* A batch has at least one check and at most nBatchSize.                  *)
LEMMA BatchSize ==
    ASSUME TypeOK, CountsExact, NEW t \in Threads, Enters(t)
    PROVE  nNow(t) \in 1 .. nBatchSize
<1> DEFINE n == Cardinality(Queue)
           d == TotalAfter(t) + IdleAfter(t) + 1
<1>1. n \in Nat
  BY QueueAssumption, SubsetCounts DEF Queue
<1>2. d \in Nat \ {0}
  <2>1. IdleAfter(t) \in Nat /\ TotalAfter(t) \in Nat
    BY IdleCounts, Zenon
  <2> QED BY <2>1
<1>3. n \div d \in Nat
  <2> HIDE DEF n, d
  <2> QED BY <1>1, <1>2
<1> QED BY <1>3, QueueAssumption DEF nNow

-----------------------------------------------------------------------------
(* The invariant holds at the start and is kept by every step.             *)

LEMMA InitInv == Init => IInv
<1> SUFFICES ASSUME Init PROVE IInv
  OBVIOUS
<1> USE QueueAssumption DEF Init
<1>1. Pending = {} /\ Added = {} /\ \A t \in Threads : Batch(t) = {}
  BY DEF Pending, Added, Batch
<1>2. TypeOK
  BY <1>1 DEF TypeOK, Threads
<1>3. CountsExact
  <2>1. Idlers = {} /\ Loopers = {}
    BY DEF Idlers, Loopers, Threads
  <2> QED BY <1>1, <2>1, FS_EmptySet DEF CountsExact, Idlers, Loopers
<1>4. PlacesOk /\ FailuresReal /\ FailuresNoted /\ MasterOk /\ VerdictExact
  BY <1>1 DEF PlacesOk, FailuresReal, FailuresNoted, MasterOk, VerdictExact, Threads
<1> QED BY <1>2, <1>3, <1>4 DEF IInv

LEMMA NewControlInv ==
    ASSUME IInv, NEW b \in SUBSET Checks, NewControl(b)
    PROVE  IInv'
<1> USE QueueAssumption DEF IInv, NewControl, Threads
<1>1. Pending' = {} /\ Added' = {} /\ Pending = {} /\ fAllOk
  BY DEF Pending, Added, MasterOk
<1>2. \A t \in Threads : Batch(t)' = {} /\ Batch(t) = {}
  BY <1>1 DEF Batch, Pending
<1>3. \A t \in Threads : pc[t] \notin {"working", "finished"}
  <2>1. Cardinality({}) = 0 /\ 0 \notin 1 .. nBatchSize
    BY FS_EmptySet
  <2> QED BY <1>2, <2>1, Zenon DEF TypeOK
<1>4. TypeOK'
  BY <1>3 DEF TypeOK
<1>5. CountsExact'
  <2>1. Idlers' = Idlers /\ Loopers' = Loopers
    BY DEF Idlers, Loopers, TypeOK
  <2> QED BY <1>1, <2>1, FS_EmptySet, Zenon DEF CountsExact, Idlers, Loopers
<1>6. PlacesOk' /\ MasterOk' /\ VerdictExact'
  BY <1>1, <1>2 DEF PlacesOk, MasterOk, VerdictExact, TypeOK
<1>7. FailuresReal' /\ FailuresNoted'
  BY <1>1, <1>3 DEF FailuresReal, FailuresNoted, TypeOK
<1> QED BY <1>4, <1>5, <1>6, <1>7

LEMMA AddInv ==
    ASSUME IInv, NEW S \in SUBSET Checks, NEW woken \in SUBSET Workers, Add(S, woken)
    PROVE  IInv'
<1> USE QueueAssumption DEF IInv, Add, Threads
<1>1. woken \subseteq Asleep /\ Asleep \subseteq Workers
  BY DEF WakesWorkers, Asleep
<1>2. pc'[Master] = "adding" /\ \A t \in Threads : pc'[t] = pc[t] \/ (pc[t] = "asleep" /\ pc'[t] = "woken")
  BY <1>1 DEF Asleep, TypeOK
<1>3. /\ Pending' = Pending \union S /\ Pending \intersect S = {}
      /\ Added' = Added \union S
      /\ \A t \in Threads : Batch(t)' = Batch(t)
  <2>1. /\ \A c \in S : place[c] = "unknown" /\ place'[c] = "queue"
        /\ \A c \in Checks \ S : place'[c] = place[c]
    BY DEF Added
  <2>2. Pending' = Pending \union S /\ Pending \intersect S = {}
    BY <2>1 DEF Pending
  <2>3. Added' = Added \union S
    BY <2>1 DEF Added
  <2>4. \A t \in Threads : Batch(t)' = Batch(t)
    BY <2>1 DEF Batch
  <2> QED BY <2>2, <2>3, <2>4
<1>4. Cardinality(Pending') = Cardinality(Pending) + Cardinality(S) /\ Cardinality(S) \in Nat
  <2>1. IsFiniteSet(Pending) /\ IsFiniteSet(S)
    BY FS_Subset DEF Pending
  <2> QED BY <1>3, <2>1, DisjointCounts, FS_CardinalityType
<1>5. TypeOK'
  <2>1. nTodo' \in Nat
    BY <1>4 DEF TypeOK
  <2>2. \A t \in Threads : pc'[t] \in {"working", "finished"} => Cardinality(Batch(t)') \in 1 .. nBatchSize
    BY <1>2, <1>3 DEF TypeOK
  <2> QED BY <2>1, <2>2 DEF TypeOK
<1>6. CountsExact'
  <2>1. Idlers' = Idlers /\ Loopers' = Loopers
    BY <1>2, Zenon DEF Idlers, Loopers
  <2> QED BY <1>4, <2>1, Zenon DEF CountsExact, Idlers, Loopers
<1>7. PlacesOk' /\ MasterOk' /\ VerdictExact'
  BY <1>2, <1>3 DEF PlacesOk, MasterOk, VerdictExact
<1>8. FailuresReal'
  BY <1>2, <1>3 DEF FailuresReal
<1>9. FailuresNoted'
  BY <1>2 DEF FailuresNoted, TypeOK
<1> QED BY <1>5, <1>6, <1>7, <1>8, <1>9

LEMMA WaitInv ==
    ASSUME IInv, Wait
    PROVE  IInv'
<1> USE QueueAssumption DEF IInv, Wait, Threads
<1>1. Pending' = Pending /\ Added' = Added /\ \A t \in Threads : Batch(t)' = Batch(t)
  BY DEF Pending, Added, Batch
<1>2. pc'[Master] = "first" /\ \A t \in Workers : pc'[t] = pc[t]
  BY DEF TypeOK
<1>3. TypeOK'
  BY <1>1, <1>2 DEF TypeOK
<1>4. CountsExact'
  <2>1. Idlers' = Idlers /\ Loopers' = Loopers
    BY <1>2 DEF Idlers, Loopers
  <2> QED BY <1>1, <2>1 DEF CountsExact, Idlers, Loopers
<1>5. PlacesOk' /\ MasterOk' /\ VerdictExact' /\ FailuresReal' /\ FailuresNoted'
  BY <1>1, <1>2 DEF PlacesOk, MasterOk, VerdictExact, FailuresReal, FailuresNoted
<1> QED BY <1>3, <1>4, <1>5

LEMMA ExecuteInv ==
    ASSUME IInv, NEW t \in Threads, Execute(t)
    PROVE  IInv'
<1> USE QueueAssumption DEF IInv, Execute
<1>1. /\ Pending' = Pending /\ Added' = Added /\ Queue' = Queue
      /\ \A u \in Threads : Batch(u)' = Batch(u)
  BY DEF Pending, Added, Batch, Queue
<1>2. /\ pc'[t] = "finished" /\ pc[t] = "working"
      /\ \A u \in Threads : u # t => pc'[u] = pc[u] /\ fOk'[u] = fOk[u]
  BY DEF TypeOK
<1>3. fOk'[t] = (fOk[t] /\ Batch(t) \intersect bad = {})
  BY DEF TypeOK
<1>4. TypeOK'
  BY <1>1, <1>2, <1>3 DEF TypeOK
<1>5. CountsExact'
  <2>1. Idlers' = Idlers /\ Loopers' = Loopers
    BY <1>2 DEF Idlers, Loopers
  <2> QED BY <1>1, <2>1, Zenon DEF CountsExact, Idlers, Loopers
<1>6. PlacesOk' /\ MasterOk' /\ VerdictExact'
  BY <1>1, <1>2 DEF PlacesOk, MasterOk, VerdictExact, Threads
<1>7. FailuresReal'
  <2>1. Batch(t) \subseteq Added
    BY DEF Batch, Added
  <2> QED BY <1>1, <1>2, <1>3, <2>1, Zenon DEF FailuresReal
<1>8. FailuresNoted'
  BY <1>2, <1>3, Zenon DEF FailuresNoted, Batch, TypeOK, Threads
<1> QED BY <1>4, <1>5, <1>6, <1>7, <1>8

LEMMA SpuriousWakeInv ==
    ASSUME IInv, NEW t \in Threads, SpuriousWake(t)
    PROVE  IInv'
<1> USE QueueAssumption DEF IInv, SpuriousWake
<1>1. /\ Pending' = Pending /\ Added' = Added /\ Queue' = Queue
      /\ \A u \in Threads : Batch(u)' = Batch(u)
  BY DEF Pending, Added, Batch, Queue
<1>2. /\ pc'[t] = "woken" /\ pc[t] = "asleep"
      /\ \A u \in Threads : u # t => pc'[u] = pc[u]
  BY DEF TypeOK
<1>3. TypeOK'
  BY <1>1, <1>2 DEF TypeOK
<1>4. CountsExact'
  <2>1. Idlers' = Idlers /\ Loopers' = Loopers
    BY <1>2 DEF Idlers, Loopers
  <2> QED BY <1>1, <2>1 DEF CountsExact, Idlers, Loopers
<1>5. PlacesOk' /\ MasterOk' /\ VerdictExact'
  BY <1>1, <1>2 DEF PlacesOk, MasterOk, VerdictExact, Threads
<1>6. FailuresReal' /\ FailuresNoted'
  BY <1>1, <1>2 DEF FailuresReal, FailuresNoted, Threads
<1> QED BY <1>3, <1>4, <1>5, <1>6

(* The interrupted thread leaves the idle ones and joins those that left:  *)
(* the counters stay what they were.                                       *)
LEMMA InterruptInv ==
    ASSUME IInv, NEW t \in Threads, Interrupt(t)
    PROVE  IInv'
<1> USE QueueAssumption DEF IInv, Interrupt
<1>1. /\ Pending' = Pending /\ Added' = Added /\ Queue' = Queue
      /\ \A u \in Threads : Batch(u)' = Batch(u)
  BY DEF Pending, Added, Batch, Queue
<1>2. /\ pc'[t] = IF t = Master THEN "first" ELSE "gone"
      /\ pc[t] \in {"asleep", "woken"}
      /\ \A u \in Threads : u # t => pc'[u] = pc[u]
  BY DEF TypeOK
<1>3. TypeOK'
  BY <1>1, <1>2 DEF TypeOK
<1>4. CountsExact'
  <2>1. Idlers' = Idlers \ {t} /\ Loopers' = Loopers \ {t} /\ t \in Idlers /\ t \in Loopers
    BY <1>2 DEF Idlers, Loopers
  <2>2. IsFiniteSet(Idlers) /\ IsFiniteSet(Loopers) /\ IsFiniteSet(left)
    BY ThreadsFinite, FS_Subset DEF Idlers, Loopers, TypeOK
  <2>3. Cardinality(Idlers) \in Nat /\ Cardinality(Loopers) \in Nat /\ Cardinality(left) \in Nat
    BY <2>2, FS_CardinalityType
  <2>4. /\ Cardinality(Idlers') = Cardinality(Idlers) - 1
        /\ Cardinality(Loopers') = Cardinality(Loopers) - 1
    BY <2>1, <2>2, FS_RemoveElement, Zenon
  <2>5. Cardinality(left') = Cardinality(left) + 1
    BY <2>2, FS_AddElement, Zenon
  <2> QED BY <1>1, <2>3, <2>4, <2>5 DEF CountsExact, Idlers, Loopers
<1>5. PlacesOk' /\ MasterOk' /\ VerdictExact'
  BY <1>1, <1>2 DEF PlacesOk, MasterOk, VerdictExact, Threads
<1>6. FailuresReal' /\ FailuresNoted'
  BY <1>1, <1>2 DEF FailuresReal, FailuresNoted, Threads
<1> QED BY <1>3, <1>4, <1>5, <1>6

-----------------------------------------------------------------------------
(* The critical section.                                                   *)

(* Clean-up of fAllOk: what it says is of this block, and a failing check  *)
(* that is over is in it.                                                  *)
LEMMA CleanUpVerdict ==
    ASSUME IInv, NEW t \in Threads, Enters(t)
    PROVE  /\ ~AllOkAfter(t) => Added \intersect bad # {}
           /\ pc[Master] # "free" =>
                \A c \in bad : PlaceAfter(t)[c] = "over" => ~AllOkAfter(t)
           /\ pc[Master] = "free" => ~Delivers(t)
<1> USE DEF IInv
<1>1. ~AllOkAfter(t) => Added \intersect bad # {}
  BY DEF AllOkAfter, Delivers, FailuresReal
<1>2. ASSUME pc[Master] # "free", NEW c \in bad, PlaceAfter(t)[c] = "over"
      PROVE  ~AllOkAfter(t)
  BY <1>2 DEF AllOkAfter, Delivers, FailuresNoted, PlaceAfter, TypeOK
<1>3. ASSUME pc[Master] = "free", Delivers(t)
      PROVE  FALSE
  <2>1. Batch(t) = {}
    BY <1>3, QueueAssumption DEF MasterOk, Pending, Batch
  <2>2. Cardinality(Batch(t)) # 0
    BY <1>3, QueueAssumption DEF TypeOK, Delivers
  <2> QED BY <2>1, <2>2, FS_EmptySet
<1> QED BY <1>1, <1>2, <1>3

(* Who is where after the clean-up.                                        *)
LEMMA NotifyType ==
    ASSUME TypeOK, NEW t \in Threads
    PROVE  /\ NotifyMaster(t) \in [Threads -> {"free", "adding", "first", "asleep", "woken",
                                              "working", "finished", "gone"}]
           /\ \A u \in Threads : \/ NotifyMaster(t)[u] = pc[u]
                                 \/ /\ u = Master /\ pc[u] = "asleep"
                                    /\ NotifyMaster(t)[u] = "woken"
           /\ NotifyMaster(t)[Master] = "asleep" /\ Delivers(t) /\ t # Master
                => TodoAfter(t) # 0
<1>1. CASE Delivers(t) /\ TodoAfter(t) = 0 /\ t # Master /\ pc[Master] = "asleep"
  BY <1>1 DEF NotifyMaster, TypeOK, Threads
<1>2. CASE ~(Delivers(t) /\ TodoAfter(t) = 0 /\ t # Master /\ pc[Master] = "asleep")
  BY <1>2 DEF NotifyMaster, TypeOK, Threads
<1> QED BY <1>1, <1>2

LEMMA FetchInv ==
    ASSUME IInv, NEW t \in Threads, NEW B \in SUBSET Checks, Fetch(t, B)
    PROVE  IInv'
<1> USE QueueAssumption DEF IInv, Fetch
<1> DEFINE rest == {c \in Checks : PlaceAfter(t)[c] \notin {"unknown", "over"}}
<1>1. B \subseteq Queue /\ Queue \subseteq Pending /\ Queue \subseteq rest
      /\ \A c \in B : place[c] = "queue"
  BY DEF Queue, Pending, PlaceAfter
<1>2. pc[Master] \notin {"free", "asleep"}
  BY <1>1 DEF MasterOk
<1>3. /\ place' \in [Checks -> {"unknown", "queue", "over"} \union Threads]
      /\ \A c \in Checks : place'[c] = IF c \in B THEN t ELSE PlaceAfter(t)[c]
  BY DEF PlaceAfter, TypeOK
<1>4. Pending' = rest /\ Added' = Added
  <2>1. Pending' = rest
    BY <1>1, <1>3 DEF Pending
  <2>2. Added' = Added
    BY <1>1, <1>3 DEF Added, PlaceAfter
  <2> QED BY <2>1, <2>2, Zenon
<1>5. Batch(t)' = B /\ \A u \in Threads : u # t => Batch(u)' = Batch(u)
  <2>1. ~Delivers(t) => Batch(t) = {}
    BY DEF PlacesOk, Delivers, Enters
  <2>2. Batch(t)' = B
    BY <1>3, <2>1 DEF Batch, PlaceAfter
  <2>3. ASSUME NEW u \in Threads, u # t PROVE Batch(u)' = Batch(u)
    BY <1>1, <1>3, <2>3 DEF Batch, PlaceAfter
  <2> QED BY <2>2, <2>3
<1>6. /\ pc'[t] = "working"
      /\ \A u \in Threads : u # t => pc'[u] = pc[u]
      /\ pc' \in [Threads -> {"free", "adding", "first", "asleep", "woken", "working",
                              "finished", "gone"}]
  BY <1>2, NotifyType DEF Threads
<1>7. fOk'[t] = AllOkAfter(t) /\ \A u \in Threads : u # t => fOk'[u] = fOk[u]
  BY DEF TypeOK
<1>8. AllOkAfter(t) \in BOOLEAN
  BY DEF AllOkAfter, TypeOK
<1>9. TypeOK /\ CountsExact /\ PlacesOk /\ MasterOk /\ VerdictExact
      /\ FailuresReal /\ FailuresNoted
  OBVIOUS
<1>10. /\ fAllOk' = AllOkAfter(t) /\ Enters(t)
       /\ nTodo' = TodoAfter(t) /\ nTotal' = TotalAfter(t) /\ nIdle' = IdleAfter(t)
       /\ bad' = bad /\ verdict' = verdict /\ left' = left
       /\ fOk' \in [Threads -> BOOLEAN] /\ Cardinality(B) = nNow(t) /\ Queue # {}
  BY <1>8 DEF TypeOK
<1> HIDE DEF IInv, Fetch, rest
<1>11. TypeOK'
  <2>1. nTodo' \in Nat /\ nIdle' \in Nat /\ nTotal' \in Nat
    BY <1>9, <1>10, TodoCounts, IdleCounts, Zenon
  <2>2. \A u \in Threads : pc'[u] \in {"working", "finished"} =>
            Cardinality(Batch(u)') \in 1 .. nBatchSize
    BY <1>5, <1>6, <1>9, <1>10, BatchSize DEF TypeOK
  <2>3. fAllOk' \in BOOLEAN /\ fOk' \in [Threads -> BOOLEAN]
    BY <1>8, <1>10
  <2> QED BY <1>3, <1>6, <1>9, <1>10, <2>1, <2>2, <2>3 DEF TypeOK
<1>12. CountsExact'
  <2>1. Idlers' = Idlers \ {t} /\ Loopers' = Loopers \union {t}
    BY <1>6 DEF Idlers, Loopers
  <2>2. nTodo' = Cardinality(Pending')
    BY <1>4, <1>9, <1>10, TodoCounts DEF rest
  <2>3. /\ nIdle' = Cardinality(Idlers') + Cardinality(left')
        /\ nTotal' = Cardinality(Loopers') + Cardinality(left')
    BY <1>9, <1>10, <2>1, IdleCounts, Zenon
  <2> QED BY <2>2, <2>3 DEF CountsExact, Idlers, Loopers
<1>13. PlacesOk'
  BY <1>5, <1>6, <1>9, <1>10 DEF PlacesOk, Threads
<1>14. MasterOk' /\ VerdictExact'
  BY <1>2, <1>4, <1>6, <1>9, <1>10 DEF MasterOk, VerdictExact, Enters, Threads
<1>15. FailuresReal'
  BY <1>4, <1>6, <1>7, <1>9, <1>10, CleanUpVerdict DEF FailuresReal
<1>16. FailuresNoted'
  <2>1. ASSUME NEW c \in bad, place'[c] = "over" PROVE ~fAllOk'
    BY <1>2, <1>3, <1>9, <1>10, <2>1, CleanUpVerdict DEF TypeOK, Threads
  <2>2. ASSUME NEW u \in Threads, NEW c \in bad, place'[c] = u, pc'[u] = "finished"
        PROVE  ~fOk'[u]
    <3>1. u # t /\ pc[u] = "finished" /\ fOk'[u] = fOk[u]
      BY <1>6, <1>7, <2>2
    <3>2. place[c] = u
      BY <1>1, <1>3, <1>9, <2>2, <3>1 DEF PlaceAfter, TypeOK
    <3> QED BY <1>9, <2>2, <3>1, <3>2 DEF FailuresNoted
  <2> QED BY <1>10, <2>1, <2>2 DEF FailuresNoted
<1> QED BY <1>11, <1>12, <1>13, <1>14, <1>15, <1>16 DEF IInv

(* A thread that goes to sleep has nothing left; if it is the master, or   *)
(* if the master stays asleep, something is still pending.                 *)
LEMMA SleepInv ==
    ASSUME IInv, NEW t \in Threads, Sleep(t)
    PROVE  IInv'
<1> USE QueueAssumption DEF IInv, Sleep
<1> DEFINE rest == {c \in Checks : PlaceAfter(t)[c] \notin {"unknown", "over"}}
<1>1. /\ place' \in [Checks -> {"unknown", "queue", "over"} \union Threads]
      /\ \A c \in Checks : place'[c] = PlaceAfter(t)[c]
  BY DEF PlaceAfter, TypeOK
<1>2. Pending' = rest /\ Added' = Added /\ Queue' = Queue
  BY <1>1 DEF Pending, Added, Queue, PlaceAfter
<1>3. Batch(t)' = {} /\ \A u \in Threads : u # t => Batch(u)' = Batch(u)
  <2>1. ~Delivers(t) => Batch(t) = {}
    BY DEF PlacesOk, Delivers, Enters
  <2> QED BY <1>1, <2>1 DEF Batch, PlaceAfter
<1>4. /\ pc'[t] = "asleep"
      /\ \A u \in Threads : u # t => pc'[u] = NotifyMaster(t)[u]
      /\ pc' \in [Threads -> {"free", "adding", "first", "asleep", "woken", "working",
                              "finished", "gone"}]
  BY NotifyType
<1>5. \A u \in Threads : u # t =>
        pc'[u] = pc[u] \/ (u = Master /\ pc[u] = "asleep" /\ pc'[u] = "woken")
  BY <1>4, NotifyType
<1>6. TypeOK /\ CountsExact /\ PlacesOk /\ MasterOk /\ VerdictExact
      /\ FailuresReal /\ FailuresNoted
  OBVIOUS
<1>7. /\ Enters(t) /\ Queue = {} /\ ~MayReturn(t) /\ fAllOk' = AllOkAfter(t)
      /\ nTodo' = TodoAfter(t) /\ nTotal' = TotalAfter(t) /\ nIdle' = IdleAfter(t) + 1
      /\ bad' = bad /\ fOk' = fOk /\ verdict' = verdict /\ left' = left
  OBVIOUS
<1> HIDE DEF IInv, Sleep, rest
<1>8. TypeOK'
  <2>1. TodoAfter(t) \in Nat /\ IdleAfter(t) \in Nat /\ TotalAfter(t) \in Nat
    BY <1>6, <1>7, TodoCounts, IdleCounts, Zenon
  <2>2. nTodo' \in Nat /\ nIdle' \in Nat /\ nTotal' \in Nat
    BY <1>7, <2>1
  <2>3. \A u \in Threads : pc'[u] \in {"working", "finished"} =>
            Cardinality(Batch(u)') \in 1 .. nBatchSize
    BY <1>3, <1>4, <1>5, <1>6 DEF TypeOK
  <2>4. fAllOk' \in BOOLEAN
    BY <1>6, <1>7 DEF AllOkAfter, TypeOK
  <2> QED BY <1>1, <1>4, <1>6, <1>7, <2>2, <2>3, <2>4 DEF TypeOK
<1>9. CountsExact'
  <2>1. Idlers' = (Idlers \ {t}) \union {t} /\ Loopers' = Loopers \union {t}
    BY <1>4, <1>5, <1>7 DEF Idlers, Loopers, Enters
  <2>2. Cardinality((Idlers \ {t}) \union {t}) = Cardinality(Idlers \ {t}) + 1
    <3>1. IsFiniteSet(Idlers \ {t})
      BY ThreadsFinite, FS_Subset DEF Idlers
    <3> QED BY <3>1, FS_AddElement, Zenon
  <2>3. nTodo' = Cardinality(Pending')
    BY <1>2, <1>6, <1>7, TodoCounts DEF rest
  <2>4. Cardinality(Idlers \ {t}) \in Nat /\ Cardinality(left) \in Nat
    BY <1>6, ThreadsFinite, FS_Subset, FS_CardinalityType DEF Idlers, TypeOK
  <2>5. nIdle' = Cardinality(Idlers') + Cardinality(left')
    <3>1. IdleAfter(t) = Cardinality(Idlers \ {t}) + Cardinality(left)
      BY <1>6, <1>7, IdleCounts, Zenon
    <3> QED BY <1>7, <2>1, <2>2, <2>4, <3>1
  <2>6. nTotal' = Cardinality(Loopers') + Cardinality(left')
    BY <1>6, <1>7, <2>1, IdleCounts, Zenon
  <2> QED BY <2>3, <2>5, <2>6 DEF CountsExact, Idlers, Loopers
<1>10. PlacesOk'
  BY <1>3, <1>4, <1>5, <1>6 DEF PlacesOk, Threads
<1>11. MasterOk'
  <2>1. ASSUME pc'[Master] = "asleep" PROVE Queue' = {} /\ Pending' # {}
    <3>1. CASE t = Master
      BY <1>2, <1>6, <1>7, <3>1, TodoCounts, Zenon DEF MayReturn, rest
    <3>2. CASE t # Master /\ Delivers(t)
      <4>1. TodoAfter(t) # 0
        BY <1>4, <1>6, <2>1, <3>2, NotifyType DEF Threads
      <4> QED BY <1>2, <1>6, <1>7, <4>1, TodoCounts, Zenon DEF rest
    <3>3. CASE t # Master /\ ~Delivers(t)
      <4>1. pc[Master] = "asleep"
        BY <1>5, <2>1, <3>3 DEF Threads
      <4>2. rest = Pending
        BY <1>6, <3>3 DEF PlaceAfter, Pending, TypeOK, rest
      <4> QED BY <1>2, <1>6, <1>7, <4>1, <4>2 DEF MasterOk
    <3> QED BY <3>1, <3>2, <3>3
  <2>2. pc'[Master] = "free" <=> pc[Master] = "free"
    BY <1>4, <1>5, <1>7 DEF Enters, Threads
  <2>3. ASSUME pc[Master] = "free" PROVE Pending' = {} /\ fAllOk'
    <3>1. ~Delivers(t)
      BY <1>7, <2>3, CleanUpVerdict
    <3>2. rest = Pending
      BY <1>6, <3>1 DEF PlaceAfter, Pending, TypeOK, rest
    <3> QED BY <1>2, <1>6, <1>7, <2>3, <3>1, <3>2, Zenon DEF MasterOk, AllOkAfter
  <2> QED BY <1>6, <1>7, <2>1, <2>2, <2>3 DEF MasterOk
<1>12. VerdictExact'
  BY <1>2, <1>6, <1>7 DEF VerdictExact
<1>13. FailuresReal'
  BY <1>2, <1>4, <1>5, <1>6, <1>7, CleanUpVerdict DEF FailuresReal
<1>14. FailuresNoted'
  <2>1. ASSUME pc'[Master] # "free", NEW c \in bad, place'[c] = "over" PROVE ~fAllOk'
    <3>1. pc[Master] # "free"
      BY <1>4, <1>5, <1>7, <2>1, Zenon DEF Enters, Threads
    <3>2. PlaceAfter(t)[c] = "over"
      BY <1>1, <1>6, <2>1 DEF TypeOK
    <3> QED BY <1>7, <3>1, <3>2, CleanUpVerdict, Zenon
  <2>2. ASSUME NEW u \in Threads, NEW c \in bad, place'[c] = u, pc'[u] = "finished"
        PROVE  ~fOk'[u]
    <3>1. u # t /\ pc[u] = "finished"
      BY <1>4, <1>5, <2>2
    <3>2. place[c] = u
      BY <1>1, <1>6, <2>2, <3>1 DEF PlaceAfter, TypeOK
    <3> QED BY <1>6, <1>7, <2>2, <3>1, <3>2 DEF FailuresNoted
  <2> QED BY <1>7, <2>1, <2>2 DEF FailuresNoted
<1> QED BY <1>8, <1>9, <1>10, <1>11, <1>12, <1>13, <1>14 DEF IInv

(* The master returns with everything over.                                *)
LEMMA ReturnInv ==
    ASSUME IInv, Return
    PROVE  IInv'
<1> USE QueueAssumption DEF IInv, Return
<1> DEFINE t == Master
           rest == {c \in Checks : PlaceAfter(t)[c] \notin {"unknown", "over"}}
<1>1. t \in Threads /\ pc[t] # "free"
  BY Zenon DEF Threads, Enters
<1>2. /\ place' \in [Checks -> {"unknown", "queue", "over"} \union Threads]
      /\ \A c \in Checks : place'[c] = PlaceAfter(t)[c]
  BY DEF PlaceAfter, TypeOK
<1>3. Pending' = {} /\ Added' = Added
  <2>1. rest = {}
    BY <1>1, TodoCounts, Zenon DEF MayReturn
  <2>2. Pending' = rest
    BY <1>2 DEF Pending
  <2>3. Added' = Added
    BY <1>1, <1>2 DEF Added, PlaceAfter
  <2> QED BY <2>1, <2>2, <2>3
<1>4. \A u \in Threads : Batch(u)' = {}
  BY <1>3 DEF Batch, Pending
<1>5. \A u \in Workers : pc[u] \notin {"working", "finished"}
  <2>1. \A u \in Workers : Batch(u) = {}
    BY <1>2, <1>4 DEF Batch, PlaceAfter, Threads
  <2>2. Cardinality({}) = 0 /\ 0 \notin 1 .. nBatchSize
    BY FS_EmptySet
  <2> QED BY <2>1, <2>2, Zenon DEF TypeOK, Threads
<1>6. pc'[t] = "free" /\ \A u \in Threads : u # t => pc'[u] = pc[u]
  BY DEF TypeOK, Threads
<1>7. TotalAfter(t) = Cardinality(Loopers \union {t}) + Cardinality(left)
      /\ IdleAfter(t) = Cardinality(Idlers \ {t}) + Cardinality(left)
      /\ IdleAfter(t) \in Nat /\ TotalAfter(t) \in Nat
  BY <1>1, IdleCounts, Zenon
<1>8. /\ Cardinality(Loopers \union {t}) = Cardinality(Loopers \ {t}) + 1
      /\ Cardinality(Loopers \ {t}) \in Nat /\ Cardinality(left) \in Nat
  <2>1. IsFiniteSet(Loopers \ {t}) /\ IsFiniteSet(left)
    BY ThreadsFinite, FS_Subset DEF Loopers, TypeOK
  <2>2. Loopers \union {t} = (Loopers \ {t}) \union {t}
    OBVIOUS
  <2>3. Cardinality((Loopers \ {t}) \union {t}) = Cardinality(Loopers \ {t}) + 1
    BY <2>1, FS_AddElement, Zenon
  <2> QED BY <2>1, <2>2, <2>3, FS_CardinalityType, Zenon
<1>9. nTotal' = Cardinality(Loopers \ {t}) + Cardinality(left)
  BY <1>7, <1>8
<1>10. nTodo' = 0
  BY DEF MayReturn
<1>11. TypeOK'
  <2>1. nTotal' \in Nat /\ nIdle' \in Nat /\ nTodo' \in Nat
    BY <1>7, <1>8, <1>9, <1>10
  <2>2. \A u \in Threads : pc'[u] \notin {"working", "finished"}
    BY <1>5, <1>6 DEF Threads
  <2> QED BY <1>2, <2>1, <2>2, Zenon DEF TypeOK
<1>12. CountsExact'
  <2>1. Idlers' = Idlers \ {t} /\ Loopers' = Loopers \ {t}
    BY <1>6 DEF Idlers, Loopers
  <2> QED BY <1>3, <1>7, <1>9, <1>10, <2>1, FS_EmptySet, Zenon DEF CountsExact, Idlers, Loopers
<1>13. PlacesOk' /\ MasterOk'
  BY <1>3, <1>4, <1>6 DEF PlacesOk, MasterOk, Threads
<1>14. FailuresReal' /\ FailuresNoted'
  <2>1. \A u \in Threads : pc'[u] \notin {"working", "finished"}
    BY <1>5, <1>6 DEF Threads
  <2> QED BY <1>6, <2>1, Zenon DEF FailuresReal, FailuresNoted
<1>15. VerdictExact'
  <2>1. ~AllOkAfter(t) => Added \intersect bad # {}
    BY <1>1, CleanUpVerdict
  <2>2. ASSUME NEW c \in Added \intersect bad PROVE ~AllOkAfter(t)
    <3>1. PlaceAfter(t)[c] = "over"
      BY <1>2, <1>3, <2>2 DEF Pending, Added, PlaceAfter
    <3> QED BY <1>1, <2>2, <3>1, CleanUpVerdict
  <2> QED BY <1>3, <2>1, <2>2 DEF VerdictExact
<1> QED BY <1>11, <1>12, <1>13, <1>14, <1>15

-----------------------------------------------------------------------------
LEMMA StepInv == IInv /\ [Next]_vars => IInv'
<1> SUFFICES ASSUME IInv, [Next]_vars PROVE IInv'
  OBVIOUS
<1>1. CASE \E b \in SUBSET Checks : NewControl(b) BY <1>1, NewControlInv
<1>2. CASE \E S \in SUBSET Checks, woken \in SUBSET Workers : Add(S, woken) BY <1>2, AddInv
<1>3. CASE Wait BY <1>3, WaitInv
<1>4. CASE Return BY <1>4, ReturnInv
<1>5. CASE \E t \in Threads : Sleep(t) BY <1>5, SleepInv
<1>6. CASE \E t \in Threads : Execute(t) BY <1>6, ExecuteInv
<1>7. CASE \E t \in Threads, B \in SUBSET Checks : Fetch(t, B)
  BY <1>7, FetchInv, Zenon
<1>8. CASE \E t \in Threads : SpuriousWake(t) BY <1>8, SpuriousWakeInv
<1>9. CASE \E t \in Threads : Interrupt(t) BY <1>9, InterruptInv
<1>10. CASE UNCHANGED vars
  BY <1>10 DEF vars, IInv, TypeOK, CountsExact, PlacesOk, FailuresReal, FailuresNoted,
       MasterOk, VerdictExact, Queue, Batch, Pending, Added
<1> QED
  BY <1>1, <1>2, <1>3, <1>4, <1>5, <1>6, <1>7, <1>8, <1>9, <1>10 DEF Next, Step

LEMMA Invariance == Spec => []IInv
BY InitInv, StepInv, PTL DEF Spec

(* The state keeps its types; no batch is empty or above nBatchSize.       *)
THEOREM TypeCorrect == Spec => []TypeOK
<1>1. IInv => TypeOK BY DEF IInv
<1> QED BY <1>1, Invariance, PTL

(* nTodo, nIdle and nTotal count what checkqueue.h says they count, and    *)
(* nTodo never underflows.                                                 *)
THEOREM CountsAlwaysExact == Spec => []CountsExact
<1>1. IInv => CountsExact BY DEF IInv
<1> QED BY <1>1, Invariance, PTL

(* Wait returns true exactly when no check of the block failed.            *)
THEOREM VerdictAlwaysExact == Spec => []VerdictExact
<1>1. IInv => VerdictExact BY DEF IInv
<1> QED BY <1>1, Invariance, PTL

(* When the control is gone the queue is finished and clean.               *)
THEOREM AlwaysFinished == Spec => []FinishedBeforeContinuing
<1>1. IInv => FinishedBeforeContinuing
  BY FS_EmptySet DEF IInv, MasterOk, CountsExact, FinishedBeforeContinuing
<1> QED BY <1>1, Invariance, PTL

(* A sleeping master has a worker that will wake it.                       *)
THEOREM NeverStranded == Spec => []MasterNotStranded
<1>1. ASSUME IInv, pc[Master] = "asleep"
      PROVE  \E t \in Workers : pc[t] \in {"working", "finished"} /\ Batch(t) # {}
  <2>1. PICK c \in Pending : place[c] # "queue"
    BY <1>1 DEF IInv, MasterOk, Queue, Pending
  <2>2. place[c] \in Threads /\ c \in Batch(place[c])
    BY <1>1, <2>1 DEF IInv, TypeOK, Pending, Batch
  <2>3. pc[place[c]] \in {"working", "finished"}
    BY <1>1, <2>2 DEF IInv, PlacesOk
  <2>4. place[c] \in Workers
    BY <1>1, <2>2, <2>3 DEF Threads
  <2> QED BY <2>2, <2>3, <2>4
<1>2. IInv => MasterNotStranded
  BY <1>1 DEF MasterNotStranded
<1> QED BY <1>2, Invariance, PTL
=============================================================================
