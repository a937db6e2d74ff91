----------------------------- MODULE CheckQueue -----------------------------
(***************************************************************************)
(* CCheckQueue and CCheckQueueControl (src/src/checkqueue.h): the master,  *)
(* which is the thread in ConnectBlock, adds the script checks of a block; *)
(* the workers take them in batches; at the end the master works with      *)
(* them, waits for the last batch and takes the verdict.                   *)
(*                                                                         *)
(* One action is one critical section of the mutex.  A thread that waits   *)
(* on a condition variable is "asleep" until it is notified or wakes by    *)
(* itself; then it is "woken" and has to take the mutex again.  A check is *)
(* its number in the block, with a result; the queue is a stack of them.   *)
(***************************************************************************)
EXTENDS FiniteSets, Integers

CONSTANTS
    Workers,      \* threads in Thread()
    Master,       \* the thread that owns the CCheckQueueControl
    Checks,       \* the checks of a block, numbered as they are added
    nBatchSize

Threads == Workers \union {Master}

ASSUME QueueAssumption ==
    /\ IsFiniteSet(Workers) /\ Master \notin Workers
    /\ IsFiniteSet(Checks)
    /\ Threads \intersect {"unknown", "queue", "over"} = {}
    /\ nBatchSize \in Nat \ {0}

ASSUME CheckNumbers == Checks \subseteq Nat

VARIABLES
    place,        \* of each check: "unknown", in the "queue", in a thread's batch, "over"
    bad,          \* the checks of this block that fail
    nTodo, nIdle, nTotal, fAllOk,
    pc,           \* where each thread is
    fOk,          \* of each thread
    verdict,      \* what Wait returned for this block
    left          \* threads that an interruption took out of cond.wait

vars == <<place, bad, nTodo, nIdle, nTotal, fAllOk, pc, fOk, verdict, left>>

Queue == {c \in Checks : place[c] = "queue"}
Batch(t) == {c \in Checks : place[c] = t}
Pending == {c \in Checks : place[c] \notin {"unknown", "over"}}
Added == {c \in Checks : place[c] # "unknown"}

(* S holds the first checks of R.                                          *)
First(S, R) == \A c \in S, d \in R \ S : c < d

Init ==
    /\ place = [c \in Checks |-> "unknown"]
    /\ bad = {}
    /\ nTodo = 0 /\ nIdle = 0 /\ nTotal = 0 /\ fAllOk = TRUE
    /\ pc = [t \in Threads |-> IF t = Master THEN "free" ELSE "first"]
    /\ fOk = [t \in Threads |-> TRUE]
    /\ verdict = "none" /\ left = {}

-----------------------------------------------------------------------------
(* The master outside Loop.                                                *)

(* ConnectBlock makes a CCheckQueueControl; its checks have their results. *)
NewControl(b) ==
    /\ pc[Master] = "free"
    /\ pc' = [pc EXCEPT ![Master] = "adding"]
    /\ place' = [c \in Checks |-> "unknown"]
    /\ bad' = b
    /\ verdict' = "none"
    /\ UNCHANGED <<nTodo, nIdle, nTotal, fAllOk, fOk, left>>

Asleep == {t \in Workers : pc[t] = "asleep"}

(* condWorker.notify_one for one check, notify_all for more.               *)
WakesWorkers(S, woken) ==
    IF Cardinality(S) = 1 /\ Asleep # {} THEN \E t \in Asleep : woken = {t}
                                         ELSE woken = Asleep

Add(S, woken) ==
    /\ pc[Master] = "adding"
    /\ S # {} /\ S \intersect Added = {} /\ First(S, Checks \ Added)
    /\ place' = [c \in Checks |-> IF c \in S THEN "queue" ELSE place[c]]
    /\ nTodo' = nTodo + Cardinality(S)
    /\ WakesWorkers(S, woken)
    /\ pc' = [t \in Threads |-> IF t \in woken THEN "woken" ELSE pc[t]]
    /\ UNCHANGED <<bad, nIdle, nTotal, fAllOk, fOk, verdict, left>>

(* control.Wait(), or the destructor when ConnectBlock returned early.     *)
Wait ==
    /\ pc[Master] = "adding"
    /\ pc' = [pc EXCEPT ![Master] = "first"]
    /\ UNCHANGED <<place, bad, nTodo, nIdle, nTotal, fAllOk, fOk, verdict, left>>

-----------------------------------------------------------------------------
(* Loop.  A thread takes the mutex to begin, after waiting, or to deliver  *)
(* a batch; the clean-up and the next decision are one critical section.   *)

(* Mutant: a worker that met a failing check does not come back.           *)
EntersPassing(t) ==
    pc[t] \in {"first", "woken"} \/ (pc[t] = "finished" /\ (fOk[t] \/ t = Master))

Enters(t) == pc[t] \in {"first", "woken", "finished"}
Delivers(t) == pc[t] = "finished"

(* Mutant: the last batch decides.                                         *)
AllOkLast(t) == IF Delivers(t) THEN fOk[t] ELSE fAllOk

AllOkAfter(t) == fAllOk /\ (Delivers(t) => fOk[t])

(* Mutant: one element less, whatever the batch was.                       *)
TodoLessOne(t) == IF Delivers(t) THEN nTodo - 1 ELSE nTodo

TodoAfter(t) == IF Delivers(t) THEN nTodo - Cardinality(Batch(t)) ELSE nTodo

TotalAfter(t) == IF pc[t] = "first" THEN nTotal + 1 ELSE nTotal

IdleAfter(t) == IF pc[t] = "woken" THEN nIdle - 1 ELSE nIdle

PlaceAfter(t) ==
    [c \in Checks |-> IF Delivers(t) /\ place[c] = t THEN "over" ELSE place[c]]

(* Mutant: nobody tells the master.                                        *)
NotifyNobody(t) == pc

(* condMaster.notify_one with the last element done.                       *)
NotifyMaster(t) ==
    IF Delivers(t) /\ TodoAfter(t) = 0 /\ t # Master /\ pc[Master] = "asleep"
    THEN [pc EXCEPT ![Master] = "woken"]
    ELSE pc

(* Mutant: a share may be nothing.                                         *)
NowShare(t) ==
    LET share == Cardinality(Queue) \div (TotalAfter(t) + IdleAfter(t) + 1)
    IN  IF share < nBatchSize THEN share ELSE nBatchSize

nNow(t) ==
    LET share == Cardinality(Queue) \div (TotalAfter(t) + IdleAfter(t) + 1)
        small == IF share < nBatchSize THEN share ELSE nBatchSize
    IN  IF small = 0 THEN 1 ELSE small

(* The batch comes from the back of the queue.                             *)
Fetch(t, B) ==
    /\ Enters(t) /\ Queue # {}
    /\ B \subseteq Queue /\ Cardinality(B) = nNow(t) /\ First(Queue \ B, Queue)
    /\ place' = [c \in Checks |-> IF c \in B THEN t ELSE PlaceAfter(t)[c]]
    /\ fOk' = [fOk EXCEPT ![t] = AllOkAfter(t)]
    /\ fAllOk' = AllOkAfter(t)
    /\ nTodo' = TodoAfter(t) /\ nTotal' = TotalAfter(t) /\ nIdle' = IdleAfter(t)
    /\ pc' = [NotifyMaster(t) EXCEPT ![t] = "working"]
    /\ UNCHANGED <<bad, verdict, left>>

(* Mutant: the master leaves as soon as the queue is empty.                *)
LeavesEmpty(t) == t = Master

MayReturn(t) == t = Master /\ TodoAfter(t) = 0

Sleep(t) ==
    /\ Enters(t) /\ Queue = {} /\ ~MayReturn(t)
    /\ place' = PlaceAfter(t)
    /\ fAllOk' = AllOkAfter(t)
    /\ nTodo' = TodoAfter(t) /\ nTotal' = TotalAfter(t) /\ nIdle' = IdleAfter(t) + 1
    /\ pc' = [NotifyMaster(t) EXCEPT ![t] = "asleep"]
    /\ UNCHANGED <<bad, fOk, verdict, left>>

(* The end of Wait and of the control.                                     *)
Return ==
    /\ Enters(Master) /\ Queue = {} /\ MayReturn(Master)
    /\ place' = PlaceAfter(Master)
    /\ verdict' = IF AllOkAfter(Master) THEN "ok" ELSE "failed"
    /\ fAllOk' = TRUE
    /\ nTodo' = TodoAfter(Master)
    /\ nTotal' = TotalAfter(Master) - 1 /\ nIdle' = IdleAfter(Master)
    /\ pc' = [pc EXCEPT ![Master] = "free"]
    /\ UNCHANGED <<bad, fOk, left>>

(* The checks of the batch, until one fails; outside the mutex.            *)
Execute(t) ==
    /\ pc[t] = "working"
    /\ pc' = [pc EXCEPT ![t] = "finished"]
    /\ fOk' = [fOk EXCEPT ![t] = @ /\ Batch(t) \intersect bad = {}]
    /\ UNCHANGED <<place, bad, nTodo, nIdle, nTotal, fAllOk, verdict, left>>

(* A condition variable may return without a notification.                 *)
SpuriousWake(t) ==
    /\ pc[t] = "asleep"
    /\ pc' = [pc EXCEPT ![t] = "woken"]
    /\ UNCHANGED <<place, bad, nTodo, nIdle, nTotal, fAllOk, fOk, verdict, left>>

(* threadGroup.interrupt_all(): cond.wait throws, and nIdle and nTotal are *)
(* not taken back.  A worker ends; a master (ThreadImport is in the group) *)
(* leaves ConnectBlock, and its control's destructor calls Wait again.     *)
Interrupt(t) ==
    /\ pc[t] \in {"asleep", "woken"} /\ t \notin left
    /\ left' = left \union {t}
    /\ pc' = [pc EXCEPT ![t] = IF t = Master THEN "first" ELSE "gone"]
    /\ UNCHANGED <<place, bad, nTodo, nIdle, nTotal, fAllOk, fOk, verdict>>

Step(t) == Sleep(t) \/ Execute(t) \/ \E B \in SUBSET Checks : Fetch(t, B)

Next ==
    \/ \E b \in SUBSET Checks : NewControl(b)
    \/ \E S \in SUBSET Checks, woken \in SUBSET Workers : Add(S, woken)
    \/ Wait \/ Return
    \/ \E t \in Threads : Step(t) \/ SpuriousWake(t) \/ Interrupt(t)

Spec == Init /\ [][Next]_vars

(* Every thread that can go on does.                                       *)
FairSpec == Spec /\ WF_vars(Return) /\ \A t \in Threads : WF_vars(Step(t))

-----------------------------------------------------------------------------
(* The state has its types; a batch is neither empty nor above nBatchSize. *)
TypeOK ==
    /\ place \in [Checks -> {"unknown", "queue", "over"} \union Threads]
    /\ bad \subseteq Checks
    /\ nTodo \in Nat /\ nIdle \in Nat /\ nTotal \in Nat
    /\ fAllOk \in BOOLEAN /\ fOk \in [Threads -> BOOLEAN]
    /\ verdict \in {"none", "ok", "failed"} /\ left \subseteq Threads
    /\ pc \in [Threads -> {"free", "adding", "first", "asleep", "woken", "working",
                           "finished", "gone"}]
    /\ \A t \in Threads : pc[t] \in {"working", "finished"} =>
        Cardinality(Batch(t)) \in 1 .. nBatchSize

(* nTodo is the "number of verifications that haven't completed yet",      *)
(* "including elements no longer queued, but still in the worker's own     *)
(* batches"; nIdle counts the idle threads and nTotal those in Loop, and   *)
(* each interruption leaves one too many in both.                          *)
CountsExact ==
    /\ nTodo = Cardinality(Pending)
    /\ nIdle = Cardinality({t \in Threads : pc[t] \in {"asleep", "woken"}}) + Cardinality(left)
    /\ nTotal = Cardinality({t \in Threads : pc[t] \notin {"free", "adding", "first", "gone"}})
                + Cardinality(left)

(* Wait tells "whether all evaluations were successful": of this block's   *)
(* checks, not of an earlier block's, whoever evaluated or skipped them.   *)
VerdictExact == verdict # "none" => (verdict = "ok" <=> Added \intersect bad = {})

(* The control "guarantees the passed queue is finished before             *)
(* continuing": no check runs after it is gone, and the next one starts    *)
(* clean.                                                                  *)
FinishedBeforeContinuing ==
    pc[Master] = "free" => Pending = {} /\ nTodo = 0 /\ fAllOk

(* While the master sleeps, some worker is at work on this block and will  *)
(* come back to wake it: the notification cannot be lost.                  *)
MasterNotStranded ==
    pc[Master] = "asleep" =>
        \E t \in Workers : pc[t] \in {"working", "finished"} /\ Batch(t) # {}

(* Wait returns, even when workers are interrupted meanwhile.              *)
WaitReturns == pc[Master] = "first" ~> pc[Master] = "free"
=============================================================================
