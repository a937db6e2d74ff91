------------------------------ MODULE ChainState ------------------------------
(***************************************************************************)
(* CChainState (src/src/validation.cpp): the tree of block headers, the    *)
(* structures that say which of them may become the tip, and the loop that *)
(* moves the active chain there.                                           *)
(*                                                                         *)
(* cs_main is held by every action but released between the rounds of      *)
(* ActivateBestChain; m_cs_chainstate lets one activation run at a time.   *)
(* Blocks come from a fixed tree; what the consensus rules say of each is  *)
(* its verdict.  pindexBestHeader, pindexBestInvalid and the fork warnings *)
(* are outputs nothing here reads, and the mempool is a part of its own:   *)
(* neither is modelled.                                                    *)
(***************************************************************************)
EXTENDS Integers, FiniteSets

CONSTANTS
    Blocks,        \* every block that may ever be announced
    Genesis,
    Parent,        \* pprev
    Chain,         \* Chain[b]: b and its ancestors (GetAncestor)
    Work,          \* nChainWork
    Addr,          \* addresses of the CBlockIndex objects, the last tie-breaker
    Verdicts,      \* the assignments of verdicts that are explored
    Keep,          \* MIN_BLOCKS_TO_KEEP
    MinimumWork,   \* nMinimumChainWork
    MaxCalls,      \* bounds on the calls of each operation an operator may ask for
    RpcInterleaves,\* an operator's call may come between two rounds of an activation
    NoBlock        \* nullptr

(* "good": passes; "context": fails ContextualCheckBlock; "connect": fails *)
(* ConnectBlock on a consensus rule.                                       *)
Verdict == {"good", "context", "connect"}
Operations == {"invalidate", "reconsider", "precious", "prune", "shutdown"}

ASSUME TreeAssumption ==
    /\ IsFiniteSet(Blocks) /\ Genesis \in Blocks /\ NoBlock \notin Blocks
    /\ Parent \in [Blocks \ {Genesis} -> Blocks]
    /\ Chain \in [Blocks -> SUBSET Blocks]
    /\ Chain[Genesis] = {Genesis}
    /\ \A b \in Blocks \ {Genesis} :
        b \notin Chain[Parent[b]] /\ Chain[b] = Chain[Parent[b]] \union {b}
    /\ \A b \in Blocks : \A a \in Chain[b] : Chain[a] \subseteq Chain[b]
    /\ Work \in [Blocks -> Nat] /\ Addr \in [Blocks -> Nat]
    /\ \A b \in Blocks \ {Genesis} : Work[Parent[b]] < Work[b]
    /\ \A a, b \in Blocks : Addr[a] = Addr[b] => a = b
    /\ Verdicts \subseteq [Blocks -> Verdict]
    /\ \A v \in Verdicts : v[Genesis] = "good"
    /\ Keep \in Nat /\ MinimumWork \in Nat
    /\ MaxCalls \subseteq [Operations -> Nat]
    /\ RpcInterleaves \in BOOLEAN

UNKNOWN == 0            \* the validity levels of BlockStatus
VALID_TREE == 2
VALID_TRANSACTIONS == 3
VALID_SCRIPTS == 5

VARIABLES
    verdict,       \* what the consensus rules say of each block
    known,         \* mapBlockIndex
    level,         \* nStatus & BLOCK_VALID_MASK
    data, undo,    \* BLOCK_HAVE_DATA, BLOCK_HAVE_UNDO
    received,      \* nTx # 0
    linked,        \* nChainTx # 0
    failedValid,   \* BLOCK_FAILED_VALID
    failedChild,   \* BLOCK_FAILED_CHILD
    failedBlocks,  \* m_failed_blocks
    seq, nextSeq,  \* nSequenceId, nBlockSequenceId
    reverseSeq,    \* nBlockReverseSequenceId
    lastPrecious,  \* nLastPreciousChainwork
    candidates,    \* setBlockIndexCandidates
    unlinked,      \* mapBlocksUnlinked: b stands for the pair (pprev of b, b)
    havePruned,    \* fHavePruned
    tip,           \* chainActive.Tip()
    abc,           \* where ActivateBestChain is
    mostWork,      \* pindexMostWork
    startTip,      \* starting_tip
    oldTip,        \* pindexOldTip
    progressed,    \* blocks_connected
    pending,       \* a caller waits to run ActivateBestChain
    calls          \* calls made so far, operation by operation

index == <<known, level, data, undo, received, linked, failedValid, failedChild,
           failedBlocks, havePruned>>
order == <<seq, nextSeq, reverseSeq, lastPrecious>>
loop == <<mostWork, startTip, oldTip, progressed>>
vars == <<verdict, index, order, candidates, unlinked, tip, abc, loop, pending, calls>>

-----------------------------------------------------------------------------
Height(b) == Cardinality(Chain[b]) - 1
Failed == failedValid \union failedChild

(* CBlockIndexWorkComparator: a sorts before b.                            *)
Worse(s, a, b) ==
    \/ Work[a] < Work[b]
    \/ Work[a] = Work[b] /\ s[a] > s[b]
    \/ Work[a] = Work[b] /\ s[a] = s[b] /\ Addr[a] > Addr[b]

IsValid(b, l) == b \notin Failed /\ level[b] >= l

RaiseValidity(b, l) ==
    IF b \in Failed \/ level[b] >= l THEN level ELSE [level EXCEPT ![b] = l]

(* Mutant: nothing is deleted.                                             *)
PruneNothing(c, s, t) == c

(* Mutant: the blocks as good as the tip are deleted as well.              *)
PruneTipToo(c, s, t) == {b \in c : Worse(s, t, b)}

PruneBlockIndexCandidates(c, s, t) == {b \in c : ~Worse(s, b, t)}

(* cs_main is free for the other callers.                                  *)
LockFree == abc \in {"idle", "yield"}

(* An operator's call finds cs_main free.                                  *)
RpcAdmitted == abc = "idle" \/ (RpcInterleaves /\ abc = "yield")

(* One more call, within one of the bounds.                                *)
Counted(op) ==
    /\ calls' = [calls EXCEPT ![op] = @ + 1]
    /\ \E bound \in MaxCalls : \A o \in Operations : calls'[o] <= bound[o]

Init ==
    /\ verdict \in Verdicts
    /\ known = {Genesis} /\ data = {Genesis} /\ undo = {}
    /\ level = [b \in Blocks |-> IF b = Genesis THEN VALID_TRANSACTIONS ELSE UNKNOWN]
    /\ received = {Genesis} /\ linked = {Genesis}
    /\ failedValid = {} /\ failedChild = {} /\ failedBlocks = {}
    /\ seq = [b \in Blocks |-> IF b = Genesis THEN 1 ELSE 0] /\ nextSeq = 2
    /\ reverseSeq = -1 /\ lastPrecious = 0
    /\ candidates = {Genesis} /\ unlinked = {} /\ havePruned = FALSE
    /\ tip = Genesis
    /\ abc = "idle" /\ mostWork = NoBlock /\ startTip = Genesis /\ oldTip = Genesis
    /\ progressed = FALSE /\ pending = FALSE
    /\ calls = [op \in Operations |-> 0]

-----------------------------------------------------------------------------
(* Headers and blocks arrive.                                              *)

OnFailedChain(b) ==
    ~IsValid(Parent[b], VALID_SCRIPTS) /\ failedBlocks \intersect Chain[Parent[b]] # {}

(* Mutant: a header is taken before its parent.                            *)
AcceptsOrphan(b) == b \notin Failed

(* The conditions of AcceptBlockHeader.  (A header that fails a check of   *)
(* its own changes nothing, and no such header is in Blocks.)              *)
AcceptsHeader(b) ==
    IF b \in known THEN b \notin Failed
    ELSE Parent[b] \in known \ Failed /\ ~OnFailedChain(b)

AcceptBlockHeader(b) ==
    /\ LockFree /\ b \notin known /\ AcceptsHeader(b)
    /\ known' = known \union {b}
    /\ level' = RaiseValidity(b, VALID_TREE)
    /\ UNCHANGED <<verdict, data, undo, received, linked, failedValid, failedChild,
                   failedBlocks, havePruned, order, candidates, unlinked, tip, abc,
                   loop, pending, calls>>

(* The new header descends from a failed block its parent does not know    *)
(* of yet: the blocks between are marked.                                  *)
RejectBlockHeader(b) ==
    /\ LockFree /\ b \notin known
    /\ Parent[b] \in known \ Failed /\ OnFailedChain(b)
    /\ \E f \in failedBlocks \intersect Chain[Parent[b]] :
        failedChild' = failedChild \union (Chain[Parent[b]] \ Chain[f])
    /\ UNCHANGED <<verdict, known, level, data, undo, received, linked, failedValid,
                   failedBlocks, havePruned, order, candidates, unlinked, tip, abc,
                   loop, pending, calls>>

(* Mutant: only b is linked.                                               *)
LinkedAlone(b) == {b}

(* Mutant: the queue is not continued past the children of b.              *)
LinkedChildren(b) == {b} \union {u \in unlinked : Parent[u] = b}

(* The blocks that get their nChainTx when b gets its transactions: b and  *)
(* the descendants reached through mapBlocksUnlinked.                      *)
NewlyLinked(b) ==
    {b} \union {u \in unlinked : b \in Chain[u] /\ Chain[u] \ Chain[b] \subseteq unlinked}

(* Sequence ids are given in breadth-first order; the order among the      *)
(* blocks of one height, that of their insertion, is left open.            *)
Numberings(N) ==
    {f \in [N -> nextSeq .. nextSeq + Cardinality(N) - 1] :
        \A x, y \in N : x # y => f[x] # f[y] /\ (Height(x) < Height(y) => f[x] < f[y])}

(* b has passed every check of AcceptBlock, so it has no failure flag.     *)
ReceivedBlockTransactions(b) ==
    /\ data' = data \union {b} /\ received' = received \union {b}
    /\ level' = [level EXCEPT ![b] =
                    IF level[b] < VALID_TRANSACTIONS THEN VALID_TRANSACTIONS ELSE @]
    /\ IF Parent[b] \in linked
       THEN \E f \in Numberings(NewlyLinked(b)) :
            /\ linked' = linked \union DOMAIN f
            /\ seq' = [x \in Blocks |-> IF x \in DOMAIN f THEN f[x] ELSE seq[x]]
            /\ nextSeq' = nextSeq + Cardinality(DOMAIN f)
            /\ candidates' = candidates \union {n \in DOMAIN f : ~Worse(seq', n, tip)}
            /\ unlinked' = unlinked \ DOMAIN f
       ELSE /\ linked' = linked \ {b}
            /\ unlinked' = IF IsValid(Parent[b], VALID_TREE)
                           THEN unlinked \union {b} ELSE unlinked
            /\ UNCHANGED <<seq, nextSeq, candidates>>

(* AcceptBlock goes on to store the block.                                 *)
Stores(b, requested) ==
    /\ b \notin data
    /\ requested \/ /\ b \notin received
                    /\ Work[b] > Work[tip]
                    /\ Height(b) <= Height(tip) + Keep
                    /\ Work[b] >= MinimumWork

(* AcceptBlock as ProcessNewBlock calls it, the header included.           *)
(* ActivateBestChain follows when it succeeds.                             *)
AcceptBlock(b, requested) ==
    /\ LockFree /\ b # Genesis /\ AcceptsHeader(b)
    /\ known' = known \union {b}
    /\ \/ /\ ~Stores(b, requested)
          /\ level' = RaiseValidity(b, VALID_TREE)
          /\ pending' = TRUE
          /\ UNCHANGED <<data, received, linked, failedValid, seq, nextSeq, candidates,
                         unlinked>>
       \/ /\ Stores(b, requested) /\ verdict[b] = "context"
          /\ level' = RaiseValidity(b, VALID_TREE)
          /\ failedValid' = failedValid \union {b}
          /\ UNCHANGED <<data, received, linked, seq, nextSeq, candidates, unlinked,
                         pending>>
       \/ /\ Stores(b, requested) /\ verdict[b] # "context"
          /\ ReceivedBlockTransactions(b)
          /\ pending' = TRUE
          /\ UNCHANGED failedValid
    /\ UNCHANGED <<verdict, undo, failedChild, failedBlocks, havePruned, reverseSeq,
                   lastPrecious, tip, abc, loop, calls>>

-----------------------------------------------------------------------------
(* ActivateBestChain.                                                      *)

(* The call gets m_cs_chainstate, then cs_main.                            *)
StartActivation ==
    /\ abc = "idle" /\ pending
    /\ abc' = "round" /\ pending' = FALSE
    /\ mostWork' = NoBlock /\ startTip' = tip /\ oldTip' = tip /\ progressed' = FALSE
    /\ UNCHANGED <<verdict, index, order, candidates, unlinked, tip, calls>>

(* cs_main is taken again; pindexMostWork is kept from the last round.     *)
NextRound ==
    /\ abc = "yield"
    /\ abc' = "round" /\ startTip' = tip /\ progressed' = FALSE
    /\ UNCHANGED <<verdict, index, order, candidates, unlinked, tip, mostWork, oldTip,
                   pending, calls>>

BestCandidate == CHOOSE c \in candidates : \A d \in candidates : ~Worse(seq, c, d)

(* Mutant: a failed block on the way is not noticed.                       *)
UnusableMissing(c) == {x \in Chain[c] \ Chain[tip] : x \notin data}

Unusable(c) == {x \in Chain[c] \ Chain[tip] : x \in Failed \/ x \notin data}

(* Mutant: the unusable block itself is left in the set.                   *)
EraseAbove(c, x) == candidates \ (Chain[c] \ Chain[x])

EraseChain(c, x) == candidates \ ((Chain[c] \ Chain[x]) \union {x})

(* Mutant: everything above the active chain is marked.                    *)
MarkToFork(c, x) == failedChild \union (Chain[c] \ Chain[tip])

MarkChildren(c, x) == failedChild \union (Chain[c] \ Chain[x])

(* Mutant: blocks above missing data are not kept for later.               *)
NotAddedBack(c, x) == unlinked

AddedBack(c, x) == unlinked \union (Chain[c] \ Chain[x])

(* One pass of the outer loop of FindMostWorkChain.                        *)
FindMostWorkChain ==
    /\ abc = "round" /\ mostWork = NoBlock /\ candidates # {}
    /\ LET c == BestCandidate
       IN  IF Unusable(c) = {}
           THEN /\ mostWork' = c
                /\ UNCHANGED <<candidates, failedChild, unlinked>>
           ELSE LET x == CHOOSE y \in Unusable(c) : \A z \in Unusable(c) : z \in Chain[y]
                IN  /\ candidates' = EraseChain(c, x)
                    /\ IF x \in Failed
                       THEN /\ failedChild' = MarkChildren(c, x)
                            /\ UNCHANGED unlinked
                       ELSE /\ unlinked' = AddedBack(c, x)
                            /\ UNCHANGED failedChild
                    /\ UNCHANGED mostWork
    /\ UNCHANGED <<verdict, known, level, data, undo, received, linked, failedValid,
                   failedBlocks, havePruned, order, tip, abc, startTip, oldTip,
                   progressed, pending, calls>>

(* Nothing to do, or nothing left to do.                                   *)
EndRound ==
    /\ abc = "round"
    /\ mostWork = tip \/ (mostWork = NoBlock /\ candidates = {})
    /\ abc' = IF ~progressed \/ mostWork = tip THEN "idle" ELSE "yield"
    /\ UNCHANGED <<verdict, index, order, candidates, unlinked, tip, loop, pending, calls>>

StartStep ==
    /\ abc = "round" /\ mostWork \notin {NoBlock, tip}
    /\ abc' = "step" /\ oldTip' = tip
    /\ UNCHANGED <<verdict, index, order, candidates, unlinked, tip, mostWork, startTip,
                   progressed, pending, calls>>

(* Mutant: cs_main is released whatever the new tip is.                    *)
EndStepAnyTip(t, m) ==
    /\ progressed' = TRUE
    /\ mostWork' = m
    /\ abc' = IF t = m THEN "idle" ELSE "yield"

(* Mutant: the activation ends when an invalid block was found.            *)
EndStepAtInvalid(t, m) ==
    /\ progressed' = TRUE
    /\ mostWork' = m
    /\ abc' = IF Worse(seq, t, startTip) THEN "round"
              ELSE IF t = m \/ m = NoBlock THEN "idle" ELSE "yield"

(* ActivateBestChainStep returned with tip t, best chain m: the inner loop *)
(* goes on under the lock as long as t is worse than the tip it began with.*)
EndStep(t, m) ==
    /\ progressed' = TRUE
    /\ mostWork' = m
    /\ abc' = IF Worse(seq, t, startTip) THEN "round"
              ELSE IF t = m THEN "idle" ELSE "yield"

(* The activation returns false: after AbortNode, or with an error that    *)
(* ThreadImport takes as a reason to shut down and other callers report.   *)
Fail(after) ==
    /\ abc' \in after
    /\ UNCHANGED <<level, undo, failedValid, failedBlocks, candidates, tip, mostWork,
                   progressed>>

DisconnectTip ==
    /\ abc = "step" /\ tip \notin Chain[mostWork]
    /\ \/ /\ tip \notin data
          /\ Fail({"aborted"})
       \/ /\ tip \in data /\ tip \notin undo
          /\ Fail({"idle", "aborted"})
       \/ /\ tip \in data /\ tip \in undo
          /\ tip' = Parent[tip]
          /\ IF tip' = mostWork
             THEN EndStep(tip', mostWork)
             ELSE UNCHANGED <<abc, mostWork, progressed>>
          /\ UNCHANGED <<level, undo, failedValid, failedBlocks, candidates>>
    /\ UNCHANGED <<verdict, known, data, received, linked, failedChild, havePruned, order,
                   unlinked, startTip, oldTip, pending, calls>>

(* ConnectTip on the next block towards pindexMostWork, with the           *)
(* PruneBlockIndexCandidates or the InvalidBlockFound that follows.        *)
ConnectTip ==
    /\ abc = "step" /\ tip \in Chain[mostWork] /\ tip # mostWork
    /\ LET b == CHOOSE x \in Chain[mostWork] \ {Genesis} : Parent[x] = tip
       IN  \/ /\ b \notin data
              /\ Fail({"aborted"})
           \/ /\ b \in data /\ verdict[b] = "good"
              /\ tip' = b
              /\ level' = RaiseValidity(b, VALID_SCRIPTS)
              /\ undo' = undo \union {b}
              /\ candidates' = PruneBlockIndexCandidates(candidates, seq, b)
              /\ IF b = mostWork \/ Work[b] > Work[oldTip]
                 THEN EndStep(b, mostWork)
                 ELSE UNCHANGED <<abc, mostWork, progressed>>
              /\ UNCHANGED <<failedValid, failedBlocks>>
           \/ /\ b \in data /\ verdict[b] # "good"
              /\ failedValid' = failedValid \union {b}
              /\ failedBlocks' = failedBlocks \union {b}
              /\ candidates' = candidates \ {b}
              /\ EndStep(tip, NoBlock)
              /\ UNCHANGED <<tip, level, undo>>
    /\ UNCHANGED <<verdict, known, data, received, linked, failedChild, havePruned, order,
                   unlinked, startTip, oldTip, pending, calls>>

-----------------------------------------------------------------------------
(* What an operator may ask for.                                           *)

(* Mutant: the new tip is not put back.                                    *)
NothingAgain(failed, t) == {}

(* "The resulting new best tip may not be in setBlockIndexCandidates       *)
(* anymore, so add it again."                                              *)
CandidatesAgain(failed, t) ==
    {b \in known \ failed :
        level[b] >= VALID_TRANSACTIONS /\ b \in linked /\ ~Worse(seq, b, t)}

(* invalidateblock: InvalidateBlock, then ActivateBestChain.  A pruned     *)
(* block on the way down stops it there: without its data DisconnectTip    *)
(* aborts the node, without its undo data alone InvalidateBlock fails and  *)
(* the state is still valid, so ActivateBestChain is called all the same.  *)
InvalidateBlock(p) ==
    /\ RpcAdmitted /\ Counted("invalidate") /\ p \in known \ {Genesis}
    /\ LET undone == IF p \in Chain[tip] THEN Chain[tip] \ Chain[Parent[p]] ELSE {}
           stuck == undone \ (data \intersect undo)
       IN  IF stuck = {}
           THEN /\ tip' = IF undone = {} THEN tip ELSE Parent[p]
                /\ failedChild' = failedChild \union (undone \ {p})
                /\ failedValid' = failedValid \union {p}
                /\ failedBlocks' = failedBlocks \union {p}
                /\ candidates' = (candidates \ (undone \union {p}))
                        \union CandidatesAgain(failedValid' \union failedChild', tip')
                /\ pending' = TRUE
                /\ UNCHANGED abc
           ELSE /\ tip' = CHOOSE x \in stuck : \A y \in stuck : y \in Chain[x]
                /\ abc' = IF tip' \in data THEN abc ELSE "aborted"
                /\ pending' = (pending \/ tip' \in data)
                /\ UNCHANGED <<failedValid, failedChild, failedBlocks, candidates>>
    /\ UNCHANGED <<verdict, known, level, data, undo, received, linked, havePruned, order,
                   unlinked, loop>>

(* Mutant: m_failed_blocks keeps the ancestors.                            *)
EraseDescendants(reset, p) == reset

EraseFailed(reset, p) == reset \union Chain[p]

(* reconsiderblock: ResetBlockFailureFlags, then ActivateBestChain.        *)
ResetBlockFailureFlags(p) ==
    /\ RpcAdmitted /\ Counted("reconsider") /\ p \in known
    /\ LET reset == {b \in known \intersect Failed : p \in Chain[b]}
       IN  /\ failedValid' = failedValid \ (reset \union Chain[p])
           /\ failedChild' = failedChild \ (reset \union Chain[p])
           /\ failedBlocks' = failedBlocks \ EraseFailed(reset, p)
           /\ candidates' = candidates \union
                {b \in reset : /\ level[b] >= VALID_TRANSACTIONS /\ b \in linked
                               /\ Worse(seq, tip, b)}
    /\ pending' = TRUE
    /\ UNCHANGED <<verdict, known, level, data, undo, received, linked, havePruned, order,
                   unlinked, tip, abc, loop>>

(* preciousblock: PreciousBlock, which ends with ActivateBestChain.        *)
PreciousBlock(b) ==
    /\ RpcAdmitted /\ Counted("precious") /\ b \in known
    /\ Work[b] >= Work[tip]
    /\ LET r == IF Work[tip] > lastPrecious THEN -1 ELSE reverseSeq
       IN  /\ lastPrecious' = Work[tip]
           /\ seq' = [seq EXCEPT ![b] = r]
           /\ reverseSeq' = r - 1
    /\ candidates' =
        IF IsValid(b, VALID_TRANSACTIONS) /\ b \in linked
        THEN PruneBlockIndexCandidates(candidates \union {b}, seq', tip)
        ELSE candidates \ {b}
    /\ pending' = TRUE
    /\ UNCHANGED <<verdict, index, nextSeq, unlinked, tip, abc, loop>>

(* Mutant: the pruned block stays in mapBlocksUnlinked.                    *)
UnlinkedKept(b) == unlinked

UnlinkedWithout(b) == unlinked \ {b}

(* The next step of ActivateBestChainStep gets as far as FlushStateToDisk, *)
(* just before it moves chainActive.                                       *)
StepFlushes ==
    /\ abc = "step"
    /\ IF tip \in Chain[mostWork]
       THEN \E b \in Chain[mostWork] \intersect data :
            b # Genesis /\ Parent[b] = tip /\ verdict[b] = "good"
       ELSE tip \in data \intersect undo

(* PruneOneBlockFile, for a file that holds block b.  FlushStateToDisk,    *)
(* which calls it, is also a part of ConnectTip and DisconnectTip.         *)
PruneOneBlockFile(b) ==
    /\ LockFree \/ StepFlushes
    /\ Counted("prune")
    /\ b \in data /\ Height(b) + Keep <= Height(tip)
    /\ data' = data \ {b} /\ undo' = undo \ {b}
    /\ unlinked' = UnlinkedWithout(b)
    /\ havePruned' = TRUE
    /\ UNCHANGED <<verdict, known, level, received, linked, failedValid, failedChild,
                   failedBlocks, order, candidates, tip, abc, loop, pending>>

(* A shutdown, also between two rounds of an activation: everything is     *)
(* flushed.                                                                *)
Shutdown ==
    /\ LockFree /\ Counted("shutdown")
    /\ abc' = "stopped"
    /\ UNCHANGED <<verdict, index, order, candidates, unlinked, tip, loop, pending>>

(* The next start: LoadBlockIndex rebuilds what is not stored,             *)
(* LoadChainTip takes the tip of the coins database, and ThreadImport      *)
(* calls ActivateBestChain.                                                *)
Restart ==
    /\ abc \in {"stopped", "aborted"}
    /\ linked' = {b \in known : Chain[b] \subseteq received}
    /\ unlinked' = {b \in received \ {Genesis} : Parent[b] \notin linked'}
    /\ failedChild' = failedChild \union
                        {b \in known \ Failed : Chain[b] \intersect Failed # {}}
    /\ failedBlocks' = {}
    /\ seq' = [b \in Blocks |-> 0] /\ nextSeq' = 1
    /\ reverseSeq' = -1 /\ lastPrecious' = 0
    /\ candidates' =
        PruneBlockIndexCandidates(
            {b \in linked' \ (failedValid \union failedChild') : level[b] >= VALID_TRANSACTIONS},
            seq', tip)
    /\ abc' = "idle" /\ pending' = TRUE
    /\ mostWork' = NoBlock /\ startTip' = tip /\ oldTip' = tip /\ progressed' = FALSE
    /\ UNCHANGED <<verdict, known, level, data, undo, received, failedValid, havePruned, tip,
                   calls>>

-----------------------------------------------------------------------------
Activate ==
    \/ StartActivation \/ NextRound \/ FindMostWorkChain \/ EndRound \/ StartStep
    \/ DisconnectTip \/ ConnectTip

Next ==
    \/ Activate
    \/ Shutdown \/ Restart
    \/ \E b \in Blocks : \/ b # Genesis /\ AcceptBlockHeader(b)
                         \/ b # Genesis /\ RejectBlockHeader(b)
                         \/ \E requested \in BOOLEAN : AcceptBlock(b, requested)
                         \/ InvalidateBlock(b)
                         \/ ResetBlockFailureFlags(b)
                         \/ PreciousBlock(b)
                         \/ PruneOneBlockFile(b)

Spec == Init /\ [][Next]_vars

(* A thread inside ActivateBestChain, or waiting for it, keeps running.    *)
FairSpec == Spec /\ WF_vars(Activate)

-----------------------------------------------------------------------------
(* The state has its types, and the index is a tree: with a block it has   *)
(* the block's parent (InsertBlockIndex, AcceptBlockHeader).               *)
TypeOK ==
    /\ verdict \in Verdicts
    /\ Genesis \in known /\ \A b \in known \ {Genesis} : Parent[b] \in known
    /\ data \union undo \union received \union linked \union failedValid
        \union failedChild \union failedBlocks \union candidates \union unlinked
            \subseteq known
    /\ level \in [Blocks -> {UNKNOWN, VALID_TREE, VALID_TRANSACTIONS, VALID_SCRIPTS}]
    /\ seq \in [Blocks -> Int] /\ nextSeq \in Nat /\ reverseSeq \in Int /\ lastPrecious \in Nat
    /\ havePruned \in BOOLEAN /\ progressed \in BOOLEAN /\ pending \in BOOLEAN
    /\ tip \in known /\ startTip \in known /\ oldTip \in known
    /\ mostWork \in known \union {NoBlock}
    /\ abc \in {"idle", "round", "step", "yield", "aborted", "stopped"}
    /\ calls \in [Operations -> Nat]

NoInvalidIn(b) == Chain[b] \intersect failedValid = {}

(* The tip can be disconnected.  Only a chain undone as far as a pruned    *)
(* block ends at a tip without undo data; InvalidateBlock or an activation *)
(* then fails half-way, and nothing is claimed of what they leave.         *)
TipUndoable == tip = Genesis \/ tip \in undo

Quiet == LockFree /\ TipUndoable

(* The status bits of a block agree (CheckBlockIndex): VALID_TRANSACTIONS  *)
(* is nTx > 0; undo data comes with block data; data that was never pruned *)
(* is there; nChainTx is set only when every ancestor was received, and is *)
(* set then unless an ancestor is invalid.                                 *)
StatusConsistent ==
    LockFree =>
        /\ received = {b \in known : level[b] >= VALID_TRANSACTIONS}
        /\ data \subseteq received /\ undo \subseteq data
        /\ ~havePruned => data = received
        /\ \A b \in known :
            /\ b \in linked => Chain[b] \subseteq received
            /\ Chain[b] \subseteq received /\ NoInvalidIn(b) => b \in linked
            /\ b \notin linked => seq[b] <= 0

(* nChainTx "will be non-zero only if and only if transactions for this    *)
(* block and all its parents are available" (chain.h).                     *)
ChainTxExact == LockFree => linked = {b \in known : Chain[b] \subseteq received}

(* Nothing that could be the tip is forgotten (CheckBlockIndex): a block   *)
(* as good as the tip, received with all its ancestors, none of them       *)
(* invalid and none of them pruned, is a candidate.                        *)
Eligible(b) ==
    /\ ~Worse(seq, b, tip) /\ NoInvalidIn(b)
    /\ Chain[b] \subseteq received
    /\ Chain[b] \subseteq data \/ b = tip

CandidatesComplete == Quiet => \A b \in known : Eligible(b) => b \in candidates

(* A candidate is not worse than the tip and has had all its ancestors     *)
(* (CheckBlockIndex), so FindMostWorkChain's assertion on nChainTx holds.  *)
CandidatesSound ==
    LockFree => \A b \in candidates : ~Worse(seq, b, tip) /\ Chain[b] \subseteq received

(* The assertion at the end of PruneBlockIndexCandidates.                  *)
CandidatesLeft == candidates # {}

(* "Can't be in mapBlocksUnlinked if we don't HAVE_DATA" (CheckBlockIndex).*)
UnlinkedHaveData == LockFree => unlinked \subseteq data

(* mapBlocksUnlinked (CheckBlockIndex): a block with data waits there if   *)
(* an ancestor was never received and none is invalid, or if it could be   *)
(* the tip but for an ancestor's data that was pruned; a block with the    *)
(* data of all its ancestors does not wait.                                *)
UnlinkedWaits ==
    Quiet => \A b \in known \ {Genesis} :
        /\ b \in data /\ NoInvalidIn(b) /\ ~(Chain[b] \subseteq received) => b \in unlinked
        /\ b \in data /\ NoInvalidIn(b) /\ ~(Chain[b] \subseteq data) /\ ~Worse(seq, b, tip)
            => b \in unlinked \union candidates
        /\ Chain[b] \subseteq data => b \notin unlinked

(* All that CheckBlockIndex asserts of mapBlocksUnlinked.                  *)
UnlinkedExact == UnlinkedHaveData /\ UnlinkedWaits

(* "The failed mask cannot be set for blocks without invalid parents"      *)
(* (CheckBlockIndex).                                                      *)
FailureRooted == LockFree => \A b \in Failed : ~NoInvalidIn(b)

(* reconsiderblock "can be used to undo the effects of invalidateblock"    *)
(* (its help text): after both, CheckBlockIndex is not left with failure   *)
(* marks that have no cause and, besides, a better block nobody will try.  *)
MarksUndone == FailureRooted \/ CandidatesComplete

(* What AcceptBlockHeader asserts of m_failed_blocks.                      *)
FailedBlocksMarked == failedBlocks \subseteq failedValid

(* Every block of the active chain has been validated in full and is not   *)
(* marked failed: FindMostWorkChain stops at the active chain because "we  *)
(* know all blocks in it are valid already".                               *)
ActiveChainValid ==
    /\ Chain[tip] \intersect Failed = {}
    /\ \A b \in Chain[tip] \ {Genesis} : level[b] = VALID_SCRIPTS /\ verdict[b] = "good"
    /\ havePruned \/ TipUndoable

(* When no activation runs or waits, the tip is the best block there is,   *)
(* unless the way there leads back over blocks that can no longer be       *)
(* disconnected.                                                           *)
BestTipActive ==
    abc = "idle" /\ ~pending /\ TipUndoable =>
        \A b \in known :
            Eligible(b) /\ Chain[tip] \ Chain[b] \subseteq data \intersect undo => b = tip

(* No block has been marked by an operator.  (After invalidateblock and    *)
(* reconsiderblock less holds: see MarksUndone.)                           *)
Unmarked == calls["invalidate"] = 0 /\ calls["reconsider"] = 0

(* No candidate is forgotten while blocks lose their data, also inside     *)
(* ActivateBestChainStep, and are downloaded again.                        *)
PrunedCandidatesComplete == Unmarked => CandidatesComplete

(* mapBlocksUnlinked follows the data that PruneOneBlockFile takes and a   *)
(* new download brings.  Only LoadBlockIndex, which looks at nTx instead   *)
(* of BLOCK_HAVE_DATA, makes pruned blocks wait: up to the first restart   *)
(* (which sets every nSequenceId to 0) there are none.                     *)
PrunedUnlinkedExact ==
    Unmarked => UnlinkedWaits /\ (seq[Genesis] # 0 => UnlinkedHaveData)

(* The best chain whose blocks are there is active in the end, whatever    *)
(* was pruned and downloaded again before.                                 *)
PrunedBestTipActive == Unmarked => BestTipActive

(* "We absolutely may not unlock cs_main until we've made forward          *)
(* progress": a round never leaves a worse tip than it found.              *)
RoundsKeepTip ==
    [][(abc \in {"round", "step"} /\ abc' \in {"idle", "yield"})
            => ~Worse(seq, tip', startTip)]_vars

(* Every activation comes to an end, however many branches turn out to be  *)
(* invalid on the way.                                                     *)
ActivationSettles == []<>(abc \in {"aborted", "stopped"} \/ (abc = "idle" /\ ~pending))
==============================================================================
