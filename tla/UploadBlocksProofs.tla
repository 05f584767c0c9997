------------------------- MODULE UploadBlocksProofs -------------------------
(***************************************************************************)
(* Proofs about UploadBlocks: any number of uploads that share one         *)
(* semaphore of any size, with files and batches of any length.            *)
(***************************************************************************)
EXTENDS UploadBlocks, FiniteSetTheorems, SequenceTheorems, TLAPS

\* The goroutines that have put their result on errChan, and those that have yet
\* to do so
Reported == {"release", "done"}
Busy == {"start", "waiting", "granted", "uploading"}

\* The Indexes of the pending blocks: First(u) to i[u] - 1
First(u) == i[u] - Len(pending[u])
Pending(u) == First(u)..(i[u] - 1)

Sent(u) == {k \in Pending(u) : task[u][k] \in Reported}

\* What the loop has read, and what of it is still pending
LoopOK(u) ==
    /\ Len(pending[u]) < i[u] /\ i[u] <= MaxBlocks[u] + 1
    /\ \A b \in 1..Len(pending[u]) : pending[u][b] = First(u) + b - 1
    /\ Len(manifest[u]) = i[u] - 1
    /\ \A b \in 1..(i[u] - 1) : manifest[u][b] = b
    /\ Len(sizes[u]) = i[u] - 1
    /\ pc[u] \in {"commit", "returned"} \/ active[u] => pending[u] = <<>>
    /\ active[u] => pc[u] \in {"returned", "failed"}

\* The goroutines: none for a block not read yet, all over for one that is not
\* pending any more, and that block stored.
TaskOK(u, k) ==
    /\ k >= i[u] => task[u][k] = "none"
    /\ k < First(u) => task[u][k] \in Reported /\ k \in stored[u]
    /\ k \in Pending(u) =>
         /\ pc[u] = "collect" => task[u][k] # "none"
         /\ pc[u] = "failed"  => task[u][k] \in {"none"} \cup Reported
         /\ pc[u] \notin {"collect", "failed"} => task[u][k] = "none"

TasksOK(u) == \A k \in Blocks : TaskOK(u, k)

\* Every result is on the channel or collected; as long as they are all good,
\* so are the blocks.
ResultsOK(u) ==
    pc[u] = "collect" =>
        /\ got[u] + Len(chan[u]) = Cardinality(Sent(u))
        /\ ~firstErr[u] /\ (\A n \in 1..Len(chan[u]) : chan[u][n] = "ok")
             => Sent(u) \subseteq stored[u]

UploadOK(u) == LoopOK(u) /\ TasksOK(u) /\ ResultsOK(u)

\* A permit is free only if nobody waits; whoever waits is queued, once.
QueueOK ==
    /\ waiters # <<>> => cur = N
    /\ \A n \in DOMAIN waiters : task[waiters[n][1]][waiters[n][2]] = "waiting"
    /\ \A m, n \in DOMAIN waiters : waiters[m] = waiters[n] => m = n
    /\ \A u \in Uploads, k \in Blocks :
          task[u][k] = "waiting" => \E n \in DOMAIN waiters : waiters[n] = <<u, k>>

SemaphoreOK == IsFiniteSet(Holders) /\ PermitsConserved /\ QueueOK

IInv == TypeOK /\ (\A u \in Uploads : UploadOK(u)) /\ SemaphoreOK

-----------------------------------------------------------------------------
(* Types *)

\* The Index of a block that is read is one of its file.
LEMMA InFile ==
    ASSUME NEW u \in Uploads, NEW k \in Nat \ {0}, k <= MaxBlocks[u]
    PROVE  k \in Blocks
BY ConstantsAssumption DEF Blocks

\* Blocks are known by positive numbers.
LEMMA BlockIsPositive == \A k \in Blocks : k \in Nat \ {0}
BY ConstantsAssumption DEF Blocks

\* A pair in the queue is an upload and one of its blocks.
LEMMA WaiterType ==
    ASSUME TypeOK, NEW n \in DOMAIN waiters
    PROVE  /\ waiters[n][1] \in Uploads /\ waiters[n][2] \in Blocks
           /\ waiters[n] = <<waiters[n][1], waiters[n][2]>>
<1>1. waiters[n] \in Uploads \X Blocks
  BY DEF TypeOK
<1> QED BY <1>1

\* A goroutine that leaves the queue leaves a queue.
LEMMA RemovedWaiter ==
    ASSUME NEW S, NEW s \in Seq(S), NEW n \in DOMAIN s
    PROVE  /\ RemoveAt(s, n) \in Seq(S)
           /\ Len(RemoveAt(s, n)) = Len(s) - 1
           /\ \A m \in 1..(Len(s) - 1) : RemoveAt(s, n)[m] = IF m < n THEN s[m] ELSE s[m + 1]
<1> DEFINE a == SubSeq(s, 1, n - 1)
           b == SubSeq(s, n + 1, Len(s))
<1>1. Len(s) \in Nat /\ DOMAIN s = 1..Len(s) /\ n \in 1..Len(s)
  BY LenProperties
<1>2. /\ a \in Seq(S) /\ Len(a) = n - 1
      /\ \A m \in 1..(n - 1) : a[m] = s[m]
  BY <1>1, ElementOfSeq, SubSeqProperties
<1>3. /\ b \in Seq(S) /\ Len(b) = Len(s) - n
      /\ \A m \in 1..(Len(s) - n) : b[m] = s[n + m]
  <2>1. \A m \in (n + 1)..Len(s) : s[m] \in S
    BY <1>1, ElementOfSeq
  <2>2. /\ b \in Seq(S) /\ Len(b) = IF n + 1 <= Len(s) THEN Len(s) - (n + 1) + 1 ELSE 0
        /\ \A m \in 1..(Len(s) - (n + 1) + 1) : b[m] = s[(n + 1) + m - 1]
    BY <1>1, <2>1, SubSeqProperties
  <2> HIDE DEF b
  <2>3. Len(b) = Len(s) - n
    BY <1>1, <2>2
  <2>4. ASSUME NEW m \in 1..(Len(s) - n) PROVE b[m] = s[n + m]
    <3>1. m \in 1..(Len(s) - (n + 1) + 1) /\ (n + 1) + m - 1 = n + m
      BY <1>1
    <3> QED BY <2>2, <3>1
  <2> QED BY <2>2, <2>3, <2>4
<1>4. RemoveAt(s, n) = a \o b
  BY DEF RemoveAt
<1> HIDE DEF a, b
<1>5. /\ a \o b \in Seq(S) /\ Len(a \o b) = Len(a) + Len(b)
      /\ \A m \in 1..(Len(a) + Len(b)) : (a \o b)[m] = IF m <= Len(a) THEN a[m] ELSE b[m - Len(a)]
  BY <1>2, <1>3, ConcatProperties
<1>6. Len(a \o b) = Len(s) - 1
  BY <1>1, <1>2, <1>3, <1>5
<1>7. ASSUME NEW m \in 1..(Len(s) - 1)
      PROVE  (a \o b)[m] = IF m < n THEN s[m] ELSE s[m + 1]
  <2>1. CASE m < n
    BY <1>1, <1>2, <1>3, <1>5, <2>1
  <2>2. CASE ~(m < n)
    <3>1. m - Len(a) \in 1..(Len(s) - n) /\ n + (m - Len(a)) = m + 1
      BY <1>1, <1>2, <2>2
    <3>2. (a \o b)[m] = b[m - Len(a)]
      BY <1>1, <1>2, <1>3, <1>5, <2>2
    <3> QED BY <1>3, <2>2, <3>1, <3>2
  <2> QED BY <2>1, <2>2
<1> QED BY <1>4, <1>5, <1>6, <1>7

LEMMA InitType == Init => TypeOK
BY DEF Init, TypeOK, TaskStates

\* The loop, the requests and the commit keep the types.
LEMMA LoopType ==
    ASSUME TypeOK, NEW u \in Uploads, UploadFile(u) PROVE TypeOK'
<1>1. CASE Verify(u)
  BY <1>1 DEF Verify, Goto, TypeOK, loopVars, batchVars, semVars
<1>2. CASE LoopTop(u)
  BY <1>2 DEF LoopTop, Flush, AfterFlush, Goto, TypeOK, batchVars, semVars
<1>3. CASE ReadBlock(u)
  <2>1. i[u] \in Blocks
    BY <1>3, InFile DEF ReadBlock, TypeOK
  <2>2. pending' \in [Uploads -> Seq(Blocks)] /\ manifest' \in [Uploads -> Seq(Blocks)]
    BY <1>3, <2>1 DEF ReadBlock, TypeOK
  <2>3. sizes' \in [Uploads -> Seq({"full", "short"})] /\ more' \in [Uploads -> BOOLEAN]
    BY <1>3 DEF ReadBlock, TypeOK
  <2> QED BY <1>3, <2>2, <2>3 DEF ReadBlock, Goto, TypeOK, batchVars, semVars
<1>4. CASE ReadEnd(u)
  BY <1>4 DEF ReadEnd, Flush, AfterFlush, Goto, TypeOK, batchVars, semVars
<1>5. CASE ReadFails(u) \/ RequestFails(u) \/ CommitFails(u)
  BY <1>5 DEF ReadFails, RequestFails, CommitFails, Goto, TypeOK, loopVars, batchVars, semVars
<1>6. CASE RequestBlockUpload(u)
  <2>1. task' \in [Uploads -> [Blocks -> TaskStates]]
    BY <1>6 DEF RequestBlockUpload, TypeOK, TaskStates
  <2> QED BY <1>6, <2>1 DEF RequestBlockUpload, Goto, TypeOK, loopVars, semVars
<1>7. CASE Collect(u)
  <2>1. chan' \in [Uploads -> Seq({"ok", "err"})]
    BY <1>7 DEF Collect, TypeOK
  <2> QED BY <1>7, <2>1 DEF Collect, TypeOK, loopVars, semVars
<1>8. CASE EndOfBatch(u)
  <2>1. cancelled' \in [Uploads -> BOOLEAN]
    BY <1>8 DEF EndOfBatch, TypeOK
  <2>2. pending' = pending \/ pending' = [pending EXCEPT ![u] = <<>>]
    BY <1>8 DEF EndOfBatch
  <2>3. pending' \in [Uploads -> Seq(Blocks)]
    <3>1. pending \in [Uploads -> Seq(Blocks)]
      BY DEF TypeOK
    <3>2. ASSUME NEW e \in Seq(Blocks) PROVE [pending EXCEPT ![u] = e] \in [Uploads -> Seq(Blocks)]
      BY <3>1
    <3> QED BY <2>2, <3>1, <3>2, EmptySeq
  <2>4. pc' \in [Uploads -> {"verify", "top", "read", "request", "collect", "commit",
                            "returned", "failed"}]
    BY <1>8 DEF EndOfBatch, AfterFlush, Goto, TypeOK
  <2> QED BY <1>8, <2>1, <2>3, <2>4 DEF EndOfBatch, AfterFlush, Goto, TypeOK, semVars
<1>9. CASE CommitRevision(u)
  BY <1>9 DEF CommitRevision, Goto, TypeOK, loopVars, batchVars, semVars
<1> QED BY <1>1, <1>2, <1>3, <1>4, <1>5, <1>6, <1>7, <1>8, <1>9 DEF UploadFile
-----------------------------------------------------------------------------
(* The semaphore *)

Holding == {"granted", "uploading", "release"}

LEMMA HoldersAre ==
    Holders = {t \in Uploads \X Blocks : task[t[1]][t[2]] \in Holding}
BY DEF Holders, Holding

\* Whoever holds a permit has been counted.
LEMMA HolderCounted ==
    ASSUME TypeOK, SemaphoreOK, NEW u \in Uploads, NEW k \in Blocks, task[u][k] \in Holding
    PROVE  <<u, k>> \in Holders /\ cur \in Nat \ {0} /\ cur - 1 \in Nat
<1>1. <<u, k>> \in Holders
  BY HoldersAre
<1>2. Cardinality(Holders) # 0 /\ Cardinality(Holders) \in Nat
  BY <1>1, FS_EmptySet, FS_CardinalityType DEF SemaphoreOK
<1> QED BY <1>1, <1>2 DEF SemaphoreOK, PermitsConserved

\* The semaphore does not change while nobody enters or leaves its queue or
\* comes to hold a permit or to hold none.
LEMMA SameSemaphore ==
    ASSUME TypeOK, SemaphoreOK, UNCHANGED semVars,
           \A v \in Uploads, j \in Blocks :
              /\ task'[v][j] \in Holding <=> task[v][j] \in Holding
              /\ task'[v][j] = "waiting" <=> task[v][j] = "waiting"
    PROVE  SemaphoreOK'
<1>1. Holders' = Holders
  BY HoldersAre DEF Holders, Holding
<1>2. QueueOK'
  <2>1. waiters' = waiters /\ cur' = cur
    BY DEF semVars
  <2> QED BY <2>1, WaiterType DEF SemaphoreOK, QueueOK
<1> QED BY <1>1, <1>2 DEF SemaphoreOK, PermitsConserved, semVars

\* Once its permit is given back, the goroutine is done; a permit that somebody
\* waits for goes to the first in the queue and nobody else notices.
LEMMA GiveBackOK ==
    ASSUME TypeOK, SemaphoreOK, NEW u \in Uploads, NEW k \in Blocks, task[u][k] \in Holding,
           GiveBack([task EXCEPT ![u][k] = "done"])
    PROVE  /\ task' \in [Uploads -> [Blocks -> TaskStates]]
           /\ cur' \in Nat /\ waiters' \in Seq(Uploads \X Blocks)
           /\ SemaphoreOK'
           /\ task'[u][k] = "done"
           /\ \A v \in Uploads, j \in Blocks : <<v, j>> # <<u, k>> =>
                 \/ task'[v][j] = task[v][j]
                 \/ task[v][j] = "waiting" /\ task'[v][j] = "granted"
<1> DEFINE t == [task EXCEPT ![u][k] = "done"]
<1>1. /\ t \in [Uploads -> [Blocks -> TaskStates]]
      /\ t[u][k] = "done"
      /\ \A v \in Uploads, j \in Blocks : <<v, j>> # <<u, k>> => t[v][j] = task[v][j]
  BY DEF TypeOK, TaskStates
<1>2. <<u, k>> \in Holders /\ cur \in Nat \ {0} /\ cur - 1 \in Nat
  BY HolderCounted
<1>3. /\ IsFiniteSet(Holders) /\ Cardinality(Holders) = cur
      /\ IsFiniteSet(Holders \ {<<u, k>>}) /\ Cardinality(Holders \ {<<u, k>>}) = cur - 1
  BY <1>2, FS_RemoveElement DEF SemaphoreOK, PermitsConserved
<1>4. CASE waiters = <<>>
  <2>1. task' = t /\ cur' = cur - 1 /\ waiters' = waiters
    BY <1>4 DEF GiveBack
  <2>2. Holders' = Holders \ {<<u, k>>}
    <3>1. Holders' = {x \in Uploads \X Blocks : t[x[1]][x[2]] \in Holding}
      BY <2>1 DEF Holders, Holding
    <3>2. "done" \notin Holding
      BY DEF Holding
    <3>3. ASSUME NEW x \in Uploads \X Blocks
          PROVE  t[x[1]][x[2]] \in Holding <=> task[x[1]][x[2]] \in Holding /\ x # <<u, k>>
      BY <1>1, <3>2
    <3> HIDE DEF t
    <3> QED BY <3>1, <3>3, HoldersAre
  <2>3. IsFiniteSet(Holders') /\ PermitsConserved'
    BY <1>2, <1>3, <2>1, <2>2, ConstantsAssumption DEF PermitsConserved, SemaphoreOK
  <2>4. \A v \in Uploads, j \in Blocks : task'[v][j] # "waiting"
    <3>1. \A v \in Uploads, j \in Blocks : task[v][j] # "waiting"
      BY <1>4 DEF SemaphoreOK, QueueOK
    <3> QED BY <1>1, <2>1, <3>1
  <2>5. QueueOK'
    BY <1>4, <2>1, <2>4 DEF QueueOK
  <2> QED BY <1>1, <1>2, <2>1, <2>3, <2>5 DEF SemaphoreOK, TypeOK
<1>5. CASE waiters # <<>>
  <2> DEFINE w == Head(waiters)
  <2>1. /\ Len(waiters) \in Nat /\ Len(waiters) > 0 /\ DOMAIN waiters = 1..Len(waiters)
        /\ w = waiters[1] /\ 1 \in DOMAIN waiters
        /\ Tail(waiters) \in Seq(Uploads \X Blocks) /\ Len(Tail(waiters)) = Len(waiters) - 1
        /\ \A n \in 1..(Len(waiters) - 1) : Tail(waiters)[n] = waiters[n + 1]
    <3>1. waiters \in Seq(Uploads \X Blocks)
      BY DEF TypeOK
    <3>2. /\ Len(waiters) \in Nat /\ Len(waiters) > 0 /\ DOMAIN waiters = 1..Len(waiters)
          /\ 1 \in DOMAIN waiters
      BY <1>5, <3>1, LenProperties
    <3>3. /\ Tail(waiters) \in Seq(Uploads \X Blocks) /\ Len(Tail(waiters)) = Len(waiters) - 1
          /\ \A n \in 1..Len(Tail(waiters)) : Tail(waiters)[n] = waiters[n + 1]
      BY <1>5, <3>1, HeadTailProperties
    <3>4. w = waiters[1]
      BY <1>5, <3>1
    <3> QED BY <3>2, <3>3, <3>4
  <2>2. /\ w[1] \in Uploads /\ w[2] \in Blocks /\ w = <<w[1], w[2]>>
        /\ task[w[1]][w[2]] = "waiting"
    BY <2>1, WaiterType DEF SemaphoreOK, QueueOK
  <2> HIDE DEF w
  <2>3. w # <<u, k>>
    BY <2>2 DEF Holding
  <2>4. task' = [t EXCEPT ![w[1]][w[2]] = "granted"] /\ waiters' = Tail(waiters) /\ cur' = cur
    BY <1>5 DEF GiveBack, w
  <2>5. /\ task' \in [Uploads -> [Blocks -> TaskStates]]
        /\ task'[u][k] = "done" /\ task'[w[1]][w[2]] = "granted"
        /\ \A v \in Uploads, j \in Blocks :
              <<v, j>> \notin {<<u, k>>, w} => task'[v][j] = task[v][j]
    <3> HIDE DEF t
    <3>1. "granted" \in TaskStates
      BY DEF TaskStates
    <3>2. task' \in [Uploads -> [Blocks -> TaskStates]]
      BY <1>1, <2>2, <2>4, <3>1
    <3>3. task'[w[1]][w[2]] = "granted"
      BY <1>1, <2>2, <2>4
    <3>4. \A v \in Uploads, j \in Blocks : ~(v = w[1] /\ j = w[2]) => task'[v][j] = t[v][j]
      BY <1>1, <2>2, <2>4
    <3>5. task'[u][k] = "done"
      BY <1>1, <2>2, <2>3, <3>4
    <3> QED BY <1>1, <2>2, <3>2, <3>3, <3>4, <3>5
  <2>6. Holders' = (Holders \ {<<u, k>>}) \cup {w}
    <3>1. "done" \notin Holding /\ "granted" \in Holding /\ "waiting" \notin Holding
      BY DEF Holding
    <3>2. ASSUME NEW x \in Uploads \X Blocks
          PROVE  task'[x[1]][x[2]] \in Holding <=>
                   (task[x[1]][x[2]] \in Holding /\ x # <<u, k>>) \/ x = w
      BY <2>2, <2>3, <2>5, <3>1
    <3>3. Holders' = {x \in Uploads \X Blocks : task'[x[1]][x[2]] \in Holding}
      BY DEF Holders, Holding
    <3>4. w \in Uploads \X Blocks
      BY <2>2
    <3> QED BY <3>2, <3>3, <3>4, HoldersAre
  <2>7. w \notin Holders
    BY <2>2, HoldersAre DEF Holding
  <2>8. IsFiniteSet(Holders') /\ PermitsConserved'
    <3>1. /\ IsFiniteSet((Holders \ {<<u, k>>}) \cup {w})
          /\ Cardinality((Holders \ {<<u, k>>}) \cup {w}) = cur - 1 + 1
      BY <1>3, <2>7, FS_AddElement
    <3> QED BY <1>2, <2>4, <2>6, <3>1 DEF PermitsConserved, SemaphoreOK
  <2>9. QueueOK'
    <3>1. cur' = N
      BY <1>5, <2>4 DEF SemaphoreOK, QueueOK
    <3>2. DOMAIN waiters' = 1..(Len(waiters) - 1)
      BY <2>1, <2>4, LenProperties
    <3>3. \A n \in DOMAIN waiters' : waiters'[n] = waiters[n + 1] /\ n + 1 \in DOMAIN waiters
      BY <2>1, <2>4, <3>2
    <3>4. \A n \in DOMAIN waiters' : waiters'[n] # w
      <4> SUFFICES ASSUME NEW n \in DOMAIN waiters', waiters'[n] = w PROVE FALSE
        OBVIOUS
      <4>1. waiters[n + 1] = waiters[1] /\ n + 1 \in DOMAIN waiters
        BY <2>1, <3>3
      <4>2. n + 1 = 1
        BY <2>1, <4>1 DEF SemaphoreOK, QueueOK
      <4> QED BY <2>1, <3>2, <4>2
    <3>5. ASSUME NEW n \in DOMAIN waiters'
          PROVE  task'[waiters'[n][1]][waiters'[n][2]] = "waiting"
      <4>1. /\ waiters'[n][1] \in Uploads /\ waiters'[n][2] \in Blocks
            /\ waiters'[n] = <<waiters'[n][1], waiters'[n][2]>>
            /\ task[waiters'[n][1]][waiters'[n][2]] = "waiting"
        BY <3>3, WaiterType DEF SemaphoreOK, QueueOK
      <4>2. waiters'[n] # <<u, k>>
        BY <4>1 DEF Holding
      <4> QED BY <2>5, <3>4, <4>1, <4>2
    <3>6. \A m, n \in DOMAIN waiters' : waiters'[m] = waiters'[n] => m = n
      BY <3>2, <3>3, <2>1 DEF SemaphoreOK, QueueOK
    <3>7. ASSUME NEW v \in Uploads, NEW j \in Blocks, task'[v][j] = "waiting"
          PROVE  \E n \in DOMAIN waiters' : waiters'[n] = <<v, j>>
      <4>1. <<v, j>> # w /\ <<v, j>> # <<u, k>> /\ task[v][j] = "waiting"
        BY <2>2, <2>5, <3>7
      <4>2. PICK n \in DOMAIN waiters : waiters[n] = <<v, j>>
        BY <4>1 DEF SemaphoreOK, QueueOK
      <4>3. n # 1 /\ n - 1 \in DOMAIN waiters' /\ (n - 1) + 1 = n
        BY <2>1, <3>2, <4>1, <4>2
      <4> QED BY <3>3, <4>2, <4>3
    <3> QED BY <3>1, <3>5, <3>6, <3>7 DEF QueueOK
  <2>10. cur' \in Nat /\ waiters' \in Seq(Uploads \X Blocks) /\ SemaphoreOK'
    BY <1>2, <2>1, <2>4, <2>8, <2>9 DEF SemaphoreOK
  <2>11. ASSUME NEW v \in Uploads, NEW j \in Blocks, <<v, j>> # <<u, k>>
         PROVE  \/ task'[v][j] = task[v][j]
                \/ task[v][j] = "waiting" /\ task'[v][j] = "granted"
    <3>1. CASE <<v, j>> = w
      BY <2>2, <2>5, <3>1
    <3>2. CASE <<v, j>> # w
      BY <2>5, <2>11, <3>2
    <3> QED BY <3>1, <3>2
  <2> QED BY <2>5, <2>10, <2>11
<1> QED BY <1>4, <1>5
-----------------------------------------------------------------------------
(* What the steps of goroutines mean for an upload *)

SameLoop(v) ==
    /\ pc'[v] = pc[v] /\ i'[v] = i[v] /\ pending'[v] = pending[v]
    /\ manifest'[v] = manifest[v] /\ sizes'[v] = sizes[v] /\ active'[v] = active[v]
    /\ got'[v] = got[v] /\ firstErr'[v] = firstErr[v]

\* The goroutine of block j makes no step, or one that reports nothing.
Silent(v, j) ==
    \/ task'[v][j] = task[v][j]
    \/ task[v][j] \in Busy /\ task'[v][j] \in Busy
    \/ task[v][j] \in Reported /\ task'[v][j] \in Reported

\* The numbers an upload keeps
LEMMA Numbers ==
    ASSUME TypeOK, NEW u \in Uploads, LoopOK(u)
    PROVE  /\ i[u] \in Nat \ {0} /\ Len(pending[u]) \in Nat /\ First(u) \in Nat \ {0}
           /\ MaxBlocks[u] \in Nat
           /\ Pending(u) \subseteq Blocks /\ DOMAIN pending[u] = 1..Len(pending[u])
           /\ IsFiniteSet(Pending(u)) /\ Cardinality(Pending(u)) = Len(pending[u])
<1>1. /\ i[u] \in Nat \ {0} /\ Len(pending[u]) \in Nat
      /\ DOMAIN pending[u] = 1..Len(pending[u]) /\ MaxBlocks[u] \in Nat
  BY LenProperties, ConstantsAssumption DEF TypeOK
<1>2. First(u) \in Nat \ {0}
  BY <1>1 DEF LoopOK, First
<1>3. Pending(u) \subseteq Blocks
  BY <1>1, <1>2, InFile DEF LoopOK, Pending
<1>4. /\ IsFiniteSet(Pending(u))
      /\ Cardinality(Pending(u)) = IF First(u) > i[u] - 1 THEN 0 ELSE i[u] - 1 - First(u) + 1
  <2>1. First(u) \in Int /\ i[u] - 1 \in Int
    BY <1>1, <1>2
  <2> HIDE DEF First
  <2> QED BY <2>1, FS_Interval DEF Pending
<1>5. Cardinality(Pending(u)) = Len(pending[u])
  BY <1>1, <1>4 DEF First
<1> QED BY <1>1, <1>2, <1>3, <1>4, <1>5

\* Blocks whose result has been sent can be counted, and are some of those pending.
LEMMA SentCount ==
    ASSUME TypeOK, NEW u \in Uploads, LoopOK(u)
    PROVE  /\ IsFiniteSet(Sent(u)) /\ Sent(u) \subseteq Pending(u)
           /\ Cardinality(Sent(u)) \in Nat /\ Cardinality(Sent(u)) <= Len(pending[u])
           /\ Cardinality(Sent(u)) = Len(pending[u]) => Sent(u) = Pending(u)
<1>1. Sent(u) \subseteq Pending(u)
  BY DEF Sent
<1> QED BY <1>1, Numbers, FS_Subset, FS_CardinalityType

\* The goroutine of a block that has neither ended nor yet to start is of the
\* batch whose results are being collected.
LEMMA BusyIsPending ==
    ASSUME TypeOK, NEW u \in Uploads, UploadOK(u), NEW k \in Blocks, task[u][k] \in Busy
    PROVE  pc[u] = "collect" /\ k \in Pending(u) /\ k \notin Sent(u)
<1>1. task[u][k] \notin {"none"} \cup Reported
  BY DEF Busy, Reported
<1>2. k \in Nat \ {0} /\ i[u] \in Nat \ {0} /\ First(u) \in Nat \ {0}
  BY Numbers, BlockIsPositive DEF UploadOK
<1>3. TaskOK(u, k) /\ ~(k >= i[u]) /\ ~(k < First(u))
  BY <1>1 DEF UploadOK, TasksOK, TaskOK
<1>4. k \in Pending(u)
  BY <1>2, <1>3 DEF Pending
<1> QED BY <1>1, <1>3, <1>4 DEF TaskOK, Sent

\* Silent steps do not disturb an upload.
LEMMA SilentStep ==
    ASSUME TypeOK, NEW v \in Uploads, UploadOK(v), SameLoop(v),
           chan'[v] = chan[v], stored'[v] = stored[v],
           \A j \in Blocks : Silent(v, j)
    PROVE  UploadOK(v)'
<1>1. First(v)' = First(v) /\ Pending(v)' = Pending(v)
  BY DEF SameLoop, First, Pending
<1>2. \A j \in Blocks :
         /\ task'[v][j] \in Reported <=> task[v][j] \in Reported
         /\ task'[v][j] = "none" <=> task[v][j] = "none"
  BY DEF Silent, Busy, Reported
<1>3. Pending(v) \subseteq Blocks
  BY Numbers DEF UploadOK
<1>4. Sent(v)' = Sent(v)
  <2>1. Sent(v)' = {j \in Pending(v)' : task'[v][j] \in Reported}
    BY DEF Sent, Reported
  <2> QED BY <1>1, <1>2, <1>3, <2>1 DEF Sent, Reported
<1>5. LoopOK(v)'
  BY <1>1 DEF UploadOK, LoopOK, SameLoop
<1>6. TasksOK(v)'
  <2> SUFFICES ASSUME NEW j \in Blocks PROVE TaskOK(v, j)'
    BY DEF TasksOK
  <2>1. TaskOK(v, j)
    BY DEF UploadOK, TasksOK
  <2> QED BY <1>1, <1>2, <2>1 DEF TaskOK, SameLoop, Reported
<1>7. ResultsOK(v)'
  BY <1>4 DEF UploadOK, ResultsOK, SameLoop
<1> QED BY <1>5, <1>6, <1>7 DEF UploadOK

\* One goroutine reports: a good result only if its block is stored.
LEMMA ReportStep ==
    ASSUME TypeOK, NEW v \in Uploads, UploadOK(v), SameLoop(v),
           NEW k \in Blocks, task[v][k] \in Busy, task'[v][k] \in Reported,
           \A j \in Blocks \ {k} : Silent(v, j),
           NEW r \in {"ok", "err"}, chan'[v] = Append(chan[v], r),
           stored'[v] \in {stored[v], stored[v] \cup {k}},
           r = "ok" => k \in stored'[v]
    PROVE  UploadOK(v)'
<1>1. First(v)' = First(v) /\ Pending(v)' = Pending(v)
  BY DEF SameLoop, First, Pending
<1>2. \A j \in Blocks \ {k} :
         /\ task'[v][j] \in Reported <=> task[v][j] \in Reported
         /\ task'[v][j] = "none" <=> task[v][j] = "none"
  BY DEF Silent, Busy, Reported
<1>3. pc[v] = "collect" /\ k \in Pending(v) /\ k \notin Sent(v)
  BY BusyIsPending
<1>4. Pending(v) \subseteq Blocks
  BY Numbers DEF UploadOK
<1>5. Sent(v)' = Sent(v) \cup {k}
  <2>1. Sent(v)' = {j \in Pending(v)' : task'[v][j] \in Reported}
    BY DEF Sent, Reported
  <2> QED BY <1>1, <1>2, <1>3, <1>4, <2>1 DEF Sent, Reported
<1>6. LoopOK(v)'
  BY <1>1 DEF UploadOK, LoopOK, SameLoop
<1>7. TasksOK(v)'
  <2>1. "none" \notin Reported
    BY DEF Reported
  <2>2. k \in Nat \ {0} /\ i[v] \in Nat \ {0} /\ First(v) \in Nat \ {0}
    BY Numbers, BlockIsPositive DEF UploadOK
  <2>3. ~(k >= i[v]) /\ ~(k < First(v))
    BY <1>3, <2>2 DEF Pending
  <2>4. stored[v] \subseteq stored'[v]
    OBVIOUS
  <2> SUFFICES ASSUME NEW j \in Blocks PROVE TaskOK(v, j)'
    BY DEF TasksOK
  <2>5. TaskOK(v, j)
    BY DEF UploadOK, TasksOK
  <2>6. CASE j = k
    BY <1>1, <1>3, <2>1, <2>3, <2>6 DEF TaskOK, SameLoop, Reported
  <2>7. CASE j # k
    BY <1>1, <1>2, <2>4, <2>5, <2>7 DEF TaskOK, SameLoop, Reported
  <2> QED BY <2>6, <2>7
<1>8. ResultsOK(v)'
  <2>1. chan[v] \in Seq({"ok", "err"}) /\ got[v] \in Nat
    BY DEF TypeOK
  <2>2. /\ Len(chan[v]) \in Nat /\ Len(chan'[v]) = Len(chan[v]) + 1
        /\ \A n \in 1..Len(chan[v]) : chan'[v][n] = chan[v][n]
        /\ chan'[v][Len(chan[v]) + 1] = r
    BY <2>1, AppendProperties, LenProperties
  <2>3. Cardinality(Sent(v)') = Cardinality(Sent(v)) + 1
    BY <1>3, <1>5, SentCount, FS_AddElement DEF UploadOK
  <2>4. got'[v] + Len(chan'[v]) = Cardinality(Sent(v)')
    BY <1>3, <2>1, <2>2, <2>3, SentCount DEF UploadOK, ResultsOK, SameLoop
  <2>5. ASSUME ~firstErr'[v], \A n \in 1..Len(chan'[v]) : chan'[v][n] = "ok"
        PROVE  Sent(v)' \subseteq stored'[v]
    <3>1. r = "ok" /\ \A n \in 1..Len(chan[v]) : chan[v][n] = "ok"
      <4>1. Len(chan[v]) + 1 \in 1..Len(chan'[v]) /\ 1..Len(chan[v]) \subseteq 1..Len(chan'[v])
        BY <2>2
      <4> QED BY <2>2, <2>5, <4>1
    <3>2. Sent(v) \subseteq stored[v]
      BY <1>3, <2>5, <3>1 DEF UploadOK, ResultsOK, SameLoop
    <3> QED BY <1>5, <3>1, <3>2
  <2> QED BY <2>4, <2>5 DEF ResultsOK
<1> QED BY <1>6, <1>7, <1>8 DEF UploadOK

-----------------------------------------------------------------------------
(* The steps of the goroutines *)

\* SetTask moves one goroutine.
LEMMA SetTaskMoves ==
    ASSUME TypeOK, NEW u \in Uploads, NEW k \in Blocks, NEW s \in TaskStates, SetTask(u, k, s)
    PROVE  /\ task' \in [Uploads -> [Blocks -> TaskStates]]
           /\ task'[u][k] = s
           /\ \A v \in Uploads, j \in Blocks : <<v, j>> # <<u, k>> => task'[v][j] = task[v][j]
BY DEF TypeOK, SetTask

\* A result sent leaves a channel of results.
LEMMA SendType ==
    ASSUME TypeOK, NEW u \in Uploads, NEW r \in {"ok", "err"}, Send(u, r)
    PROVE  /\ chan' \in [Uploads -> Seq({"ok", "err"})]
           /\ chan'[u] = Append(chan[u], r)
           /\ \A v \in Uploads \ {u} : chan'[v] = chan[v]
BY DEF TypeOK, Send

\* A goroutine that takes a permit or queues for one
LEMMA AcquireOK ==
    ASSUME IInv, NEW u \in Uploads, NEW k \in Blocks, Acquire(u, k) PROVE IInv'
<1>1. /\ TypeOK /\ SemaphoreOK /\ task[u][k] = "start"
      /\ \A v \in Uploads : UploadOK(v)
      /\ UNCHANGED <<pc, loopVars, batchVars, ctxDone, stored, active>>
  BY DEF IInv, Acquire
<1>2. /\ cur \in Nat /\ N \in Nat
      /\ waiters \in Seq(Uploads \X Blocks) /\ <<u, k>> \in Uploads \X Blocks
  BY <1>1, ConstantsAssumption DEF TypeOK
<1>3. PICK s \in {"uploading", "waiting"} : SetTask(u, k, s)
  BY DEF Acquire
<1>4. /\ task' \in [Uploads -> [Blocks -> TaskStates]]
      /\ task'[u][k] = s
      /\ \A v \in Uploads, j \in Blocks : <<v, j>> # <<u, k>> => task'[v][j] = task[v][j]
  BY <1>1, <1>3, SetTaskMoves DEF TaskStates
<1>5. cur' \in Nat /\ waiters' \in Seq(Uploads \X Blocks)
  <2>1. Append(waiters, <<u, k>>) \in Seq(Uploads \X Blocks)
    BY <1>2, AppendProperties
  <2>2. waiters' = waiters \/ waiters' = Append(waiters, <<u, k>>)
    BY DEF Acquire
  <2>3. cur' = cur \/ cur' = cur + 1
    BY DEF Acquire
  <2>4. waiters' \in Seq(Uploads \X Blocks)
    BY <1>2, <2>1, <2>2
  <2>5. cur' \in Nat
    BY <1>2, <2>3
  <2> QED BY <2>4, <2>5
<1>6. TypeOK'
  BY <1>1, <1>4, <1>5 DEF TypeOK, loopVars, batchVars
<1>7. ASSUME NEW v \in Uploads PROVE UploadOK(v)'
  <2>1. SameLoop(v) /\ chan'[v] = chan[v] /\ stored'[v] = stored[v]
    BY <1>1 DEF SameLoop, loopVars, batchVars
  <2>2. \A j \in Blocks : Silent(v, j)
    BY <1>1, <1>4 DEF Silent, Busy
  <2> QED BY <1>1, <2>1, <2>2, SilentStep
<1>8. SemaphoreOK'
  <2>1. CASE cur < N /\ waiters = <<>>
    <3>1. cur' = cur + 1 /\ waiters' = waiters /\ task'[u][k] = "uploading"
      BY <1>1, <2>1, SetTaskMoves DEF Acquire, TaskStates
    <3>2. Holders' = Holders \cup {<<u, k>>} /\ <<u, k>> \notin Holders
      <4>1. Holders' = {x \in Uploads \X Blocks : task'[x[1]][x[2]] \in Holding}
        BY DEF Holders, Holding
      <4>2. "uploading" \in Holding /\ "start" \notin Holding
        BY DEF Holding
      <4>3. ASSUME NEW x \in Uploads \X Blocks
            PROVE  task'[x[1]][x[2]] \in Holding <=> task[x[1]][x[2]] \in Holding \/ x = <<u, k>>
        BY <1>4, <3>1, <4>2
      <4> QED BY <1>1, <4>1, <4>2, <4>3, HoldersAre
    <3>3. IsFiniteSet(Holders') /\ Cardinality(Holders') = cur + 1
      BY <1>1, <3>2, FS_AddElement DEF SemaphoreOK, PermitsConserved
    <3>4. PermitsConserved'
      BY <1>2, <2>1, <3>1, <3>3 DEF PermitsConserved
    <3>5. QueueOK'
      <4>1. \A v \in Uploads, j \in Blocks : task[v][j] # "waiting"
        BY <1>1, <2>1 DEF SemaphoreOK, QueueOK
      <4>2. \A v \in Uploads, j \in Blocks : task'[v][j] # "waiting"
        BY <1>4, <3>1, <4>1
      <4> QED BY <2>1, <3>1, <4>2 DEF QueueOK
    <3> QED BY <3>3, <3>4, <3>5 DEF SemaphoreOK
  <2>2. CASE ~(cur < N /\ waiters = <<>>)
    <3>1. cur' = cur /\ waiters' = Append(waiters, <<u, k>>) /\ task'[u][k] = "waiting"
      BY <1>1, <2>2, SetTaskMoves DEF Acquire, TaskStates
    <3>2. Holders' = Holders
      <4>1. Holders' = {x \in Uploads \X Blocks : task'[x[1]][x[2]] \in Holding}
        BY DEF Holders, Holding
      <4>2. "waiting" \notin Holding /\ "start" \notin Holding
        BY DEF Holding
      <4>3. ASSUME NEW x \in Uploads \X Blocks
            PROVE  task'[x[1]][x[2]] \in Holding <=> task[x[1]][x[2]] \in Holding
        BY <1>1, <1>4, <3>1, <4>2
      <4> QED BY <4>1, <4>3, HoldersAre
    <3>3. IsFiniteSet(Holders') /\ PermitsConserved'
      BY <1>1, <3>1, <3>2 DEF SemaphoreOK, PermitsConserved
    <3>4. cur = N
      BY <1>1, <1>2, <2>2 DEF SemaphoreOK, PermitsConserved, QueueOK
    <3>5. /\ Len(waiters) \in Nat /\ DOMAIN waiters = 1..Len(waiters)
          /\ DOMAIN waiters' = 1..(Len(waiters) + 1)
          /\ \A n \in 1..Len(waiters) : waiters'[n] = waiters[n]
          /\ waiters'[Len(waiters) + 1] = <<u, k>>
      BY <1>2, <3>1, AppendProperties, LenProperties
    <3>6. \A n \in DOMAIN waiters : waiters[n] # <<u, k>>
      BY <1>1 DEF SemaphoreOK, QueueOK
    <3>7. ASSUME NEW n \in DOMAIN waiters'
          PROVE  task'[waiters'[n][1]][waiters'[n][2]] = "waiting"
      <4>1. CASE n \in DOMAIN waiters
        <5>1. /\ waiters[n][1] \in Uploads /\ waiters[n][2] \in Blocks
              /\ waiters[n] = <<waiters[n][1], waiters[n][2]>>
              /\ task[waiters[n][1]][waiters[n][2]] = "waiting"
          BY <1>1, <4>1, WaiterType DEF SemaphoreOK, QueueOK
        <5> QED BY <1>4, <3>5, <3>6, <4>1, <5>1
      <4>2. CASE n = Len(waiters) + 1
        BY <3>1, <3>5, <4>2
      <4> QED BY <3>5, <4>1, <4>2
    <3>8. ASSUME NEW m \in DOMAIN waiters', NEW n \in DOMAIN waiters', waiters'[m] = waiters'[n]
          PROVE  m = n
      <4>1. \A x \in DOMAIN waiters' : x \in DOMAIN waiters \/ x = Len(waiters) + 1
        BY <3>5
      <4>2. \A x \in DOMAIN waiters : waiters'[x] = waiters[x]
        BY <3>5
      <4>3. CASE m \in DOMAIN waiters /\ n \in DOMAIN waiters
        BY <1>1, <3>8, <4>2, <4>3 DEF SemaphoreOK, QueueOK
      <4>4. CASE m = Len(waiters) + 1 \/ n = Len(waiters) + 1
        BY <3>5, <3>6, <3>8, <4>1, <4>2, <4>4
      <4> QED BY <4>1, <4>3, <4>4
    <3>9. ASSUME NEW v \in Uploads, NEW j \in Blocks, task'[v][j] = "waiting"
          PROVE  \E n \in DOMAIN waiters' : waiters'[n] = <<v, j>>
      <4>1. CASE <<v, j>> = <<u, k>>
        <5>1. Len(waiters) + 1 \in DOMAIN waiters'
          BY <3>5
        <5> QED BY <3>5, <4>1, <5>1
      <4>2. CASE <<v, j>> # <<u, k>>
        <5>1. PICK n \in DOMAIN waiters : waiters[n] = <<v, j>>
          BY <1>1, <1>4, <3>9, <4>2 DEF SemaphoreOK, QueueOK
        <5>2. n \in DOMAIN waiters'
          BY <3>5
        <5> QED BY <3>5, <5>1, <5>2
      <4> QED BY <4>1, <4>2
    <3>10. QueueOK'
      BY <3>1, <3>4, <3>7, <3>8, <3>9 DEF QueueOK
    <3> QED BY <3>3, <3>10 DEF SemaphoreOK
  <2> QED BY <2>1, <2>2
<1> QED BY <1>6, <1>7, <1>8 DEF IInv

\* A goroutine that gives up before it holds a permit, and leaves the queue
LEMMA AcquireFailsOK ==
    ASSUME IInv, NEW u \in Uploads, NEW k \in Blocks, AcquireFails(u, k) PROVE IInv'
<1>1. /\ TypeOK /\ SemaphoreOK /\ task[u][k] \in {"start", "waiting"}
      /\ \A v \in Uploads : UploadOK(v)
      /\ SetTask(u, k, "done") /\ Send(u, "err") /\ cur' = cur
      /\ UNCHANGED <<pc, loopVars, got, firstErr, cancelled, ctxDone, stored, active>>
  BY DEF IInv, AcquireFails, Unqueued
<1>2. cur \in Nat /\ N \in Nat /\ waiters \in Seq(Uploads \X Blocks)
  BY <1>1, ConstantsAssumption DEF TypeOK
<1>3. /\ task' \in [Uploads -> [Blocks -> TaskStates]]
      /\ task'[u][k] = "done"
      /\ \A v \in Uploads, j \in Blocks : <<v, j>> # <<u, k>> => task'[v][j] = task[v][j]
  BY <1>1, SetTaskMoves DEF TaskStates
<1>4. /\ chan' \in [Uploads -> Seq({"ok", "err"})]
      /\ chan'[u] = Append(chan[u], "err")
      /\ \A v \in Uploads \ {u} : chan'[v] = chan[v]
  BY <1>1, SendType
<1>5. ASSUME NEW v \in Uploads PROVE UploadOK(v)'
  <2>1. SameLoop(v) /\ stored'[v] = stored[v]
    BY <1>1 DEF SameLoop, loopVars
  <2>2. CASE v = u
    <3>1. task[v][k] \in Busy /\ task'[v][k] \in Reported
      BY <1>1, <1>3, <2>2 DEF Busy, Reported
    <3>2. \A j \in Blocks \ {k} : Silent(v, j)
      BY <1>3, <2>2 DEF Silent
    <3>3. chan'[v] = Append(chan[v], "err")
      BY <1>4, <2>2
    <3> QED BY <1>1, <2>1, <3>1, <3>2, <3>3, ReportStep
  <2>3. CASE v # u
    <3>1. \A j \in Blocks : Silent(v, j)
      BY <1>3, <2>3 DEF Silent
    <3>2. chan'[v] = chan[v]
      BY <1>4, <2>3
    <3> QED BY <1>1, <2>1, <3>1, <3>2, SilentStep
  <2> QED BY <2>2, <2>3
<1>6. CASE task[u][k] = "start" /\ waiters' = waiters
  <2>1. TypeOK'
    BY <1>1, <1>2, <1>3, <1>4, <1>6 DEF TypeOK, loopVars
  <2>2. SemaphoreOK'
    BY <1>1, <1>3, <1>6, SameSemaphore DEF semVars, Holding
  <2> QED BY <1>5, <2>1, <2>2 DEF IInv
<1>7. CASE /\ task[u][k] = "waiting"
           /\ \E n \in DOMAIN waiters : waiters[n] = <<u, k>> /\ waiters' = RemoveAt(waiters, n)
  <2>1. PICK n \in DOMAIN waiters : waiters[n] = <<u, k>> /\ waiters' = RemoveAt(waiters, n)
    BY <1>7
  <2>2. /\ waiters' \in Seq(Uploads \X Blocks) /\ Len(waiters') = Len(waiters) - 1
        /\ \A m \in 1..(Len(waiters) - 1) :
              waiters'[m] = IF m < n THEN waiters[m] ELSE waiters[m + 1]
    BY <1>2, <2>1, RemovedWaiter
  <2>3. /\ Len(waiters) \in Nat /\ DOMAIN waiters = 1..Len(waiters)
        /\ DOMAIN waiters' = 1..(Len(waiters) - 1)
    BY <1>2, <2>2, LenProperties
  <2>4. TypeOK'
    BY <1>1, <1>2, <1>3, <1>4, <2>2 DEF TypeOK, loopVars
  <2> DEFINE from(m) == IF m < n THEN m ELSE m + 1
  <2>5. \A m \in DOMAIN waiters' :
           from(m) \in DOMAIN waiters \ {n} /\ waiters'[m] = waiters[from(m)]
    BY <2>2, <2>3
  <2>6. \A l, m \in DOMAIN waiters' : from(l) = from(m) => l = m
    BY <2>3
  <2>7. \A x \in DOMAIN waiters \ {n} : \E m \in DOMAIN waiters' : x = from(m)
    <3> SUFFICES ASSUME NEW x \in DOMAIN waiters \ {n}
                 PROVE  \E m \in DOMAIN waiters' : x = from(m)
      OBVIOUS
    <3>1. CASE x < n
      <4>1. x \in DOMAIN waiters' /\ x = from(x)
        BY <2>3, <3>1
      <4> HIDE DEF from
      <4> QED BY <4>1
    <3>2. CASE ~(x < n)
      <4>1. x - 1 \in DOMAIN waiters' /\ x = from(x - 1)
        BY <2>3, <3>2
      <4> HIDE DEF from
      <4> QED BY <4>1
    <3> QED BY <3>1, <3>2
  <2> HIDE DEF from
  <2>8. Holders' = Holders
    <3>1. Holders' = {x \in Uploads \X Blocks : task'[x[1]][x[2]] \in Holding}
      BY DEF Holders, Holding
    <3>2. "waiting" \notin Holding /\ "done" \notin Holding
      BY DEF Holding
    <3>3. ASSUME NEW x \in Uploads \X Blocks
          PROVE  task'[x[1]][x[2]] \in Holding <=> task[x[1]][x[2]] \in Holding
      BY <1>3, <1>7, <3>2
    <3> QED BY <3>1, <3>3, HoldersAre
  <2>9. QueueOK'
    <3>1. waiters' # <<>> => cur' = N
      BY <1>1, <2>1 DEF SemaphoreOK, QueueOK
    <3>2. ASSUME NEW m \in DOMAIN waiters'
          PROVE  task'[waiters'[m][1]][waiters'[m][2]] = "waiting"
      <4>1. /\ waiters'[m][1] \in Uploads /\ waiters'[m][2] \in Blocks
            /\ waiters'[m] = <<waiters'[m][1], waiters'[m][2]>>
            /\ task[waiters'[m][1]][waiters'[m][2]] = "waiting"
        BY <1>1, <2>5, WaiterType DEF SemaphoreOK, QueueOK
      <4>2. waiters'[m] # <<u, k>>
        BY <1>1, <2>1, <2>5 DEF SemaphoreOK, QueueOK
      <4> QED BY <1>3, <4>1, <4>2
    <3>3. \A l, m \in DOMAIN waiters' : waiters'[l] = waiters'[m] => l = m
      BY <1>1, <2>5, <2>6 DEF SemaphoreOK, QueueOK
    <3>4. ASSUME NEW v \in Uploads, NEW j \in Blocks, task'[v][j] = "waiting"
          PROVE  \E m \in DOMAIN waiters' : waiters'[m] = <<v, j>>
      <4>1. <<v, j>> # <<u, k>> /\ task[v][j] = "waiting"
        BY <1>3, <3>4
      <4>2. PICK x \in DOMAIN waiters : waiters[x] = <<v, j>>
        BY <1>1, <4>1 DEF SemaphoreOK, QueueOK
      <4>3. x # n
        BY <2>1, <4>1, <4>2
      <4> QED BY <2>5, <2>7, <4>2, <4>3
    <3> QED BY <3>1, <3>2, <3>3, <3>4 DEF QueueOK
  <2>10. SemaphoreOK'
    BY <1>1, <2>8, <2>9 DEF SemaphoreOK, PermitsConserved
  <2> QED BY <1>5, <2>4, <2>10 DEF IInv
<1> QED BY <1>6, <1>7 DEF AcquireFails, Unqueued

\* A goroutine that was handed a permit: with the context done it passes it on.
LEMMA GrantedOK ==
    ASSUME IInv, NEW u \in Uploads, NEW k \in Blocks, Granted(u, k) PROVE IInv'
<1>1. /\ TypeOK /\ SemaphoreOK /\ task[u][k] = "granted"
      /\ \A v \in Uploads : UploadOK(v)
      /\ UNCHANGED <<pc, loopVars, got, firstErr, cancelled, ctxDone, stored, active>>
  BY DEF IInv, Granted
<1>2. \A v \in Uploads : SameLoop(v) /\ stored'[v] = stored[v]
  BY <1>1 DEF SameLoop, loopVars
<1>3. CASE UploadCtxDone(u)
  <2>1. Send(u, "err") /\ GiveBack([task EXCEPT ![u][k] = "done"])
    BY <1>3 DEF Granted
  <2>2. /\ task' \in [Uploads -> [Blocks -> TaskStates]]
        /\ cur' \in Nat /\ waiters' \in Seq(Uploads \X Blocks)
        /\ SemaphoreOK'
        /\ task'[u][k] = "done"
        /\ \A v \in Uploads, j \in Blocks : <<v, j>> # <<u, k>> =>
              \/ task'[v][j] = task[v][j]
              \/ task[v][j] = "waiting" /\ task'[v][j] = "granted"
    BY <1>1, <2>1, GiveBackOK DEF Holding
  <2>3. /\ chan' \in [Uploads -> Seq({"ok", "err"})]
        /\ chan'[u] = Append(chan[u], "err")
        /\ \A v \in Uploads \ {u} : chan'[v] = chan[v]
    BY <1>1, <2>1, SendType
  <2>4. TypeOK'
    BY <1>1, <2>2, <2>3 DEF TypeOK, loopVars
  <2>5. ASSUME NEW v \in Uploads PROVE UploadOK(v)'
    <3>1. CASE v = u
      <4>1. task[v][k] \in Busy /\ task'[v][k] \in Reported
        BY <1>1, <2>2, <3>1 DEF Busy, Reported
      <4>2. \A j \in Blocks \ {k} : Silent(v, j)
        BY <2>2, <3>1 DEF Silent, Busy
      <4>3. chan'[v] = Append(chan[v], "err")
        BY <2>3, <3>1
      <4> QED BY <1>1, <1>2, <4>1, <4>2, <4>3, ReportStep
    <3>2. CASE v # u
      <4>1. \A j \in Blocks : Silent(v, j)
        BY <2>2, <3>2 DEF Silent, Busy
      <4>2. chan'[v] = chan[v]
        BY <2>3, <3>2
      <4> QED BY <1>1, <1>2, <4>1, <4>2, SilentStep
    <3> QED BY <3>1, <3>2
  <2> QED BY <2>2, <2>4, <2>5 DEF IInv
<1>4. CASE ~UploadCtxDone(u)
  <2>1. SetTask(u, k, "uploading") /\ UNCHANGED <<chan, semVars>>
    BY <1>4 DEF Granted
  <2>2. /\ task' \in [Uploads -> [Blocks -> TaskStates]]
        /\ task'[u][k] = "uploading"
        /\ \A v \in Uploads, j \in Blocks : <<v, j>> # <<u, k>> => task'[v][j] = task[v][j]
    BY <1>1, <2>1, SetTaskMoves DEF TaskStates
  <2>3. TypeOK'
    BY <1>1, <2>1, <2>2 DEF TypeOK, loopVars, semVars
  <2>4. SemaphoreOK'
    BY <1>1, <2>1, <2>2, SameSemaphore DEF Holding
  <2>5. ASSUME NEW v \in Uploads PROVE UploadOK(v)'
    <3>1. \A j \in Blocks : Silent(v, j)
      BY <1>1, <2>2 DEF Silent, Busy
    <3> QED BY <1>1, <1>2, <2>1, <3>1, SilentStep
  <2> QED BY <2>3, <2>4, <2>5 DEF IInv
<1> QED BY <1>3, <1>4

\* A block upload that ends, well or not
LEMMA UploadBlockOK ==
    ASSUME IInv, NEW u \in Uploads, NEW k \in Blocks, UploadBlock(u, k) PROVE IInv'
<1>1. /\ TypeOK /\ SemaphoreOK /\ task[u][k] = "uploading"
      /\ \A v \in Uploads : UploadOK(v)
      /\ SetTask(u, k, "release")
      /\ UNCHANGED <<pc, loopVars, got, firstErr, cancelled, ctxDone, semVars, active>>
  BY DEF IInv, UploadBlock
<1>2. /\ task' \in [Uploads -> [Blocks -> TaskStates]]
      /\ task'[u][k] = "release"
      /\ \A v \in Uploads, j \in Blocks : <<v, j>> # <<u, k>> => task'[v][j] = task[v][j]
  BY <1>1, SetTaskMoves DEF TaskStates
<1>3. PICK r \in {"ok", "err"} :
         /\ Send(u, r)
         /\ stored' \in {stored, [stored EXCEPT ![u] = @ \cup {k}]}
         /\ r = "ok" => stored' = [stored EXCEPT ![u] = @ \cup {k}]
  BY DEF UploadBlock
<1>4. /\ chan' \in [Uploads -> Seq({"ok", "err"})]
      /\ chan'[u] = Append(chan[u], r)
      /\ \A v \in Uploads \ {u} : chan'[v] = chan[v]
  BY <1>1, <1>3, SendType
<1>5. /\ stored' \in [Uploads -> SUBSET Blocks]
      /\ stored'[u] \in {stored[u], stored[u] \cup {k}}
      /\ r = "ok" => k \in stored'[u]
      /\ \A v \in Uploads \ {u} : stored'[v] = stored[v]
  <2>1. stored \in [Uploads -> SUBSET Blocks] /\ stored[u] \cup {k} \in SUBSET Blocks
    BY <1>1 DEF TypeOK
  <2>2. CASE stored' = stored
    BY <1>3, <2>1, <2>2
  <2>3. CASE stored' = [stored EXCEPT ![u] = @ \cup {k}]
    BY <2>1, <2>3
  <2> QED BY <1>3, <2>2, <2>3
<1>6. TypeOK'
  BY <1>1, <1>2, <1>4, <1>5 DEF TypeOK, loopVars, semVars
<1>7. SemaphoreOK'
  BY <1>1, <1>2, SameSemaphore DEF Holding
<1>8. ASSUME NEW v \in Uploads PROVE UploadOK(v)'
  <2>1. SameLoop(v)
    BY <1>1 DEF SameLoop, loopVars
  <2>2. CASE v = u
    <3>1. task[v][k] \in Busy /\ task'[v][k] \in Reported
      BY <1>1, <1>2, <2>2 DEF Busy, Reported
    <3>2. \A j \in Blocks \ {k} : Silent(v, j)
      BY <1>2, <2>2 DEF Silent
    <3>3. /\ chan'[v] = Append(chan[v], r)
          /\ stored'[v] \in {stored[v], stored[v] \cup {k}}
          /\ r = "ok" => k \in stored'[v]
      BY <1>4, <1>5, <2>2
    <3> QED BY <1>1, <2>1, <3>1, <3>2, <3>3, ReportStep
  <2>3. CASE v # u
    <3>1. \A j \in Blocks : Silent(v, j)
      BY <1>2, <2>3 DEF Silent
    <3>2. chan'[v] = chan[v] /\ stored'[v] = stored[v]
      BY <1>4, <1>5, <2>3
    <3> QED BY <1>1, <2>1, <3>1, <3>2, SilentStep
  <2> QED BY <2>2, <2>3
<1> QED BY <1>6, <1>7, <1>8 DEF IInv

\* A goroutine that has reported gives back its permit.
LEMMA ReleaseOK ==
    ASSUME IInv, NEW u \in Uploads, NEW k \in Blocks, Release(u, k) PROVE IInv'
<1>1. /\ TypeOK /\ SemaphoreOK /\ task[u][k] = "release"
      /\ \A v \in Uploads : UploadOK(v)
      /\ GiveBack([task EXCEPT ![u][k] = "done"])
      /\ UNCHANGED <<pc, loopVars, batchVars, ctxDone, stored, active>>
  BY DEF IInv, Release
<1>2. /\ task' \in [Uploads -> [Blocks -> TaskStates]]
      /\ cur' \in Nat /\ waiters' \in Seq(Uploads \X Blocks)
      /\ SemaphoreOK'
      /\ task'[u][k] = "done"
      /\ \A v \in Uploads, j \in Blocks : <<v, j>> # <<u, k>> =>
            \/ task'[v][j] = task[v][j]
            \/ task[v][j] = "waiting" /\ task'[v][j] = "granted"
  BY <1>1, GiveBackOK DEF Holding
<1>3. TypeOK'
  BY <1>1, <1>2 DEF TypeOK, loopVars, batchVars
<1>4. ASSUME NEW v \in Uploads PROVE UploadOK(v)'
  <2>1. SameLoop(v) /\ chan'[v] = chan[v] /\ stored'[v] = stored[v]
    BY <1>1 DEF SameLoop, loopVars, batchVars
  <2>2. \A j \in Blocks : Silent(v, j)
    BY <1>1, <1>2 DEF Silent, Busy, Reported
  <2> QED BY <1>1, <2>1, <2>2, SilentStep
<1> QED BY <1>2, <1>3, <1>4 DEF IInv

-----------------------------------------------------------------------------
(* The steps of the loop *)

\* A step of one upload's loop leaves the other uploads and the semaphore alone.
LEMMA LoopStepElsewhere ==
    ASSUME IInv, NEW u \in Uploads, UploadFile(u)
    PROVE  SemaphoreOK' /\ \A v \in Uploads \ {u} : UploadOK(v)'
<1>1. TypeOK /\ SemaphoreOK /\ \A v \in Uploads : UploadOK(v)
  BY DEF IInv
<1>2. /\ UNCHANGED semVars
      /\ \A v \in Uploads \ {u} :
            SameLoop(v) /\ chan'[v] = chan[v] /\ stored'[v] = stored[v] /\ task'[v] = task[v]
  <2>1. CASE Verify(u) \/ LoopTop(u) \/ ReadEnd(u) \/ ReadFails(u) \/ RequestFails(u)
    BY <1>1, <2>1 DEF Verify, LoopTop, ReadEnd, ReadFails, RequestFails, Flush, Goto,
                      SameLoop, TypeOK, loopVars, batchVars, semVars
  <2>2. CASE ReadBlock(u)
    BY <1>1, <2>2 DEF ReadBlock, Goto, SameLoop, TypeOK, batchVars, semVars
  <2>3. CASE RequestBlockUpload(u)
    BY <1>1, <2>3 DEF RequestBlockUpload, Goto, SameLoop, TypeOK, loopVars, semVars
  <2>4. CASE Collect(u)
    BY <1>1, <2>4 DEF Collect, SameLoop, TypeOK, loopVars, semVars
  <2>5. CASE EndOfBatch(u)
    BY <1>1, <2>5 DEF EndOfBatch, Goto, SameLoop, TypeOK, semVars
  <2>6. CASE CommitRevision(u) \/ CommitFails(u)
    BY <1>1, <2>6 DEF CommitRevision, CommitFails, Goto, SameLoop, TypeOK,
                      loopVars, batchVars, semVars
  <2> QED BY <2>1, <2>2, <2>3, <2>4, <2>5, <2>6 DEF UploadFile
<1>3. ASSUME NEW j \in Blocks
      PROVE  task'[u][j] = task[u][j] \/ (task[u][j] = "none" /\ task'[u][j] = "start")
  <2>1. CASE RequestBlockUpload(u)
    <3>1. task'[u][j] = IF j \in ToSet(pending[u]) THEN "start" ELSE task[u][j]
      BY <1>1, <2>1 DEF RequestBlockUpload, TypeOK
    <3>2. CASE j \in ToSet(pending[u])
      <4>1. PICK b \in DOMAIN pending[u] : j = pending[u][b]
        BY <3>2 DEF ToSet
      <4>2. j \in Pending(u)
        <5>1. LoopOK(u) /\ i[u] \in Nat /\ Len(pending[u]) \in Nat
              /\ b \in 1..Len(pending[u])
          BY <1>1, <4>1, Numbers DEF UploadOK
        <5>2. j = First(u) + b - 1
          BY <4>1, <5>1 DEF LoopOK
        <5> QED BY <5>1, <5>2 DEF Pending, First
      <4>3. task[u][j] = "none"
        BY <1>1, <2>1, <4>2 DEF RequestBlockUpload, UploadOK, TasksOK, TaskOK
      <4> QED BY <3>1, <3>2, <4>3
    <3> QED BY <3>1, <3>2
  <2>2. CASE ~RequestBlockUpload(u)
    <3>1. task' = task
      BY <2>2 DEF UploadFile, Verify, LoopTop, ReadBlock, ReadEnd, ReadFails, RequestFails,
                  Collect, EndOfBatch, CommitRevision, CommitFails
    <3> QED BY <3>1
  <2> QED BY <2>1, <2>2
<1>4. SemaphoreOK'
  <2>1. \A v \in Uploads, j \in Blocks :
           task'[v][j] = task[v][j] \/ (task[v][j] = "none" /\ task'[v][j] = "start")
    BY <1>2, <1>3
  <2> QED BY <1>1, <1>2, <2>1, SameSemaphore DEF Holding
<1>5. ASSUME NEW v \in Uploads \ {u} PROVE UploadOK(v)'
  <2>1. \A j \in Blocks : Silent(v, j)
    BY <1>2 DEF Silent
  <2> QED BY <1>1, <1>2, <2>1, SilentStep
<1> QED BY <1>4, <1>5

\* A loop that moves on outside of a batch and touches none of its blocks
LEMMA LoopMoves ==
    ASSUME TypeOK, NEW u \in Uploads, UploadOK(u),
           pc[u] \notin {"collect", "failed"}, pc'[u] # "collect",
           i'[u] = i[u], pending'[u] = pending[u], manifest'[u] = manifest[u],
           sizes'[u] = sizes[u], task'[u] = task[u], stored'[u] = stored[u],
           pc'[u] \in {"commit", "returned"} \/ active'[u] => pending[u] = <<>>,
           active'[u] => pc'[u] \in {"returned", "failed"}
    PROVE  UploadOK(u)'
<1>1. First(u)' = First(u) /\ Pending(u)' = Pending(u)
  BY DEF First, Pending
<1>2. LoopOK(u)'
  BY <1>1 DEF UploadOK, LoopOK
<1>3. TasksOK(u)'
  <2> SUFFICES ASSUME NEW j \in Blocks PROVE TaskOK(u, j)'
    BY DEF TasksOK
  <2>1. TaskOK(u, j)
    BY DEF UploadOK, TasksOK
  <2> QED BY <1>1, <2>1 DEF TaskOK, Reported
<1>4. ResultsOK(u)'
  BY DEF ResultsOK
<1> QED BY <1>2, <1>3, <1>4 DEF UploadOK

\* A block read is pending, hashed and measured.
LEMMA ReadBlockOK ==
    ASSUME IInv, NEW u \in Uploads, ReadBlock(u) PROVE UploadOK(u)'
<1>1. TypeOK /\ UploadOK(u) /\ LoopOK(u) /\ pc[u] = "read" /\ i[u] <= MaxBlocks[u]
  BY DEF IInv, UploadOK, ReadBlock
<1>2. PICK size \in {"full", "short"} : sizes' = [sizes EXCEPT ![u] = Append(@, size)]
  BY DEF ReadBlock
<1>3. /\ i[u] \in Nat \ {0} /\ Len(pending[u]) \in Nat /\ First(u) \in Nat \ {0}
      /\ MaxBlocks[u] \in Nat
      /\ i[u] \in Blocks
  BY <1>1, Numbers, InFile
<1>4. /\ pending[u] \in Seq(Blocks) /\ manifest[u] \in Seq(Blocks)
      /\ sizes[u] \in Seq({"full", "short"})
  BY <1>1 DEF TypeOK
<1>5. /\ pc'[u] = "top" /\ i'[u] = i[u] + 1 /\ task' = task /\ stored' = stored /\ active' = active
      /\ pending'[u] = Append(pending[u], i[u]) /\ manifest'[u] = Append(manifest[u], i[u])
      /\ sizes'[u] = Append(sizes[u], size)
  BY <1>1, <1>2 DEF ReadBlock, Goto, TypeOK
<1>6. /\ Len(pending'[u]) = Len(pending[u]) + 1
      /\ \A b \in 1..Len(pending[u]) : pending'[u][b] = pending[u][b]
      /\ pending'[u][Len(pending[u]) + 1] = i[u]
  BY <1>3, <1>4, <1>5, AppendProperties
<1>7. /\ Len(manifest'[u]) = Len(manifest[u]) + 1
      /\ \A b \in 1..Len(manifest[u]) : manifest'[u][b] = manifest[u][b]
      /\ manifest'[u][Len(manifest[u]) + 1] = i[u]
  BY <1>3, <1>4, <1>5, AppendProperties
<1>8. Len(sizes'[u]) = Len(sizes[u]) + 1
  BY <1>4, <1>5, AppendProperties
<1>9. First(u)' = First(u)
  BY <1>3, <1>5, <1>6 DEF First
<1>10. Pending(u)' = Pending(u) \cup {i[u]}
  <2>1. Pending(u)' = First(u)'..(i'[u] - 1)
    BY DEF Pending
  <2>2. i'[u] - 1 = i[u]
    BY <1>3, <1>5
  <2>3. Pending(u)' = First(u)..i[u]
    BY <1>9, <2>1, <2>2
  <2>4. First(u) <= i[u]
    BY <1>3 DEF First
  <2>5. First(u)..i[u] = (First(u)..(i[u] - 1)) \cup {i[u]}
    BY <1>3, <2>4
  <2> QED BY <2>3, <2>5 DEF Pending
<1>11. LoopOK(u)'
  <2>1. Len(pending'[u]) < i'[u] /\ i'[u] <= MaxBlocks[u] + 1
    BY <1>1, <1>3, <1>5, <1>6 DEF LoopOK
  <2>2. ASSUME NEW b \in 1..Len(pending'[u]) PROVE pending'[u][b] = First(u)' + b - 1
    <3>1. CASE b \in 1..Len(pending[u])
      BY <1>1, <1>6, <1>9, <3>1 DEF LoopOK
    <3>2. CASE b = Len(pending[u]) + 1
      BY <1>3, <1>6, <1>9, <3>2 DEF First
    <3> QED BY <1>3, <1>6, <3>1, <3>2
  <2>3. Len(manifest'[u]) = i'[u] - 1 /\ Len(sizes'[u]) = i'[u] - 1
    BY <1>1, <1>3, <1>5, <1>7, <1>8 DEF LoopOK
  <2>4. ASSUME NEW b \in 1..(i'[u] - 1) PROVE manifest'[u][b] = b
    <3>1. b \in 1..(i[u] - 1) \/ b = i[u]
      BY <1>3, <1>5
    <3>2. Len(manifest[u]) = i[u] - 1 /\ Len(manifest[u]) + 1 = i[u]
      BY <1>1, <1>3 DEF LoopOK
    <3> QED BY <1>1, <1>7, <3>1, <3>2 DEF LoopOK
  <2>5. ~active'[u]
    BY <1>1, <1>5 DEF LoopOK
  <2> QED BY <1>5, <2>1, <2>2, <2>3, <2>4, <2>5 DEF LoopOK
<1>12. TasksOK(u)'
  <2> SUFFICES ASSUME NEW j \in Blocks PROVE TaskOK(u, j)'
    BY DEF TasksOK
  <2>1. TaskOK(u, j) /\ j \in Nat \ {0}
    BY <1>1, BlockIsPositive DEF UploadOK, TasksOK
  <2>2. j >= i'[u] => j >= i[u]
    BY <1>3, <1>5, <2>1
  <2>3. j \in Pending(u)' => j \in Pending(u) \/ j >= i[u]
    BY <1>3, <1>10
  <2> QED BY <1>1, <1>5, <1>9, <2>1, <2>2, <2>3 DEF TaskOK, Reported
<1>13. ResultsOK(u)'
  BY <1>5 DEF ResultsOK
<1> QED BY <1>11, <1>12, <1>13 DEF UploadOK

\* A batch that starts has reported nothing.
LEMMA RequestBlockUploadOK ==
    ASSUME IInv, NEW u \in Uploads, RequestBlockUpload(u) PROVE UploadOK(u)'
<1>1. TypeOK /\ UploadOK(u) /\ LoopOK(u) /\ pc[u] = "request"
  BY DEF IInv, UploadOK, RequestBlockUpload
<1>2. /\ i[u] \in Nat \ {0} /\ Len(pending[u]) \in Nat /\ First(u) \in Nat \ {0}
      /\ DOMAIN pending[u] = 1..Len(pending[u]) /\ Pending(u) \subseteq Blocks
  BY <1>1, Numbers
<1>3. /\ pc'[u] = "collect" /\ i' = i /\ pending' = pending /\ manifest' = manifest
      /\ sizes' = sizes /\ stored' = stored /\ active' = active
      /\ chan'[u] = <<>> /\ got'[u] = 0
  BY <1>1 DEF RequestBlockUpload, Goto, TypeOK, loopVars
<1>4. \A j \in Blocks :
         task'[u][j] = IF j \in ToSet(pending[u]) THEN "start" ELSE task[u][j]
  BY <1>1 DEF RequestBlockUpload, TypeOK
<1>5. \A j \in Blocks : j \in ToSet(pending[u]) <=> j \in Pending(u)
  <2> SUFFICES ASSUME NEW j \in Blocks PROVE j \in ToSet(pending[u]) <=> j \in Pending(u)
    OBVIOUS
  <2>1. ASSUME j \in ToSet(pending[u]) PROVE j \in Pending(u)
    <3>1. PICK b \in 1..Len(pending[u]) : j = pending[u][b]
      BY <1>2, <2>1 DEF ToSet
    <3>2. j = First(u) + b - 1
      BY <1>1, <3>1 DEF LoopOK
    <3> QED BY <1>2, <3>2 DEF Pending, First
  <2>2. ASSUME j \in Pending(u) PROVE j \in ToSet(pending[u])
    <3>1. j - First(u) + 1 \in 1..Len(pending[u]) /\ First(u) + (j - First(u) + 1) - 1 = j
      <4>1. j \in Int /\ First(u) <= j /\ j <= i[u] - 1
        BY <1>2, <2>2 DEF Pending
      <4> DEFINE f == First(u)
                 p == Len(pending[u])
                 x == i[u]
      <4>2. f = x - p /\ f \in Nat /\ p \in Nat /\ x \in Nat /\ f <= j /\ j <= x - 1
        BY <1>2, <4>1 DEF First
      <4> HIDE DEF f, p, x
      <4>3. j - f + 1 \in 1..p /\ f + (j - f + 1) - 1 = j
        BY <4>1, <4>2
      <4> QED BY <4>3 DEF f, p
    <3>2. pending[u][j - First(u) + 1] = j
      BY <1>1, <3>1 DEF LoopOK
    <3> QED BY <1>2, <3>1, <3>2 DEF ToSet
  <2> QED BY <2>1, <2>2
<1>6. First(u)' = First(u) /\ Pending(u)' = Pending(u)
  BY <1>3 DEF First, Pending
<1>7. LoopOK(u)'
  BY <1>1, <1>3, <1>6 DEF LoopOK
<1>8. TasksOK(u)'
  <2> SUFFICES ASSUME NEW j \in Blocks PROVE TaskOK(u, j)'
    BY DEF TasksOK
  <2>1. TaskOK(u, j) /\ j \in Nat \ {0}
    BY <1>1, BlockIsPositive DEF UploadOK, TasksOK
  <2>2. j \in Pending(u) => ~(j >= i[u]) /\ ~(j < First(u)) /\ task'[u][j] = "start"
    BY <1>2, <1>4, <1>5, <2>1 DEF Pending
  <2>3. j \notin Pending(u) => task'[u][j] = task[u][j]
    BY <1>4, <1>5
  <2> QED BY <1>3, <1>6, <2>1, <2>2, <2>3 DEF TaskOK, Reported
<1>9. ResultsOK(u)'
  <2>1. Sent(u)' = {j \in Pending(u)' : task'[u][j] \in Reported}
    BY DEF Sent, Reported
  <2>2. \A j \in Pending(u) : task'[u][j] = "start"
    BY <1>2, <1>4, <1>5
  <2>3. Sent(u)' = {}
    BY <1>6, <2>1, <2>2 DEF Reported
  <2>4. Len(chan'[u]) = 0
    BY <1>3
  <2> QED BY <1>3, <2>3, <2>4, FS_EmptySet DEF ResultsOK
<1> QED BY <1>7, <1>8, <1>9 DEF UploadOK

\* Collecting a result loses none, and remembers a bad one.
LEMMA CollectOK ==
    ASSUME IInv, NEW u \in Uploads, Collect(u) PROVE UploadOK(u)'
<1>1. TypeOK /\ UploadOK(u) /\ LoopOK(u) /\ pc[u] = "collect" /\ chan[u] # <<>>
  BY DEF IInv, UploadOK, Collect
<1>2. /\ chan[u] \in Seq({"ok", "err"}) /\ got[u] \in Nat /\ firstErr[u] \in BOOLEAN
      /\ Len(chan[u]) \in Nat /\ Len(chan[u]) > 0
  BY <1>1, LenProperties DEF TypeOK
<1>3. /\ pc' = pc /\ i' = i /\ pending' = pending /\ manifest' = manifest
      /\ sizes' = sizes /\ stored' = stored /\ active' = active /\ task' = task
      /\ chan'[u] = Tail(chan[u]) /\ got'[u] = got[u] + 1
      /\ firstErr'[u] = (firstErr[u] \/ Head(chan[u]) = "err")
  BY <1>1 DEF Collect, TypeOK, loopVars
<1>4. First(u)' = First(u) /\ Pending(u)' = Pending(u)
  BY <1>3 DEF First, Pending
<1>5. LoopOK(u)'
  BY <1>1, <1>3, <1>4 DEF LoopOK
<1>6. TasksOK(u)'
  BY <1>1, <1>3, <1>4 DEF UploadOK, TasksOK, TaskOK, Reported
<1>7. ResultsOK(u)'
  <2>1. Sent(u)' = Sent(u)
    BY <1>3, <1>4 DEF Sent, Reported
  <2>2. /\ Len(Tail(chan[u])) = Len(chan[u]) - 1
        /\ \A n \in 1..Len(Tail(chan[u])) : Tail(chan[u])[n] = chan[u][n + 1]
    BY <1>1, <1>2, HeadTailProperties
  <2>3. Head(chan[u]) = chan[u][1]
    BY <1>1, <1>2
  <2>4. chan[u][1] \in {"ok", "err"}
    BY <1>2, ElementOfSeq
  <2>5. got'[u] + Len(chan'[u]) = Cardinality(Sent(u)')
    <3>1. got[u] + Len(chan[u]) = Cardinality(Sent(u))
      BY <1>1 DEF UploadOK, ResultsOK
    <3> QED BY <1>2, <1>3, <2>1, <2>2, <3>1
  <2>6. ASSUME ~firstErr'[u], \A n \in 1..Len(chan'[u]) : chan'[u][n] = "ok"
        PROVE  Sent(u)' \subseteq stored'[u]
    <3>1. ~firstErr[u] /\ chan[u][1] = "ok"
      BY <1>3, <2>3, <2>4, <2>6
    <3>2. ASSUME NEW n \in 1..Len(chan[u]) PROVE chan[u][n] = "ok"
      <4>1. CASE n = 1
        BY <3>1, <4>1
      <4>2. CASE n # 1
        <5>1. n - 1 \in 1..Len(chan'[u]) /\ (n - 1) + 1 = n
          BY <1>2, <1>3, <2>2, <4>2
        <5> QED BY <1>3, <2>2, <2>6, <5>1
      <4> QED BY <4>1, <4>2
    <3> QED BY <1>1, <1>3, <2>1, <3>1, <3>2 DEF UploadOK, ResultsOK
  <2> QED BY <2>5, <2>6 DEF ResultsOK
<1> QED BY <1>5, <1>6, <1>7 DEF UploadOK

\* A batch ends when every goroutine has reported; without an error it is stored.
LEMMA EndOfBatchOK ==
    ASSUME IInv, NEW u \in Uploads, EndOfBatch(u) PROVE UploadOK(u)'
<1>1. /\ TypeOK /\ UploadOK(u) /\ LoopOK(u) /\ ResultsOK(u)
      /\ pc[u] = "collect" /\ got[u] = Len(pending[u])
  BY DEF IInv, UploadOK, EndOfBatch
<1>2. /\ i[u] \in Nat \ {0} /\ Len(pending[u]) \in Nat /\ First(u) \in Nat \ {0}
      /\ Pending(u) \subseteq Blocks /\ Len(chan[u]) \in Nat
  BY <1>1, Numbers, LenProperties DEF TypeOK
<1>3. Sent(u) = Pending(u) /\ Len(chan[u]) = 0
  <2>1. /\ Cardinality(Sent(u)) \in Nat /\ Cardinality(Sent(u)) <= Len(pending[u])
        /\ Len(pending[u]) + Len(chan[u]) = Cardinality(Sent(u))
    BY <1>1, SentCount DEF ResultsOK
  <2>2. Len(chan[u]) = 0 /\ Cardinality(Sent(u)) = Len(pending[u])
    <3> DEFINE c == Cardinality(Sent(u))
               p == Len(pending[u])
               l == Len(chan[u])
    <3>1. c \in Nat /\ p \in Nat /\ l \in Nat /\ c <= p /\ p + l = c
      BY <1>2, <2>1
    <3> HIDE DEF c, p, l
    <3>2. l = 0 /\ c = p
      BY <3>1
    <3> QED BY <3>2 DEF c, p, l
  <2> QED BY <1>1, <2>2, SentCount
<1>4. /\ i' = i /\ manifest' = manifest /\ sizes' = sizes /\ task' = task
      /\ stored' = stored /\ active' = active
  BY DEF EndOfBatch
<1>5. ~active[u]
  BY <1>1 DEF LoopOK
<1>6. CASE firstErr[u]
  <2>1. pc'[u] = "failed" /\ pending' = pending
    BY <1>1, <1>6 DEF EndOfBatch, Goto, TypeOK
  <2>2. First(u)' = First(u) /\ Pending(u)' = Pending(u)
    BY <1>4, <2>1 DEF First, Pending
  <2>3. LoopOK(u)'
    BY <1>1, <1>4, <1>5, <2>1, <2>2 DEF LoopOK
  <2>4. TasksOK(u)'
    <3> SUFFICES ASSUME NEW j \in Blocks PROVE TaskOK(u, j)'
      BY DEF TasksOK
    <3>1. TaskOK(u, j) /\ (j \in Pending(u) => task[u][j] \in Reported)
      BY <1>1, <1>3 DEF UploadOK, TasksOK, Sent
    <3> QED BY <1>4, <2>1, <2>2, <3>1 DEF TaskOK, Reported
  <2>5. ResultsOK(u)'
    BY <2>1 DEF ResultsOK
  <2> QED BY <2>3, <2>4, <2>5 DEF UploadOK
<1>7. CASE ~firstErr[u]
  <2>1. /\ pc'[u] \in {"commit", "read"} /\ pending'[u] = <<>>
        /\ Len(pending'[u]) = 0
    BY <1>1, <1>7 DEF EndOfBatch, AfterFlush, Goto, TypeOK
  <2>2. First(u)' = i[u]
    BY <1>2, <1>4, <2>1 DEF First
  <2>3. Pending(u)' = {}
    BY <1>2, <1>4, <2>2 DEF Pending
  <2>4. Sent(u) \subseteq stored[u]
    BY <1>1, <1>3, <1>7 DEF ResultsOK
  <2>5. LoopOK(u)'
    BY <1>1, <1>2, <1>4, <1>5, <2>1 DEF LoopOK
  <2>6. TasksOK(u)'
    <3> SUFFICES ASSUME NEW j \in Blocks PROVE TaskOK(u, j)'
      BY DEF TasksOK
    <3>1. TaskOK(u, j) /\ j \in Nat \ {0}
      BY <1>1, BlockIsPositive DEF UploadOK, TasksOK
    <3>2. ASSUME j < i[u] PROVE task[u][j] \in Reported /\ j \in stored[u]
      <4>1. CASE j < First(u)
        BY <3>1, <4>1 DEF TaskOK
      <4>2. CASE ~(j < First(u))
        <5>1. j \in Pending(u)
          BY <1>2, <3>1, <3>2, <4>2 DEF Pending
        <5> QED BY <1>3, <2>4, <5>1 DEF Sent
      <4> QED BY <4>1, <4>2
    <3> QED BY <1>4, <2>2, <2>3, <3>1, <3>2 DEF TaskOK, Reported
  <2>7. ResultsOK(u)'
    BY <2>1 DEF ResultsOK
  <2> QED BY <2>5, <2>6, <2>7 DEF UploadOK
<1> QED BY <1>6, <1>7

\* Every step of the loop keeps the invariant of its upload.
LEMMA LoopStepOK ==
    ASSUME IInv, NEW u \in Uploads, UploadFile(u) PROVE IInv'
<1>1. TypeOK /\ UploadOK(u) /\ LoopOK(u)
  BY DEF IInv, UploadOK
<1>2. ASSUME Verify(u) \/ ReadFails(u) \/ RequestFails(u) \/ CommitFails(u) PROVE UploadOK(u)'
  <2>1. /\ pc[u] \notin {"collect", "failed"} /\ pc'[u] \in {"top", "failed"}
        /\ UNCHANGED <<loopVars, task, stored, active>>
        /\ ~active[u]
    BY <1>1, <1>2 DEF Verify, ReadFails, RequestFails, CommitFails, Goto, TypeOK, LoopOK
  <2> QED BY <1>1, <2>1, LoopMoves DEF loopVars
<1>3. ASSUME LoopTop(u) \/ ReadEnd(u) PROVE UploadOK(u)'
  <2>1. /\ pc[u] \in {"top", "read"} /\ pc'[u] \in {"commit", "read", "request"}
        /\ pc'[u] = "commit" => pending[u] = <<>>
        /\ UNCHANGED <<i, pending, manifest, sizes, task, stored, active>>
    BY <1>1, <1>3 DEF LoopTop, ReadEnd, Flush, AfterFlush, Goto, TypeOK
  <2>2. ~active[u]
    BY <1>1, <2>1 DEF LoopOK
  <2> QED BY <1>1, <2>1, <2>2, LoopMoves
<1>4. ASSUME CommitRevision(u) PROVE UploadOK(u)'
  <2>1. /\ pc[u] = "commit" /\ pc'[u] \in {"returned", "failed"}
        /\ UNCHANGED <<loopVars, task, stored>>
    BY <1>1, <1>4 DEF CommitRevision, Goto, TypeOK
  <2>2. pending[u] = <<>>
    BY <1>1, <2>1 DEF LoopOK
  <2> QED BY <1>1, <2>1, <2>2, LoopMoves DEF loopVars
<1>5. UploadOK(u)'
  BY <1>2, <1>3, <1>4, ReadBlockOK, RequestBlockUploadOK, CollectOK, EndOfBatchOK DEF UploadFile
<1>6. SemaphoreOK' /\ \A v \in Uploads \ {u} : UploadOK(v)'
  BY LoopStepElsewhere
<1>7. TypeOK'
  BY <1>1, LoopType
<1> QED BY <1>5, <1>6, <1>7 DEF IInv

\* A caller that cancels its context, or nothing at all
LEMMA CallerOK ==
    ASSUME IInv, ctxDone' \in [Uploads -> BOOLEAN],
           UNCHANGED <<pc, loopVars, task, batchVars, semVars, stored, active>>
    PROVE  IInv'
<1>1. TypeOK /\ SemaphoreOK /\ \A v \in Uploads : UploadOK(v)
  BY DEF IInv
<1>2. TypeOK'
  BY <1>1 DEF TypeOK, loopVars, batchVars, semVars
<1>3. SemaphoreOK'
  BY <1>1, SameSemaphore
<1>4. ASSUME NEW v \in Uploads PROVE UploadOK(v)'
  BY <1>1, SilentStep DEF SameLoop, Silent, loopVars, batchVars
<1> QED BY <1>2, <1>3, <1>4 DEF IInv

-----------------------------------------------------------------------------
(* The theorems *)

\* Nothing has been read, nobody holds or waits for a permit.
LEMMA InitOK == Init => IInv
<1> SUFFICES ASSUME Init PROVE IInv
  OBVIOUS
<1>1. TypeOK
  BY InitType
<1>2. ASSUME NEW u \in Uploads PROVE UploadOK(u)
  <2>1. /\ i[u] = 1 /\ pending[u] = <<>> /\ Len(pending[u]) = 0
        /\ manifest[u] = <<>> /\ sizes[u] = <<>>
        /\ Len(manifest[u]) = 0 /\ Len(sizes[u]) = 0
        /\ pc[u] = "verify" /\ ~active[u] /\ MaxBlocks[u] \in Nat
    BY ConstantsAssumption DEF Init
  <2>2. First(u) = 1 /\ Pending(u) = {}
    BY <2>1 DEF First, Pending
  <2>3. LoopOK(u)
    BY <2>1 DEF LoopOK
  <2>4. TasksOK(u)
    <3> SUFFICES ASSUME NEW j \in Blocks PROVE TaskOK(u, j)
      BY DEF TasksOK
    <3>1. task[u][j] = "none" /\ j \in Nat \ {0}
      BY BlockIsPositive DEF Init
    <3> QED BY <2>1, <2>2, <3>1 DEF TaskOK
  <2> QED BY <2>1, <2>3, <2>4 DEF UploadOK, ResultsOK
<1>3. Holders = {}
  BY HoldersAre DEF Init, Holding
<1>4. QueueOK
  BY DEF Init, QueueOK
<1>5. SemaphoreOK
  BY <1>3, <1>4, FS_EmptySet, ConstantsAssumption DEF SemaphoreOK, PermitsConserved, Init
<1> QED BY <1>1, <1>2, <1>5 DEF IInv

LEMMA NextOK == IInv /\ [Next]_vars => IInv'
<1> SUFFICES ASSUME IInv, [Next]_vars PROVE IInv'
  OBVIOUS
<1>1. ASSUME NEW u \in Uploads, UploadFile(u) PROVE IInv'
  BY <1>1, LoopStepOK
<1>2. ASSUME NEW u \in Uploads, CancelContext(u) PROVE IInv'
  <2>1. ctxDone' \in [Uploads -> BOOLEAN]
    BY <1>2 DEF CancelContext, IInv, TypeOK
  <2> QED BY <1>2, <2>1, CallerOK DEF CancelContext
<1>3. ASSUME NEW u \in Uploads, NEW k \in Blocks, Goroutine(u, k) PROVE IInv'
  BY <1>3, AcquireOK, AcquireFailsOK, GrantedOK, UploadBlockOK, ReleaseOK DEF Goroutine
<1>4. ASSUME UNCHANGED vars PROVE IInv'
  <2>1. ctxDone' \in [Uploads -> BOOLEAN]
    BY <1>4 DEF vars, IInv, TypeOK
  <2> QED BY <1>4, <2>1, CallerOK DEF vars
<1> QED BY <1>1, <1>2, <1>3, <1>4 DEF Next, AllDone

\* The invariant holds in every reachable state.
THEOREM Invariance == Spec => []IInv
<1>1. Init => IInv
  BY InitOK
<1>2. IInv /\ [Next]_vars => IInv'
  BY NextOK
<1> QED BY <1>1, <1>2, PTL DEF Spec

\* The variables of uploadAndCollectBlockData, its goroutines, the semaphore and
\* the server keep their types.
THEOREM TypeCorrect == Spec => []TypeOK
<1>1. IInv => TypeOK
  BY DEF IInv
<1> QED BY <1>1, Invariance, PTL

\* A revision that commitNewRevision made active has all its blocks on the
\* server, however the batches, errors and cancellations of the uploads mix.
THEOREM Complete == Spec => []CommittedIsComplete
<1>1. IInv => CommittedIsComplete
  <2> SUFFICES ASSUME IInv, NEW u \in Uploads, active[u]
               PROVE  /\ manifest[u] = [b \in 1..(i[u] - 1) |-> b]
                      /\ Len(sizes[u]) = Len(manifest[u])
                      /\ ToSet(manifest[u]) \subseteq stored[u]
    BY DEF CommittedIsComplete
  <2>1. TypeOK /\ LoopOK(u) /\ TasksOK(u) /\ manifest[u] \in Seq(Blocks)
    BY DEF IInv, UploadOK, TypeOK
  <2>2. i[u] \in Nat \ {0} /\ Len(pending[u]) = 0 /\ First(u) = i[u]
    BY <2>1, Numbers DEF LoopOK, First
  <2>3. /\ DOMAIN manifest[u] = 1..(i[u] - 1)
        /\ manifest[u] = [b \in DOMAIN manifest[u] |-> manifest[u][b]]
    BY <2>1, LenProperties DEF LoopOK
  <2>4. manifest[u] = [b \in 1..(i[u] - 1) |-> b]
    BY <2>1, <2>3 DEF LoopOK
  <2>5. ASSUME NEW b \in DOMAIN manifest[u] PROVE manifest[u][b] \in stored[u]
    <3>1. manifest[u][b] = b /\ b \in Blocks /\ b < First(u)
      BY <2>1, <2>2, <2>3, <2>5, ElementOfSeq DEF LoopOK
    <3> QED BY <2>1, <3>1 DEF TasksOK, TaskOK
  <2>6. ToSet(manifest[u]) \subseteq stored[u]
    BY <2>5 DEF ToSet
  <2> QED BY <2>1, <2>4, <2>6 DEF LoopOK
<1> QED BY <1>1, Invariance, PTL

\* uploadPendingBlocks returns only after all its goroutines have reported: none
\* of them still writes a block.
THEOREM Stragglers == Spec => []NoStragglers
<1>1. IInv => NoStragglers
  <2> SUFFICES ASSUME IInv, NEW u \in Uploads, pc[u] # "collect", NEW k \in Blocks
               PROVE  task[u][k] \in {"none", "release", "done"}
    BY DEF NoStragglers
  <2>1. TypeOK /\ UploadOK(u)
    BY DEF IInv
  <2>2. task[u][k] \notin Busy
    BY <2>1, BusyIsPending
  <2> QED BY <2>1, <2>2 DEF TypeOK, TaskStates, Busy
<1> QED BY <1>1, Invariance, PTL

\* blockUploadSemaphore counts the goroutines that hold a permit, never more
\* than N, whichever way each of them ends.
THEOREM Permits == Spec => []PermitsConserved
<1>1. IInv => PermitsConserved
  BY DEF IInv, SemaphoreOK
<1> QED BY <1>1, Invariance, PTL

\* No goroutine ever blocks on errChan: every result finds room.
THEOREM Room == Spec => []ErrChanHasRoom
<1>1. IInv => ErrChanHasRoom
  <2> SUFFICES ASSUME IInv, NEW u \in Uploads, pc[u] = "collect"
               PROVE  got[u] + Len(chan[u]) <= Len(pending[u])
    BY DEF ErrChanHasRoom
  <2>1. TypeOK /\ LoopOK(u) /\ got[u] + Len(chan[u]) = Cardinality(Sent(u))
    BY DEF IInv, UploadOK, ResultsOK
  <2> QED BY <2>1, SentCount
<1> QED BY <1>1, Invariance, PTL
=============================================================================
