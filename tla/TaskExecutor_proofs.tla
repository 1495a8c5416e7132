-------------------------- MODULE TaskExecutor_proofs --------------------------
(***************************************************************************)
(* Proofs about the task queue and the life of a task in it, for any       *)
(* connections, tasks and items, any number of crashes and of failing      *)
(* database updates.                                                       *)
(*                                                                         *)
(* MutualExclusion is not inductive: it survives the end of a run because  *)
(* the drain loop that takes the next entry is the one that was awaiting   *)
(* the run (NothingWaitsForNobody) and because that entry belongs to the   *)
(* connection of the loop and is not running already (EntriesAreOwned).    *)
(* QueueInv is the conjunction of these facts.                             *)
(*                                                                         *)
(* What a task ends with and what the history says of it hang on its place *)
(* in the queue: a task whose status is terminal is neither running nor    *)
(* waiting (StatusFollowsQueue, over QueueInv), so that no later step      *)
(* touches its items, its status or its recorded success.                  *)
(***************************************************************************)
EXTENDS TaskExecutor, TLAPS, SequenceTheorems, FiniteSetTheorems

-----------------------------------------------------------------------------
(* The queue.                                                              *)

\* While QueueInv holds no waiting entry is flagged, so the drain loop never
\* skips: it stops on an empty list and otherwise takes the first entry.
LEMMA DrainStep ==
    ASSUME NEW c \in Conns, NEW list \in Seq(Tasks), NEW settled,
           \A i \in 1..Len(list) : list[i] \notin cancelledQueued,
           cancelledQueued \subseteq Tasks,
           Drain(c, list, settled)
    PROVE  /\ cancelledQueued' = cancelledQueued
           /\ \/ /\ list = <<>>
                 /\ queues' = [queues EXCEPT ![c] = <<>>]
                 /\ draining' = [draining EXCEPT ![c] = FALSE]
                 /\ active' = active \ settled
              \/ /\ list # <<>>
                 /\ queues' = [queues EXCEPT ![c] = Tail(list)]
                 /\ draining' = [draining EXCEPT ![c] = TRUE]
                 /\ active' = (active \ settled) \cup {list[1]}
<1> DEFINE live == {i \in 1..Len(list) : list[i] \notin cancelledQueued}
           first == CHOOSE i \in live : \A j \in live : i <= j
           skipped == {list[i] : i \in {k \in 1..Len(list) : \A j \in live : k < j}}
<1>1. live = 1..Len(list)
  OBVIOUS
<1>2. skipped = {}
  <2>1. ASSUME NEW k \in 1..Len(list), \A j \in live : k < j
        PROVE  FALSE
    BY <1>1, <2>1
  <2> QED BY <2>1
<1>3. cancelledQueued' = cancelledQueued
  <2>1. cancelledQueued' = cancelledQueued \ skipped
    BY DEF Drain
  <2> QED BY <2>1, <1>2
<1>4. CASE list = <<>>
  <2>1. live = {}
    BY <1>1, <1>4
  <2> QED BY <2>1, <1>3, <1>4 DEF Drain
<1>5. CASE list # <<>>
  <2>1. Len(list) \in Nat /\ Len(list) >= 1 /\ 1 \in live
    BY <1>1, <1>5
  <2>2. first = 1
    <3>1. \A j \in live : 1 <= j
      BY <1>1
    <3>2. first \in live /\ \A j \in live : first <= j
      BY <2>1, <3>1
    <3> QED BY <3>1, <3>2, <2>1, <1>1
  <2>3. SubSeq(list, 2, Len(list)) = Tail(list)
    BY <1>5
  <2>4. /\ queues' = [queues EXCEPT ![c] = SubSeq(list, first + 1, Len(list))]
        /\ draining' = [draining EXCEPT ![c] = TRUE]
        /\ active' = (active \ settled) \cup {list[first]}
    BY <2>1 DEF Drain
  <2> HIDE DEF first
  <2>5. first + 1 = 2
    BY <2>2
  <2> QED BY <2>2, <2>3, <2>4, <2>5, <1>3, <1>5
<1> QED BY <1>4, <1>5

\* Dropping the first entry of a list keeps it a list and shifts the others.
LEMMA TailEntries ==
    ASSUME NEW S, NEW list \in Seq(S), list # <<>>
    PROVE  /\ Tail(list) \in Seq(S)
           /\ Len(Tail(list)) = Len(list) - 1
           /\ \A i \in 1..Len(Tail(list)) : Tail(list)[i] = list[i + 1]
  OBVIOUS

\* Taking the entry at i out of a list keeps it a list, and each entry left is
\* one of the old ones, two different places holding two different old places.
LEMMA RemoveAtEntries ==
    ASSUME NEW S, NEW list \in Seq(S), NEW i \in 1..Len(list)
    PROVE  /\ RemoveAt(list, i) \in Seq(S)
           /\ Len(RemoveAt(list, i)) = Len(list) - 1
           /\ \A k \in 1..(Len(list) - 1) :
                 RemoveAt(list, i)[k] = list[IF k < i THEN k ELSE k + 1]
<1> DEFINE a == SubSeq(list, 1, i - 1)
           b == SubSeq(list, i + 1, Len(list))
<1>1. /\ a \in Seq(S)
      /\ Len(a) = i - 1
      /\ \A k \in 1..(i - 1) : a[k] = list[k]
  OBVIOUS
<1>2. /\ b \in Seq(S)
      /\ Len(b) = Len(list) - i
      /\ \A k \in 1..(Len(list) - i) : b[k] = list[i + k]
  OBVIOUS
<1>3. RemoveAt(list, i) = a \o b
  BY DEF RemoveAt
<1> HIDE DEF a, b
<1>4. /\ a \o b \in Seq(S)
      /\ Len(a \o b) = Len(list) - 1
  <2>1. a \o b \in Seq(S) /\ Len(a \o b) = Len(a) + Len(b)
    BY <1>1, <1>2, ConcatProperties
  <2> QED BY <2>1, <1>1, <1>2, LenProperties
<1>5. ASSUME NEW k \in 1..(Len(list) - 1)
      PROVE  (a \o b)[k] = list[IF k < i THEN k ELSE k + 1]
  <2>1. CASE k < i
    BY <2>1, <1>1, <1>2
  <2>2. CASE ~(k < i)
    <3>1. (a \o b)[k] = b[k - (i - 1)]
      BY <2>2, <1>1, <1>2
    <3>2. k - (i - 1) \in 1..(Len(list) - i)
      BY <2>2
    <3>3. b[k - (i - 1)] = list[i + (k - (i - 1))]
      BY <3>2, <1>2
    <3> QED BY <3>1, <3>3, <2>2
  <2> QED BY <2>1, <2>2
<1> QED BY <1>3, <1>4, <1>5

-----------------------------------------------------------------------------
LEMMA InitQueueInv == QueueInit => QueueInv
<1> SUFFICES ASSUME QueueInit PROVE QueueInv
  OBVIOUS
<1>1. QueueTypeOK
  BY DEF QueueInit, QueueTypeOK
<1>2. \A c \in Conns : Len(queues[c]) = 0 /\ queues[c] = <<>> /\ ~draining[c]
  BY DEF QueueInit
<1>3. active = {} /\ cancelledQueued = {}
  BY DEF QueueInit
<1>4. EntriesAreOwned
  BY <1>2 DEF EntriesAreOwned
<1>5. NothingWaitsForNobody
  BY <1>2, <1>3 DEF NothingWaitsForNobody
<1> QED
  BY <1>1, <1>3, <1>4, <1>5
     DEF QueueInv, MutualExclusion, ActiveWasNotCancelled, CancelledWasEnqueued

\* What a step of the drain loop of c does to the invariant, the loop coming
\* from list, having awaited settled, with no other run of c under way.
LEMMA DrainKeepsInv ==
    ASSUME QueueInv, connOf' \in [Tasks -> Conns \cup {NoConn}],
           NEW c \in Conns, NEW list \in Seq(Tasks), NEW settled \in SUBSET Tasks,
           Drain(c, list, settled),
           \* the list holds entries of c, each once, none running or flagged
           \A i \in 1..Len(list) :
               /\ connOf'[list[i]] = c
               /\ list[i] \notin active \cup cancelledQueued
               /\ \A j \in 1..Len(list) : list[i] = list[j] => i = j,
           \* the runs of c are the settled ones
           \A t \in active : t \in settled <=> connOf'[t] = c,
           \* connections of the other entries and runs do not change
           \A t \in active : connOf'[t] = connOf[t],
           \A d \in Conns \ {c} : \A i \in 1..Len(queues[d]) :
               connOf'[queues[d][i]] = connOf[queues[d][i]],
           \A t \in cancelledQueued : connOf'[t] = connOf[t]
    PROVE  QueueInv'
<1>0. QueueTypeOK
  BY DEF QueueInv
<1>1. /\ cancelledQueued' = cancelledQueued
      /\ \/ /\ list = <<>>
            /\ queues' = [queues EXCEPT ![c] = <<>>]
            /\ draining' = [draining EXCEPT ![c] = FALSE]
            /\ active' = active \ settled
         \/ /\ list # <<>>
            /\ queues' = [queues EXCEPT ![c] = Tail(list)]
            /\ draining' = [draining EXCEPT ![c] = TRUE]
            /\ active' = (active \ settled) \cup {list[1]}
  BY <1>0, DrainStep DEF QueueTypeOK
<1>t. QueueTypeOK'
  <2>1. list # <<>> => Tail(list) \in Seq(Tasks) /\ list[1] \in Tasks
    OBVIOUS
  <2>2. /\ queues' \in [Conns -> Seq(Tasks)]
        /\ draining' \in [Conns -> BOOLEAN]
        /\ active' \subseteq Tasks
    <3>1. CASE list = <<>>
      <4>1. /\ queues' = [queues EXCEPT ![c] = <<>>]
            /\ draining' = [draining EXCEPT ![c] = FALSE]
            /\ active' = active \ settled
        BY <3>1, <1>1
      <4> QED BY <4>1, <1>0 DEF QueueTypeOK
    <3>2. CASE list # <<>>
      <4>1. /\ queues' = [queues EXCEPT ![c] = Tail(list)]
            /\ draining' = [draining EXCEPT ![c] = TRUE]
            /\ active' = (active \ settled) \cup {list[1]}
        BY <3>2, <1>1
      <4> DEFINE rest == Tail(list)
      <4>2. rest \in Seq(Tasks)
        BY <3>2, <2>1
      <4> HIDE DEF rest
      <4>3. queues' = [queues EXCEPT ![c] = rest]
        BY <4>1 DEF rest
      <4> QED BY <4>1, <4>2, <4>3, <2>1, <3>2, <1>0 DEF QueueTypeOK
    <3> QED BY <3>1, <3>2
  <2> QED BY <2>2, <1>0, <1>1 DEF QueueTypeOK
<1> USE <1>0, <1>t DEF QueueTypeOK
<1>2. \A d \in Conns \ {c} : queues'[d] = queues[d] /\ draining'[d] = draining[d]
  BY <1>1
<1>3. CASE list = <<>>
  <2>1. /\ queues'[c] = <<>> /\ ~draining'[c] /\ active' = active \ settled
        /\ Len(queues'[c]) = 0
    BY <1>1, <1>3
  <2>2. MutualExclusion'
    BY <2>1 DEF QueueInv, MutualExclusion
  <2>3. NothingWaitsForNobody'
    BY <2>1, <1>2 DEF QueueInv, NothingWaitsForNobody
  <2>4. EntriesAreOwned'
    <3>1. ASSUME NEW d \in Conns, NEW i \in 1..Len(queues'[d])
          PROVE  /\ connOf'[queues'[d][i]] = d
                 /\ queues'[d][i] \notin active' \cup cancelledQueued'
                 /\ \A j \in 1..Len(queues'[d]) : queues'[d][i] = queues'[d][j] => i = j
      <4>1. d # c
        BY <2>1
      <4> QED BY <4>1, <2>1, <1>1, <1>2 DEF QueueInv, EntriesAreOwned
    <3> QED BY <3>1 DEF EntriesAreOwned
  <2> QED BY <2>1, <2>2, <2>3, <2>4, <1>1
          DEF QueueInv, ActiveWasNotCancelled, CancelledWasEnqueued
<1>4. CASE list # <<>>
  <2>0. 1 \in 1..Len(list) /\ list[1] \in Tasks
    BY <1>4
  <2>1. /\ queues'[c] = Tail(list) /\ draining'[c]
        /\ active' = (active \ settled) \cup {list[1]}
    BY <1>1, <1>4
  <2>t. /\ Len(Tail(list)) = Len(list) - 1
        /\ \A i \in 1..Len(Tail(list)) : Tail(list)[i] = list[i + 1]
    BY <1>4, TailEntries
  <2>2. MutualExclusion'
    <3>1. connOf'[list[1]] = c
      BY <2>0
    <3> QED BY <2>1, <3>1 DEF QueueInv, MutualExclusion
  <2>3. NothingWaitsForNobody'
    <3>1. connOf'[list[1]] = c
      BY <2>0
    <3> QED BY <2>1, <3>1, <1>2 DEF QueueInv, NothingWaitsForNobody
  <2>4. EntriesAreOwned'
    <3>1. ASSUME NEW i \in 1..Len(Tail(list))
          PROVE  /\ connOf'[Tail(list)[i]] = c
                 /\ Tail(list)[i] \notin active' \cup cancelledQueued'
                 /\ \A j \in 1..Len(Tail(list)) : Tail(list)[i] = Tail(list)[j] => i = j
      <4>1. i + 1 \in 1..Len(list) /\ i + 1 # 1
        BY <2>t
      <4>2. list[i + 1] # list[1]
        BY <4>1, <2>0
      <4>3. ASSUME NEW j \in 1..Len(Tail(list)), Tail(list)[i] = Tail(list)[j]
            PROVE  i = j
        <5>1. j + 1 \in 1..Len(list)
          BY <2>t
        <5>2. list[i + 1] = list[j + 1]
          BY <2>t, <4>3
        <5>3. i + 1 = j + 1
          BY <5>1, <5>2, <4>1
        <5> QED BY <5>3
      <4> QED BY <4>1, <4>2, <4>3, <2>t, <2>1, <1>1
    <3>2. ASSUME NEW d \in Conns \ {c}, NEW i \in 1..Len(queues'[d])
          PROVE  /\ connOf'[queues'[d][i]] = d
                 /\ queues'[d][i] \notin active' \cup cancelledQueued'
                 /\ \A j \in 1..Len(queues'[d]) : queues'[d][i] = queues'[d][j] => i = j
      <4>1. queues'[d] = queues[d] /\ connOf'[queues[d][i]] = d
        BY <1>2 DEF QueueInv, EntriesAreOwned
      <4>2. queues[d][i] # list[1]
        BY <4>1, <2>0
      <4> QED BY <4>1, <4>2, <2>1, <1>1, <1>2 DEF QueueInv, EntriesAreOwned
    <3>3. ASSUME NEW d \in Conns, NEW i \in 1..Len(queues'[d])
          PROVE  /\ connOf'[queues'[d][i]] = d
                 /\ queues'[d][i] \notin active' \cup cancelledQueued'
                 /\ \A j \in 1..Len(queues'[d]) : queues'[d][i] = queues'[d][j] => i = j
      <4>1. CASE d = c
        <5>1. queues'[d] = Tail(list) /\ i \in 1..Len(Tail(list))
          BY <2>1, <4>1
        <5> QED BY <3>1, <5>1, <4>1
      <4>2. CASE d # c
        <5>1. d \in Conns \ {c}
          BY <4>2
        <5> QED BY <3>2, <5>1
      <4> QED BY <4>1, <4>2
    <3> QED BY <3>3 DEF EntriesAreOwned
  <2>5. ActiveWasNotCancelled'
    BY <2>0, <2>1, <1>1 DEF QueueInv, ActiveWasNotCancelled
  <2>6. CancelledWasEnqueued'
    BY <1>1 DEF QueueInv, CancelledWasEnqueued
  <2> QED BY <2>2, <2>3, <2>4, <2>5, <2>6 DEF QueueInv
<1> QED BY <1>3, <1>4

-----------------------------------------------------------------------------
LEMMA EnqueueKeepsInv ==
    ASSUME QueueInv, NEW t \in Tasks, NEW c \in Conns, Enqueue(t, c)
    PROVE  QueueInv'
<1> USE NoConnAssumption DEF QueueInv, QueueTypeOK
<1> DEFINE list == Append(queues[c], t)
<1>1. /\ list \in Seq(Tasks)
      /\ Len(list) = Len(queues[c]) + 1
      /\ \A i \in 1..Len(queues[c]) : list[i] = queues[c][i]
      /\ list[Len(list)] = t
  OBVIOUS
<1>2. /\ connOf' = [connOf EXCEPT ![t] = c]
      /\ connOf' \in [Tasks -> Conns \cup {NoConn}]
      /\ connOf[t] = NoConn
  BY DEF Enqueue
<1>3. /\ t \notin active
      /\ t \notin cancelledQueued
      /\ \A d \in Conns : \A i \in 1..Len(queues[d]) : queues[d][i] # t
  BY <1>2 DEF ActiveWasNotCancelled, CancelledWasEnqueued, EntriesAreOwned
<1>4. /\ \A u \in active \cup cancelledQueued : connOf'[u] = connOf[u]
      /\ \A d \in Conns : \A i \in 1..Len(queues[d]) :
            connOf'[queues[d][i]] = connOf[queues[d][i]]
  BY <1>2, <1>3
<1>5. \A i \in 1..Len(list) :
         /\ connOf'[list[i]] = c
         /\ list[i] \notin active \cup cancelledQueued
         /\ \A j \in 1..Len(list) : list[i] = list[j] => i = j
  <2> SUFFICES ASSUME NEW i \in 1..Len(list)
               PROVE  /\ connOf'[list[i]] = c
                      /\ list[i] \notin active \cup cancelledQueued
                      /\ \A j \in 1..Len(list) : list[i] = list[j] => i = j
    OBVIOUS
  <2> HIDE DEF list
  <2>1. CASE i = Len(list)
    BY <2>1, <1>1, <1>2, <1>3
  <2>2. CASE i \in 1..Len(queues[c])
    BY <2>2, <1>1, <1>3, <1>4 DEF EntriesAreOwned
  <2> QED BY <2>1, <2>2, <1>1
<1> HIDE DEF list
<1>6. CASE draining[c]
  <2>1. /\ queues' = [queues EXCEPT ![c] = list]
        /\ UNCHANGED <<draining, active, cancelledQueued>>
    BY <1>6 DEF Enqueue, list
  <2>2. QueueTypeOK'
    BY <2>1, <1>1, <1>2
  <2>3. EntriesAreOwned'
    <3> SUFFICES ASSUME NEW d \in Conns, NEW i \in 1..Len(queues'[d])
                 PROVE  /\ connOf'[queues'[d][i]] = d
                        /\ queues'[d][i] \notin active' \cup cancelledQueued'
                        /\ \A j \in 1..Len(queues'[d]) : queues'[d][i] = queues'[d][j] => i = j
      BY DEF EntriesAreOwned
    <3>1. CASE d = c
      <4>1. queues'[d] = list
        BY <2>1, <3>1
      <4> QED BY <4>1, <3>1, <2>1, <1>5
    <3>2. CASE d # c
      <4>1. queues'[d] = queues[d]
        BY <2>1, <3>2
      <4> QED BY <4>1, <2>1, <1>4 DEF EntriesAreOwned
    <3> QED BY <3>1, <3>2
  <2>4. MutualExclusion'
    BY <2>1, <1>4 DEF MutualExclusion
  <2>5. NothingWaitsForNobody'
    BY <2>1, <1>4, <1>6 DEF NothingWaitsForNobody
  <2>6. ActiveWasNotCancelled' /\ CancelledWasEnqueued'
    BY <2>1, <1>4 DEF ActiveWasNotCancelled, CancelledWasEnqueued
  <2> QED BY <2>2, <2>3, <2>4, <2>5, <2>6
<1>7. CASE ~draining[c]
  <2>1. Drain(c, list, {})
    BY <1>7 DEF Enqueue, list
  <2>2. \A u \in active : u \in {} <=> connOf'[u] = c
    BY <1>4, <1>7 DEF NothingWaitsForNobody
  <2> HIDE DEF QueueInv, QueueTypeOK
  <2> QED BY <2>1, <2>2, <1>1, <1>2, <1>4, <1>5, DrainKeepsInv
<1> QED BY <1>6, <1>7

LEMMA RunSettlesKeepsInv ==
    ASSUME QueueInv, NEW t \in Tasks, RunSettles(t)
    PROVE  QueueInv'
<1> DEFINE c == connOf[t]
           list == queues[c]
<1>1. c \in Conns /\ list \in Seq(Tasks) /\ {t} \in SUBSET Tasks
  BY DEF RunSettles, QueueInv, QueueTypeOK, ActiveWasNotCancelled
<1>2. Drain(c, list, {t}) /\ connOf' = connOf
  BY DEF RunSettles
<1>3. connOf' \in [Tasks -> Conns \cup {NoConn}]
  BY <1>2 DEF QueueInv, QueueTypeOK
<1>4. \A i \in 1..Len(list) :
         /\ connOf'[list[i]] = c
         /\ list[i] \notin active \cup cancelledQueued
         /\ \A j \in 1..Len(list) : list[i] = list[j] => i = j
  BY <1>1, <1>2 DEF QueueInv, EntriesAreOwned
<1>5. \A u \in active : u \in {t} <=> connOf'[u] = c
  BY <1>2 DEF QueueInv, MutualExclusion, RunSettles
<1> HIDE DEF c, list
<1> QED BY <1>1, <1>2, <1>3, <1>4, <1>5, DrainKeepsInv

LEMMA CancelQueuedKeepsInv ==
    ASSUME QueueInv, NEW t \in Tasks, NEW c \in Conns, CancelQueued(t, c)
    PROVE  QueueInv'
<1> USE DEF QueueInv, QueueTypeOK
<1>1. PICK p \in 1..Len(queues[c]) :
         /\ queues[c][p] = t
         /\ queues' = [queues EXCEPT ![c] = RemoveAt(@, p)]
  BY DEF CancelQueued
<1>2. /\ cancelledQueued' = cancelledQueued \cup {t}
      /\ UNCHANGED <<draining, active, connOf>>
  BY DEF CancelQueued
<1> DEFINE list == queues[c]
           left == RemoveAt(list, p)
<1>3. /\ left \in Seq(Tasks)
      /\ Len(left) = Len(list) - 1
      /\ \A k \in 1..Len(left) : left[k] = list[IF k < p THEN k ELSE k + 1]
  BY RemoveAtEntries
<1>4. queues'[c] = left /\ \A d \in Conns \ {c} : queues'[d] = queues[d]
  BY <1>1
<1> HIDE DEF left
<1>5. QueueTypeOK'
  BY <1>1, <1>2, <1>3 DEF left
<1>6. connOf[t] = c /\ t \notin active
  BY <1>1 DEF EntriesAreOwned
<1>7. EntriesAreOwned'
  <2>1. ASSUME NEW i \in 1..Len(left)
        PROVE  /\ connOf'[left[i]] = c
               /\ left[i] \notin active' \cup cancelledQueued'
               /\ \A j \in 1..Len(left) : left[i] = left[j] => i = j
    <3> DEFINE old(k) == IF k < p THEN k ELSE k + 1
    <3>1. Len(list) \in Nat /\ \A k \in 1..Len(left) : old(k) \in 1..Len(list) /\ old(k) # p
      BY <1>3
    <3>2. \A k, m \in 1..Len(left) : old(k) = old(m) => k = m
      OBVIOUS
    <3>3. \A k \in 1..Len(left) : left[k] = list[old(k)]
      BY <1>3
    <3> HIDE DEF old
    <3>4. left[i] # t
      <4>1. /\ old(i) \in 1..Len(queues[c]) /\ old(i) # p
            /\ left[i] = queues[c][old(i)]
        BY <3>1, <3>3
      <4> QED BY <4>1, <1>1 DEF EntriesAreOwned
    <3>5. ASSUME NEW j \in 1..Len(left), left[i] = left[j] PROVE i = j
      <4>1. old(i) \in 1..Len(queues[c]) /\ old(j) \in 1..Len(queues[c])
        BY <3>1, <1>1
      <4>2. queues[c][old(i)] = queues[c][old(j)]
        BY <3>3, <3>5, <1>1
      <4>3. old(i) = old(j)
        BY <4>1, <4>2 DEF EntriesAreOwned
      <4> QED
        BY <3>2, <4>3
    <3>6. connOf[left[i]] = c /\ left[i] \notin active \cup cancelledQueued
      BY <3>1, <3>3 DEF EntriesAreOwned
    <3> QED BY <3>4, <3>5, <3>6, <1>2
  <2>2. ASSUME NEW d \in Conns \ {c}, NEW i \in 1..Len(queues[d])
        PROVE  /\ connOf'[queues[d][i]] = d
               /\ queues[d][i] \notin active' \cup cancelledQueued'
               /\ \A j \in 1..Len(queues[d]) : queues[d][i] = queues[d][j] => i = j
    BY <1>2, <1>6 DEF EntriesAreOwned
  <2> SUFFICES ASSUME NEW d \in Conns, NEW i \in 1..Len(queues'[d])
               PROVE  /\ connOf'[queues'[d][i]] = d
                      /\ queues'[d][i] \notin active' \cup cancelledQueued'
                      /\ \A j \in 1..Len(queues'[d]) : queues'[d][i] = queues'[d][j] => i = j
    BY DEF EntriesAreOwned
  <2>3. CASE d = c
    BY <2>1, <2>3, <1>4
  <2>4. CASE d # c
    <3>1. d \in Conns \ {c} /\ queues'[d] = queues[d]
      BY <1>4, <2>4
    <3> QED BY <2>2, <3>1
  <2> QED BY <2>3, <2>4
<1>8. NothingWaitsForNobody'
  <2>1. draining[c]
    BY <1>1 DEF NothingWaitsForNobody
  <2> QED BY <2>1, <1>2, <1>4 DEF NothingWaitsForNobody
<1>9. MutualExclusion' /\ ActiveWasNotCancelled' /\ CancelledWasEnqueued'
  BY <1>2, <1>6 DEF MutualExclusion, ActiveWasNotCancelled, CancelledWasEnqueued
<1> QED BY <1>5, <1>7, <1>8, <1>9

-----------------------------------------------------------------------------
\* QueueInv is inductive, so it holds in every reachable state: the types, the
\* ownership of the entries and the two facts below.
THEOREM QueueInvariance == QueueSafety => []QueueInv
<1>1. QueueInv /\ [QueueNext]_queueVars => QueueInv'
  <2> SUFFICES ASSUME QueueInv, [QueueNext]_queueVars PROVE QueueInv'
    OBVIOUS
  <2>1. ASSUME NEW t \in Tasks, NEW c \in Conns, Enqueue(t, c) PROVE QueueInv'
    BY <2>1, EnqueueKeepsInv
  <2>2. ASSUME NEW t \in Tasks, NEW c \in Conns, CancelQueued(t, c) PROVE QueueInv'
    BY <2>2, CancelQueuedKeepsInv
  <2>3. ASSUME NEW t \in Tasks, RunSettles(t) PROVE QueueInv'
    BY <2>3, RunSettlesKeepsInv
  <2>4. CASE UNCHANGED queueVars
    BY <2>4 DEF queueVars, QueueInv, QueueTypeOK, MutualExclusion, NothingWaitsForNobody,
       EntriesAreOwned, ActiveWasNotCancelled, CancelledWasEnqueued
  <2> QED BY <2>1, <2>2, <2>3, <2>4 DEF QueueNext
<1> QED BY InitQueueInv, <1>1, PTL DEF QueueSafety

\* Every variable of the queue keeps its type.
THEOREM QueueTypeCorrect == QueueSafety => []QueueTypeOK
BY QueueInvariance, PTL DEF QueueInv

\* Two runs under way never share a connection, for any number of connections
\* and tasks and any interleaving of enqueueing, ending and cancelling.
THEOREM QueueMutualExclusion == QueueSafety => []MutualExclusion
BY QueueInvariance, PTL DEF QueueInv

\* No wake-up is lost: whoever waits is waited on by a live drain loop.
THEOREM QueueNoLostWakeup == QueueSafety => []NothingWaitsForNobody
BY QueueInvariance, PTL DEF QueueInv

-----------------------------------------------------------------------------
\* The refinement: every step of the queue is one of the line, or none.

LEMMA OnlyOneIsChosen ==
    ASSUME NEW S, NEW f, NEW c, NEW t \in S, f[t] = c, \A u \in S : f[u] = c => u = t
    PROVE  (CHOOSE u \in S : f[u] = c) = t
OBVIOUS

\* A connection that drains has its run at the head of its line.
LEMMA LineIs ==
    ASSUME QueueInv, NEW c \in Conns, NEW t \in active, connOf[t] = c
    PROVE  draining[c] /\ LineOf(c) = <<t>> \o queues[c]
<1>1. draining[c]
  BY DEF QueueInv, NothingWaitsForNobody
<1>2. \A u \in active : connOf[u] = c => u = t
  BY DEF QueueInv, MutualExclusion
<1>3. (CHOOSE u \in active : connOf[u] = c) = t
  BY <1>2, OnlyOneIsChosen
<1> QED BY <1>1, <1>3 DEF LineOf

LEMMA NextLineIs ==
    ASSUME QueueInv', NEW c \in Conns, NEW t \in active', connOf'[t] = c
    PROVE  draining'[c] /\ LineOf(c)' = <<t>> \o queues'[c]
<1>1. draining'[c]
  BY DEF QueueInv, NothingWaitsForNobody
<1>2. \A u \in active' : connOf'[u] = c => u = t
  BY DEF QueueInv, MutualExclusion
<1>3. (CHOOSE u \in active' : connOf'[u] = c) = t
  BY <1>2, OnlyOneIsChosen
<1> QED BY <1>1, <1>3 DEF LineOf

\* A connection whose list, loop and run stay has the same line.
LEMMA LineStays ==
    ASSUME QueueInv, QueueInv', NEW d \in Conns,
           queues'[d] = queues[d], draining'[d] = draining[d],
           \A t \in active : connOf[t] = d => t \in active' /\ connOf'[t] = d
    PROVE  LineOf(d)' = LineOf(d)
<1>1. CASE draining[d]
  <2>1. PICK t \in active : connOf[t] = d
    BY <1>1 DEF QueueInv, NothingWaitsForNobody
  <2>2. LineOf(d) = <<t>> \o queues[d] /\ LineOf(d)' = <<t>> \o queues'[d]
    BY <2>1, LineIs, NextLineIs
  <2> QED BY <2>2
<1>2. CASE ~draining[d]
  BY <1>2 DEF LineOf
<1> QED BY <1>1, <1>2

\* The lines after a step that changes that of c to new.
LEMMA LinesBecome ==
    ASSUME NEW c \in Conns, NEW new, LineOf(c)' = new,
           \A d \in Conns \ {c} : LineOf(d)' = LineOf(d)
    PROVE  [d \in Conns |-> LineOf(d)'] = [[d \in Conns |-> LineOf(d)] EXCEPT ![c] = new]
OBVIOUS

LEMMA EnqueueArrives ==
    ASSUME QueueInv, NEW t \in Tasks, NEW c \in Conns, Enqueue(t, c)
    PROVE  Line!Arrive(t, c)
<1> USE NoConnAssumption
<1>0. QueueInv' /\ QueueTypeOK
  BY EnqueueKeepsInv DEF QueueInv
<1>1. connOf' = [connOf EXCEPT ![t] = c] /\ connOf[t] = NoConn
  BY DEF Enqueue
<1>2. t \notin Enqueued /\ Enqueued' = Enqueued \cup {t}
  BY <1>0, <1>1 DEF Enqueued, QueueTypeOK
<1>3. t \notin active
  BY <1>1 DEF QueueInv, ActiveWasNotCancelled
<1>4. \A u \in active : u \in Tasks /\ connOf'[u] = connOf[u]
  BY <1>0, <1>1, <1>3 DEF QueueTypeOK
<1>5. LineOf(c)' = Append(LineOf(c), t) /\ \A d \in Conns \ {c} : LineOf(d)' = LineOf(d)
  <2>1. CASE draining[c]
    <3>1. /\ queues' = [queues EXCEPT ![c] = Append(queues[c], t)]
          /\ draining' = draining /\ active' = active
      BY <2>1 DEF Enqueue
    <3>2. PICK r \in active : connOf[r] = c
      BY <2>1 DEF QueueInv, NothingWaitsForNobody
    <3>3. r \in Tasks /\ queues[c] \in Seq(Tasks) /\ queues'[c] = Append(queues[c], t)
      BY <1>0, <1>4, <3>1 DEF QueueTypeOK
    <3>4. LineOf(c) = <<r>> \o queues[c] /\ LineOf(c)' = <<r>> \o queues'[c]
      BY <1>0, <1>4, <3>1, <3>2, LineIs, NextLineIs
    <3>5. <<r>> \o Append(queues[c], t) = Append(<<r>> \o queues[c], t)
      <4>1. <<r>> \in Seq(Tasks) /\ <<t>> \in Seq(Tasks) /\ <<r>> \o queues[c] \in Seq(Tasks)
        BY <3>3
      <4>2. /\ Append(queues[c], t) = queues[c] \o <<t>>
            /\ Append(<<r>> \o queues[c], t) = (<<r>> \o queues[c]) \o <<t>>
        BY <3>3, <4>1, AppendIsConcat
      <4> QED BY <3>3, <4>1, <4>2, ConcatAssociative
    <3>6. \A d \in Conns \ {c} : queues'[d] = queues[d]
      BY <3>1, <1>0 DEF QueueTypeOK
    <3> QED BY <1>0, <1>4, <3>1, <3>3, <3>4, <3>5, <3>6, LineStays
  <2>2. CASE ~draining[c]
    <3> DEFINE list == Append(queues[c], t)
    <3>0. queues[c] = <<>>
      BY <2>2 DEF QueueInv, NothingWaitsForNobody
    <3>1. queues[c] = <<>> /\ list = <<t>>
      BY <3>0
    <3>2. /\ list \in Seq(Tasks) /\ list # <<>> /\ Len(list) = 1 /\ list[1] = t /\ Tail(list) = <<>>
      BY <3>1
    <3>3. \A i \in 1..Len(list) : list[i] \notin cancelledQueued
      BY <3>2, <1>1 DEF QueueInv, CancelledWasEnqueued
    <3>4. Drain(c, list, {})
      BY <2>2 DEF Enqueue
    <3> HIDE DEF list
    <3>5. /\ queues' = [queues EXCEPT ![c] = Tail(list)]
          /\ draining' = [draining EXCEPT ![c] = TRUE]
          /\ active' = (active \ {}) \cup {list[1]}
      BY <1>0, <3>2, <3>3, <3>4, DrainStep DEF QueueTypeOK
    <3>6. queues'[c] = <<>> /\ t \in active' /\ connOf'[t] = c
      BY <1>0, <1>1, <3>2, <3>5 DEF QueueTypeOK
    <3>7. LineOf(c)' = <<t>> \o <<>>
      BY <1>0, <3>6, NextLineIs
    <3>8. LineOf(c) = <<>>
      BY <2>2, <3>1 DEF LineOf
    <3>9. <<t>> \o <<>> = Append(<<>>, t)
      OBVIOUS
    <3>10. \A d \in Conns \ {c} : /\ queues'[d] = queues[d] /\ draining'[d] = draining[d]
                                  /\ active \subseteq active'
      BY <3>5, <1>0 DEF QueueTypeOK
    <3> QED BY <1>0, <1>4, <3>7, <3>8, <3>9, <3>10, LineStays
  <2> QED BY <2>1, <2>2
<1>6. [d \in Conns |-> LineOf(d)'] = [[d \in Conns |-> LineOf(d)] EXCEPT ![c] = Append(LineOf(c), t)]
  BY <1>5, LinesBecome
<1> QED BY <1>2, <1>6 DEF Line!Arrive

LEMMA RunSettlesLeaves ==
    ASSUME QueueInv, NEW t \in Tasks, RunSettles(t)
    PROVE  \E c \in Conns : Line!Leave(c)
<1>0. QueueInv' /\ QueueTypeOK /\ t \in active
  BY RunSettlesKeepsInv DEF QueueInv, RunSettles
<1>c. PICK c \in Conns : c = connOf[t]
  BY <1>0 DEF QueueInv, ActiveWasNotCancelled
<1> DEFINE list == queues[c]
<1>1. list \in Seq(Tasks) /\ connOf' = connOf
  BY <1>0 DEF QueueTypeOK, RunSettles
<1>2. LineOf(c) = <<t>> \o list
  BY <1>0, <1>c, LineIs
<1>3. LineOf(c) # <<>> /\ Tail(LineOf(c)) = list
  BY <1>1, <1>2
<1>4. Drain(c, list, {t})
  BY <1>c DEF RunSettles
<1>5. \A i \in 1..Len(list) : list[i] \notin cancelledQueued /\ connOf[list[i]] = c
  BY <1>1 DEF QueueInv, EntriesAreOwned
<1> HIDE DEF list
<1>6. \/ /\ list = <<>>
         /\ queues' = [queues EXCEPT ![c] = <<>>]
         /\ draining' = [draining EXCEPT ![c] = FALSE]
         /\ active' = active \ {t}
      \/ /\ list # <<>>
         /\ queues' = [queues EXCEPT ![c] = Tail(list)]
         /\ draining' = [draining EXCEPT ![c] = TRUE]
         /\ active' = (active \ {t}) \cup {list[1]}
  BY <1>0, <1>1, <1>4, <1>5, DrainStep DEF QueueTypeOK
<1>7. LineOf(c)' = list
  <2>1. CASE list = <<>>
    <3>1. ~draining'[c] /\ queues'[c] = <<>>
      BY <1>0, <1>1, <1>6, <2>1 DEF QueueTypeOK
    <3> QED BY <3>1, <2>1 DEF LineOf
  <2>2. CASE list # <<>>
    <3>1. /\ queues'[c] = Tail(list) /\ list[1] \in active'
          /\ 1 \in 1..Len(list)
      BY <1>0, <1>1, <1>6, <2>2 DEF QueueTypeOK
    <3>2. connOf'[list[1]] = c
      BY <1>1, <1>5, <3>1
    <3>3. LineOf(c)' = <<list[1]>> \o Tail(list)
      BY <1>0, <1>1, <3>1, <3>2, NextLineIs
    <3>4. <<list[1]>> \o Tail(list) = list
      BY <1>1, <2>2
    <3> QED BY <3>3, <3>4
  <2> QED BY <2>1, <2>2
<1>8. \A d \in Conns \ {c} : LineOf(d)' = LineOf(d)
  <2> TAKE d \in Conns \ {c}
  <2>1. queues'[d] = queues[d] /\ draining'[d] = draining[d]
    BY <1>0, <1>6 DEF QueueTypeOK
  <2>2. \A u \in active : connOf[u] = d => u \in active' /\ connOf'[u] = d
    BY <1>1, <1>6, <1>c
  <2> QED BY <1>0, <2>1, <2>2, LineStays
<1>9. [d \in Conns |-> LineOf(d)'] = [[d \in Conns |-> LineOf(d)] EXCEPT ![c] = Tail(LineOf(c))]
  BY <1>1, <1>3, <1>7, <1>8, LinesBecome
<1>10. Enqueued' = Enqueued
  BY <1>1 DEF Enqueued
<1> QED BY <1>1, <1>3, <1>9, <1>10 DEF Line!Leave

\* Taking an entry out behind the first one.
LEMMA RemoveBehind ==
    ASSUME NEW S, NEW r \in S, NEW q \in Seq(S), NEW p \in 1..Len(q)
    PROVE  /\ p + 1 \in 2..Len(<<r>> \o q)
           /\ RemoveAt(<<r>> \o q, p + 1) = <<r>> \o RemoveAt(q, p)
<1> DEFINE s == <<r>> \o q
           a == RemoveAt(s, p + 1)
<1>1. /\ s \in Seq(S) /\ Len(s) = Len(q) + 1 /\ Len(q) \in Nat /\ s[1] = r
      /\ \A k \in 1..Len(q) : s[k + 1] = q[k]
  OBVIOUS
<1>2. p + 1 \in 2..Len(s) /\ p + 1 \in 1..Len(s)
  BY <1>1
<1>3. /\ a \in Seq(S) /\ Len(a) = Len(s) - 1
      /\ \A k \in 1..(Len(s) - 1) : a[k] = s[IF k < p + 1 THEN k ELSE k + 1]
  <2> HIDE DEF s
  <2> QED BY <1>1, <1>2, RemoveAtEntries
<1>4. /\ RemoveAt(q, p) \in Seq(S) /\ Len(RemoveAt(q, p)) = Len(q) - 1
      /\ \A k \in 1..(Len(q) - 1) : RemoveAt(q, p)[k] = q[IF k < p THEN k ELSE k + 1]
  BY RemoveAtEntries
<1> DEFINE c == RemoveAt(q, p)
<1>5. /\ <<r>> \o c \in Seq(S) /\ Len(<<r>> \o c) = Len(q) /\ (<<r>> \o c)[1] = r
      /\ \A k \in 1..(Len(q) - 1) : (<<r>> \o c)[k + 1] = c[k]
  <2> HIDE DEF c
  <2>1. c \in Seq(S) /\ Len(c) = Len(q) - 1
    BY <1>4 DEF c
  <2> QED BY <1>1, <2>1
<1> HIDE DEF s, a, c
<1>6. ASSUME NEW k \in 1..Len(q)
      PROVE  a[k] = (<<r>> \o c)[k]
  <2>1. CASE k = 1
    BY <1>1, <1>3, <1>5, <2>1
  <2>2. CASE k # 1
    <3>1. k - 1 \in 1..(Len(q) - 1) /\ (k - 1) + 1 = k
      BY <1>1, <2>2
    <3>2. (<<r>> \o c)[k] = c[k - 1]
      BY <1>5, <3>1
    <3>3. c[k - 1] = q[IF k - 1 < p THEN k - 1 ELSE k]
      BY <1>4, <3>1 DEF c
    <3>4. a[k] = s[IF k < p + 1 THEN k ELSE k + 1]
      BY <1>1, <1>3
    <3>q. s[k] = q[k - 1] /\ s[k + 1] = q[k]
      <4>1. s[(k - 1) + 1] = q[k - 1]
        BY <1>1, <3>1
      <4> QED BY <1>1, <3>1, <4>1
    <3>5. CASE k < p + 1
      <4>1. k - 1 < p
        BY <3>5
      <4> QED BY <3>2, <3>3, <3>4, <3>5, <3>q, <4>1
    <3>6. CASE ~(k < p + 1)
      <4>1. ~(k - 1 < p)
        BY <3>6
      <4> QED BY <3>2, <3>3, <3>4, <3>6, <3>q, <4>1
    <3> QED BY <3>5, <3>6
  <2> QED BY <2>1, <2>2
<1>7. a = <<r>> \o c
  <2> DEFINE b == <<r>> \o c
  <2>1. b \in Seq(S) /\ Len(a) = Len(q) /\ Len(b) = Len(q)
    BY <1>1, <1>3, <1>5
  <2>2. \A k \in 1..Len(a) : a[k] = b[k]
    BY <1>6, <2>1
  <2> HIDE DEF b
  <2>3. a = b
    BY <1>3, <2>1, <2>2, SeqEqual
  <2> QED BY <2>3 DEF b
<1> QED BY <1>2, <1>7 DEF s, a, c

LEMMA CancelWithdraws ==
    ASSUME QueueInv, NEW t \in Tasks, NEW c \in Conns, CancelQueued(t, c)
    PROVE  \E i \in 2..Len(LineOf(c)) : Line!Withdraw(c, i)
<1>0. QueueInv' /\ QueueTypeOK
  BY CancelQueuedKeepsInv DEF QueueInv
<1>1. PICK p \in 1..Len(queues[c]) :
         queues' = [queues EXCEPT ![c] = RemoveAt(@, p)]
  BY DEF CancelQueued
<1>2. UNCHANGED <<draining, active, connOf>>
  BY DEF CancelQueued
<1>3. draining[c]
  <2>1. queues[c] # <<>>
    BY <1>0 DEF QueueTypeOK
  <2> QED BY <2>1 DEF QueueInv, NothingWaitsForNobody
<1>4. PICK r \in active : connOf[r] = c
  BY <1>3 DEF QueueInv, NothingWaitsForNobody
<1>5. LineOf(c) = <<r>> \o queues[c] /\ LineOf(c)' = <<r>> \o queues'[c]
  BY <1>0, <1>2, <1>4, LineIs, NextLineIs
<1>6. /\ p + 1 \in 2..Len(<<r>> \o queues[c])
      /\ RemoveAt(<<r>> \o queues[c], p + 1) = <<r>> \o RemoveAt(queues[c], p)
  <2>1. r \in Tasks /\ queues[c] \in Seq(Tasks)
    BY <1>0, <1>4 DEF QueueTypeOK
  <2> QED BY <2>1, RemoveBehind
<1>7. queues'[c] = RemoveAt(queues[c], p) /\ \A d \in Conns \ {c} : queues'[d] = queues[d]
  BY <1>0, <1>1 DEF QueueTypeOK
<1>8. LineOf(c)' = RemoveAt(LineOf(c), p + 1) /\ p + 1 \in 2..Len(LineOf(c))
  BY <1>5, <1>6, <1>7
<1>9. \A d \in Conns \ {c} : LineOf(d)' = LineOf(d)
  BY <1>0, <1>2, <1>7, LineStays
<1>10. [d \in Conns |-> LineOf(d)'] =
           [[d \in Conns |-> LineOf(d)] EXCEPT ![c] = RemoveAt(LineOf(c), p + 1)]
  BY <1>8, <1>9, LinesBecome
<1>11. Enqueued' = Enqueued
  BY <1>2 DEF Enqueued
<1>12. Line!Withdraw(c, p + 1)
  <2>1. \A s, i : Line!RemoveAt(s, i) = RemoveAt(s, i)
    BY DEF Line!RemoveAt, RemoveAt
  <2> QED BY <1>8, <1>10, <1>11, <2>1 DEF Line!Withdraw
<1> QED BY <1>8, <1>12

\* The queue implements the line of each connection: whatever is enqueued, ends
\* or is cancelled, in any order, one task at a time works on a machine, and
\* they get there in the order of their arrival (task-queue.ts:5-8).
THEOREM QueueImplementsLine == QueueSafety => ImplementsLine
<1>1. QueueInit => Line!AbsInit
  <2> SUFFICES ASSUME QueueInit PROVE Line!AbsInit
    OBVIOUS
  <2>1. \A c \in Conns : LineOf(c) = <<>>
    BY DEF QueueInit, LineOf
  <2>2. Enqueued = {}
    BY DEF QueueInit, Enqueued
  <2> QED BY <2>1, <2>2 DEF Line!AbsInit
<1>2. QueueInv /\ [QueueNext]_queueVars => [Line!AbsNext]_(Line!absVars)
  <2> SUFFICES ASSUME QueueInv, [QueueNext]_queueVars PROVE [Line!AbsNext]_(Line!absVars)
    OBVIOUS
  <2>1. ASSUME NEW t \in Tasks, NEW c \in Conns, Enqueue(t, c) PROVE Line!AbsNext
    BY <2>1, EnqueueArrives DEF Line!AbsNext
  <2>2. ASSUME NEW t \in Tasks, NEW c \in Conns, CancelQueued(t, c) PROVE Line!AbsNext
    BY <2>2, CancelWithdraws DEF Line!AbsNext
  <2>3. ASSUME NEW t \in Tasks, RunSettles(t) PROVE Line!AbsNext
    BY <2>3, RunSettlesLeaves DEF Line!AbsNext
  <2>4. CASE UNCHANGED queueVars
    <3>1. \A c \in Conns : LineOf(c)' = LineOf(c)
      BY <2>4 DEF queueVars, LineOf
    <3>2. Enqueued' = Enqueued
      BY <2>4 DEF queueVars, Enqueued
    <3> QED BY <3>1, <3>2 DEF Line!absVars
  <2> QED BY <2>1, <2>2, <2>3, <2>4 DEF QueueNext
<1> QED BY <1>1, <1>2, QueueInvariance, PTL DEF QueueSafety, ImplementsLine, Line!AbsSpec

-----------------------------------------------------------------------------
(* The life of a task.                                                     *)

\* A task stands in line somewhere.
InLine == {t \in Tasks : \E c \in Conns : Waiting(t, c)}

\* What the mutex line of the database may hold: updates of known tasks.
Jobs == {Heal} \cup {Persist(t) : t \in {u \in Tasks : status[u] # "none"}}

ExecutorTypeOK ==
    /\ server \in {"down", "listening", "healing", "healed"}
    /\ crashes \in Nat /\ failures \in Nat
    /\ status \in [Tasks -> Statuses]
    /\ items \in [Tasks -> [Slots -> ItemStatuses]]
    /\ cursor \in [Tasks -> 0..(NItems + 1)]
    /\ cancelFlags \subseteq Tasks
    /\ jobs \in Seq(Jobs)
    /\ firing \in [Tasks -> Nat] /\ events \in [Tasks -> Nat]
    /\ history \in [Tasks -> Statuses]
    /\ installs \in [Tasks -> Nat]

\* The status of a task follows its place in the queue, and nothing is known of a
\* task that was never enqueued.
StatusFollowsQueue ==
    /\ \A t \in active : status[t] = "running"
    /\ \A t \in InLine : status[t] = "queued"
    /\ \A t \in Tasks : connOf[t] = NoConn => status[t] = "none" /\ history[t] = "none"

\* How far a batch has come tells what its items may be.
ItemsFollowCursor ==
    \A t \in BatchTasks :
        /\ status[t] \in {"none", "queued"} => cursor[t] = 0
        /\ cursor[t] = 0 => \A i \in Slots : items[t][i] = "pending"
        /\ \A i \in Slots : i < cursor[t] => items[t][i] \in {"succeeded", "failed", "skipped"}
        /\ \A i \in Slots : items[t][i] = "skipped" =>
              cursor[t] > NItems /\ (status[t] = "running" => t \in cancelFlags)

ExecutorInv ==
    /\ QueueInv
    /\ ExecutorTypeOK
    /\ StatusFollowsQueue
    /\ ItemsFollowCursor
    /\ OutcomeMatchesItems
    /\ NoStrandedHistory
    /\ RecordedSuccessIsReal

-----------------------------------------------------------------------------
(* The queue in terms of who waits and who runs.                           *)

\* The elements of a finite set in a sequence are elements of the set.
LEMMA SetToSeqIsSeq ==
    ASSUME NEW S, IsFiniteSet(S)
    PROVE  SetToSeq(S) \in Seq(S)
<1>1. Cardinality(S) \in Nat /\ ExistsBijection(1..Cardinality(S), S)
  BY FS_CardinalityType
<1>2. PICK f \in [1..Cardinality(S) -> S] : IsInjective(f)
  <2>1. PICK g : g \in Bijection(1..Cardinality(S), S)
    BY <1>1 DEF ExistsBijection
  <2>2. g \in [1..Cardinality(S) -> S] /\ \A a, b \in 1..Cardinality(S) : g[a] = g[b] => a = b
    BY <2>1 DEF Bijection, Injection, IsInjective
  <2> QED BY <2>2 DEF IsInjective
<1>3. SetToSeq(S) \in [1..Cardinality(S) -> S]
  BY <1>2 DEF SetToSeq
<1> QED BY <1>1, <1>3

LEMMA EntriesWait ==
    ASSUME QueueInv
    PROVE  /\ \A c \in Conns : \A i \in 1..Len(queues[c]) : queues[c][i] \in InLine
           /\ \A t \in InLine : t \notin active /\ t \notin cancelledQueued
           /\ \A t \in active : t \in Tasks /\ connOf[t] # NoConn
           /\ \A t \in InLine : connOf[t] # NoConn
<1>1. QueueTypeOK
  BY DEF QueueInv
<1>2. \A c \in Conns : \A i \in 1..Len(queues[c]) : queues[c][i] \in InLine
  <2> TAKE c \in Conns
  <2> TAKE i \in 1..Len(queues[c])
  <2>1. queues[c][i] \in Tasks
    BY <1>1 DEF QueueTypeOK
  <2> QED BY <2>1 DEF InLine, Waiting
<1>3. ASSUME NEW t \in InLine
      PROVE  t \notin active /\ t \notin cancelledQueued /\ connOf[t] \in Conns
  BY DEF InLine, Waiting, QueueInv, EntriesAreOwned
<1>4. \A t \in active : t \in Tasks /\ connOf[t] \in Conns
  BY <1>1 DEF QueueTypeOK, QueueInv, ActiveWasNotCancelled
<1> QED BY <1>2, <1>3, <1>4, NoConnAssumption

\* A newcomer is taken at once if nothing stands before it, and waits otherwise.
LEMMA EnqueueStarts ==
    ASSUME QueueInv, NEW t \in Tasks, NEW c \in Conns, Enqueue(t, c)
    PROVE  /\ connOf[t] = NoConn /\ connOf' = [connOf EXCEPT ![t] = c]
           /\ t \notin active /\ t \notin InLine
           /\ \/ /\ PositionAhead(c) > 0
                 /\ active' = active
                 /\ InLine' \subseteq InLine \cup {t}
              \/ /\ ~(PositionAhead(c) > 0)
                 /\ active' = active \cup {t}
                 /\ InLine' \subseteq InLine
<1>0. QueueTypeOK
  BY DEF QueueInv
<1>1. connOf[t] = NoConn /\ connOf' = [connOf EXCEPT ![t] = c]
  BY DEF Enqueue
<1>2. t \notin active /\ t \notin InLine
  BY <1>1, EntriesWait
<1>3. CASE draining[c]
  <2>1. /\ queues' = [queues EXCEPT ![c] = Append(queues[c], t)]
        /\ active' = active
    BY <1>3 DEF Enqueue
  <2>2. PositionAhead(c) > 0
    BY <1>0, <1>3 DEF PositionAhead, QueueTypeOK
  <2>3. ASSUME NEW u \in Tasks, NEW d \in Conns, NEW i \in 1..Len(queues'[d]), queues'[d][i] = u
        PROVE  u \in InLine \cup {t}
    <3>1. CASE d = c
      <4>1. queues'[d] = Append(queues[c], t) /\ queues[c] \in Seq(Tasks)
        BY <1>0, <2>1, <3>1 DEF QueueTypeOK
      <4>2. u = t \/ (i \in 1..Len(queues[c]) /\ queues[c][i] = u)
        BY <2>3, <4>1
      <4> QED BY <4>2, EntriesWait
    <3>2. CASE d # c
      <4>1. queues'[d] = queues[d]
        BY <1>0, <2>1, <3>2 DEF QueueTypeOK
      <4> QED BY <2>3, <4>1, EntriesWait
    <3> QED BY <3>1, <3>2
  <2>4. InLine' \subseteq InLine \cup {t}
    BY <2>3 DEF InLine, Waiting
  <2> QED BY <1>1, <1>2, <2>1, <2>2, <2>4
<1>4. CASE ~draining[c]
  <2> DEFINE list == Append(queues[c], t)
  <2>1. queues[c] = <<>>
    BY <1>4 DEF QueueInv, NothingWaitsForNobody
  <2>2. /\ list \in Seq(Tasks) /\ list # <<>> /\ list[1] = t /\ Tail(list) = <<>>
        /\ Len(list) = 1
    BY <2>1
  <2>3. ~(PositionAhead(c) > 0)
    BY <1>4, <2>1 DEF PositionAhead
  <2>4. Drain(c, list, {})
    BY <1>4 DEF Enqueue
  <2>5. \A i \in 1..Len(list) : list[i] \notin cancelledQueued
    BY <2>2, <1>1, NoConnAssumption DEF QueueInv, CancelledWasEnqueued
  <2> HIDE DEF list
  <2>6. /\ queues' = [queues EXCEPT ![c] = <<>>]
        /\ active' = active \cup {t}
    <3>1. /\ queues' = [queues EXCEPT ![c] = Tail(list)]
          /\ active' = (active \ {}) \cup {list[1]}
      BY <1>0, <2>2, <2>4, <2>5, DrainStep DEF QueueTypeOK
    <3> QED BY <2>2, <3>1
  <2>7. ASSUME NEW u \in Tasks, NEW d \in Conns, NEW i \in 1..Len(queues'[d]), queues'[d][i] = u
        PROVE  u \in InLine
    <3>1. d # c
      BY <1>0, <2>6 DEF QueueTypeOK
    <3>2. queues'[d] = queues[d]
      BY <1>0, <2>6, <3>1 DEF QueueTypeOK
    <3> QED BY <2>7, <3>2, EntriesWait
  <2>8. InLine' \subseteq InLine
    BY <2>7 DEF InLine, Waiting
  <2> QED BY <1>1, <1>2, <2>3, <2>6, <2>8
<1> QED BY <1>3, <1>4

\* When a run is over, at most the first of those that waited starts.
LEMMA SettlesStarts ==
    ASSUME QueueInv, NEW t \in Tasks, RunSettles(t)
    PROVE  /\ connOf' = connOf
           /\ t \in active /\ t \notin active'
           /\ active \ {t} \subseteq active'
           /\ InLine' \subseteq InLine
           /\ Started \subseteq InLine /\ Started \cap InLine' = {}
           /\ \E u : Started \subseteq {u}
<1>0. QueueInv' /\ QueueTypeOK /\ t \in active
  BY RunSettlesKeepsInv DEF QueueInv, RunSettles
<1>c. PICK c \in Conns : c = connOf[t]
  BY <1>0 DEF QueueInv, ActiveWasNotCancelled
<1> DEFINE list == queues[c]
<1>1. list \in Seq(Tasks) /\ connOf' = connOf
  BY <1>0 DEF QueueTypeOK, RunSettles
<1>4. Drain(c, list, {t})
  BY <1>c DEF RunSettles
<1>5. \A i \in 1..Len(list) : list[i] \notin cancelledQueued /\ list[i] \in InLine
  BY EntriesWait
<1>6. /\ queues' = [queues EXCEPT ![c] = IF list = <<>> THEN <<>> ELSE Tail(list)]
      /\ \/ active' = active \ {t}
         \/ list # <<>> /\ active' = (active \ {t}) \cup {list[1]}
  <2> HIDE DEF list
  <2> QED BY <1>0, <1>1, <1>4, <1>5, DrainStep DEF QueueTypeOK
<1>7. list # <<>> => list[1] \in InLine
  BY <1>1, <1>5
<1>8. t \notin InLine
  BY <1>0, EntriesWait
<1>9. active \ {t} \subseteq active' /\ t \notin active'
  BY <1>6, <1>7, <1>8
<1>10. Started \subseteq InLine /\ \E u : Started \subseteq {u}
  <2>1. CASE active' = active \ {t}
    <3>1. Started = {}
      BY <2>1 DEF Started
    <3> QED BY <3>1
  <2>2. CASE list # <<>> /\ active' = (active \ {t}) \cup {list[1]}
    <3>1. Started \subseteq {list[1]}
      BY <2>2 DEF Started
    <3> QED BY <2>2, <3>1, <1>7
  <2> QED BY <1>6, <2>1, <2>2
<1>11. ASSUME NEW u \in Tasks, NEW d \in Conns, NEW i \in 1..Len(queues'[d]), queues'[d][i] = u
       PROVE  u \in InLine
  <2>1. CASE d = c
    <3>1. queues'[d] = IF list = <<>> THEN <<>> ELSE Tail(list)
      BY <1>0, <1>6, <2>1 DEF QueueTypeOK
    <3>2. list # <<>> /\ i \in 1..(Len(list) - 1) /\ u = list[i + 1]
      <4> HIDE DEF list
      <4>1. list # <<>>
        BY <1>11, <3>1
      <4>2. queues'[d] = Tail(list)
        BY <3>1, <4>1
      <4> QED BY <1>1, <1>11, <4>1, <4>2, TailEntries
    <3>3. i + 1 \in 1..Len(list)
      BY <1>1, <3>2
    <3> QED BY <1>5, <3>2, <3>3
  <2>2. CASE d # c
    <3>1. queues'[d] = queues[d]
      BY <1>0, <1>6, <2>2 DEF QueueTypeOK
    <3> QED BY <1>11, <3>1, EntriesWait
  <2> QED BY <2>1, <2>2
<1>12. InLine' \subseteq InLine
  BY <1>11 DEF InLine, Waiting
<1>13. Started \cap InLine' = {}
  <2>1. \A u \in InLine' : u \notin active'
    BY <1>0 DEF InLine, Waiting, QueueInv, EntriesAreOwned
  <2> QED BY <2>1 DEF Started
<1> QED BY <1>0, <1>1, <1>9, <1>10, <1>12, <1>13

\* A task that is cancelled while it waits leaves its line.
LEMMA CancelLeaves ==
    ASSUME QueueInv, NEW t \in Tasks, NEW c \in Conns, CancelQueued(t, c)
    PROVE  /\ connOf' = connOf /\ active' = active
           /\ t \in InLine /\ InLine' \subseteq InLine \ {t}
<1>0. QueueInv' /\ QueueTypeOK
  BY CancelQueuedKeepsInv DEF QueueInv
<1>1. PICK p \in 1..Len(queues[c]) :
         queues[c][p] = t /\ queues' = [queues EXCEPT ![c] = RemoveAt(@, p)]
  BY DEF CancelQueued
<1>2. connOf' = connOf /\ active' = active /\ cancelledQueued' = cancelledQueued \cup {t}
  BY DEF CancelQueued
<1>3. t \in InLine
  BY <1>1, EntriesWait
<1>4. ASSUME NEW u \in Tasks, NEW d \in Conns, NEW i \in 1..Len(queues'[d]), queues'[d][i] = u
      PROVE  u \in InLine
  <2>1. CASE d = c
    <3>1. queues'[d] = RemoveAt(queues[c], p) /\ queues[c] \in Seq(Tasks)
      BY <1>0, <1>1, <2>1 DEF QueueTypeOK
    <3>2. i \in 1..(Len(queues[c]) - 1) /\ u = queues[c][IF i < p THEN i ELSE i + 1]
      BY <1>4, <3>1, RemoveAtEntries
    <3>3. (IF i < p THEN i ELSE i + 1) \in 1..Len(queues[c])
      BY <3>1, <3>2
    <3> QED BY <3>2, <3>3, EntriesWait
  <2>2. CASE d # c
    <3>1. queues'[d] = queues[d]
      BY <1>0, <1>1, <2>2 DEF QueueTypeOK
    <3> QED BY <1>4, <3>1, EntriesWait
  <2> QED BY <2>1, <2>2
<1>5. InLine' \subseteq InLine
  BY <1>4 DEF InLine, Waiting
<1>6. t \notin InLine'
  BY <1>0, <1>2 DEF InLine, Waiting, QueueInv, EntriesAreOwned
<1> QED BY <1>2, <1>3, <1>5, <1>6

-----------------------------------------------------------------------------
(* The executor.                                                           *)

LEMMA InitExecutorInv == Init => ExecutorInv
<1> SUFFICES ASSUME Init PROVE ExecutorInv
  OBVIOUS
<1> USE ExecutorAssumption
<1>1. QueueInv
  BY InitQueueInv DEF Init
<1>2. /\ active = {} /\ InLine = {}
      /\ \A t \in Tasks : /\ status[t] = "none" /\ history[t] = "none"
                          /\ cursor[t] = 0 /\ installs[t] = 0
                          /\ \A i \in Slots : items[t][i] = "pending"
  BY DEF Init, QueueInit, InLine, Waiting, NoStatus, NoItems, Zero
<1>3. ExecutorTypeOK
  BY DEF Init, ExecutorTypeOK, NoStatus, NoItems, Zero, Statuses, ItemStatuses
<1>4. StatusFollowsQueue
  BY <1>2 DEF StatusFollowsQueue
<1>5. ItemsFollowCursor
  BY <1>2 DEF ItemsFollowCursor, Slots
<1>6. OutcomeMatchesItems
  BY <1>2 DEF OutcomeMatchesItems
<1>7. NoStrandedHistory /\ RecordedSuccessIsReal
  BY <1>2 DEF NoStrandedHistory, RecordedSuccessIsReal
<1> QED BY <1>1, <1>3, <1>4, <1>5, <1>6, <1>7 DEF ExecutorInv

\* More may be asked of the database once more tasks are known.
LEMMA JobsGrow ==
    ASSUME jobs \in Seq(Jobs), NEW more \in Seq(Jobs'),
           \A u \in Tasks : status[u] # "none" => status'[u] # "none"
    PROVE  jobs \in Seq(Jobs') /\ jobs \o more \in Seq(Jobs')
<1>1. Jobs \subseteq Jobs'
  BY DEF Jobs
<1>2. jobs \in Seq(Jobs')
  <2>1. /\ Len(jobs) \in Nat /\ jobs = [i \in 1..Len(jobs) |-> jobs[i]]
        /\ \A i \in 1..Len(jobs) : jobs[i] \in Jobs
    OBVIOUS
  <2>2. \A i \in 1..Len(jobs) : jobs[i] \in Jobs'
    BY <1>1, <2>1
  <2> HIDE DEF Jobs
  <2> QED BY <2>1, <2>2, IsASeq
<1> QED BY <1>2, ConcatProperties

\* What a step says of one batch depends on its items, status and flag only.
BatchOK(t) ==
    LET seen == {items[t][i] : i \in Slots} IN
    /\ status[t] = "succeeded" => seen = {"succeeded"}
    /\ status[t] = "failed" => "failed" \in seen /\ seen \subseteq {"succeeded", "failed"}
    /\ status[t] = "cancelled" => seen = {"pending"} \/ seen \cap {"pending", "running"} = {}
    /\ status[t] \in {"none", "queued"} => cursor[t] = 0
    /\ cursor[t] = 0 => \A i \in Slots : items[t][i] = "pending"
    /\ \A i \in Slots : i < cursor[t] => items[t][i] \in {"succeeded", "failed", "skipped"}
    /\ \A i \in Slots : items[t][i] = "skipped" =>
          cursor[t] > NItems /\ (status[t] = "running" => t \in cancelFlags)

LEMMA BatchesAre ==
    (\A t \in BatchTasks : BatchOK(t)) <=> ItemsFollowCursor /\ OutcomeMatchesItems
BY DEF BatchOK, ItemsFollowCursor, OutcomeMatchesItems

LEMMA NextBatchesAre ==
    (\A t \in BatchTasks : BatchOK(t)') <=> ItemsFollowCursor' /\ OutcomeMatchesItems'
BY DEF BatchOK, ItemsFollowCursor, OutcomeMatchesItems

\* A batch that a step leaves alone stays as good as it was.
LEMMA BatchStays ==
    ASSUME NEW t \in BatchTasks, BatchOK(t),
           items'[t] = items[t], cursor'[t] = cursor[t], status'[t] = status[t],
           t \in cancelFlags => t \in cancelFlags'
    PROVE  BatchOK(t)'
BY DEF BatchOK

LEMMA QueueStays ==
    ASSUME QueueInv, UNCHANGED queueVars
    PROVE  QueueInv' /\ InLine' = InLine /\ active' = active /\ connOf' = connOf
<1>1. InLine' = InLine /\ active' = active /\ connOf' = connOf
  BY DEF queueVars, InLine, Waiting
<1>2. QueueInv'
  BY DEF queueVars, QueueInv, QueueTypeOK, MutualExclusion, NothingWaitsForNobody,
         EntriesAreOwned, ActiveWasNotCancelled, CancelledWasEnqueued
<1> QED BY <1>1, <1>2

\* A step inside a run, or a flag, keeps the invariant if it is right about the
\* batches.
LEMMA InsideRuns ==
    ASSUME ExecutorInv, UNCHANGED <<queueVars, status, dbVars, serverVars>>,
           items' \in [Tasks -> [Slots -> ItemStatuses]],
           cursor' \in [Tasks -> 0..(NItems + 1)],
           cancelFlags' \subseteq Tasks,
           \A t \in BatchTasks : BatchOK(t)'
    PROVE  ExecutorInv'
<1>1. QueueInv' /\ InLine' = InLine /\ active' = active /\ connOf' = connOf
  BY QueueStays DEF ExecutorInv
<1>2. Jobs' = Jobs
  BY DEF Jobs
<1>3. ExecutorTypeOK'
  BY <1>2 DEF ExecutorInv, ExecutorTypeOK, dbVars, serverVars
<1>4. StatusFollowsQueue'
  BY <1>1 DEF ExecutorInv, StatusFollowsQueue, dbVars
<1>5. ItemsFollowCursor' /\ OutcomeMatchesItems'
  BY NextBatchesAre
<1>6. NoStrandedHistory' /\ RecordedSuccessIsReal'
  BY DEF ExecutorInv, NoStrandedHistory, RecordedSuccessIsReal, dbVars, serverVars
<1> QED BY <1>1, <1>3, <1>4, <1>5, <1>6 DEF ExecutorInv

\* The loop goes on from what is done so far: another item starts, or the batch is
\* over, with the rest skipped only if the flag is up.
LEMMA LoopGoesOn ==
    ASSUME ExecutorInv, NEW t \in BatchTasks, t \in active,
           NEW k \in 1..(NItems + 1), NEW done \in [Slots -> ItemStatuses],
           \A i \in Slots : i < k => done[i] \in {"succeeded", "failed"},
           \A i \in Slots : ~(i < k) => done[i] # "skipped",
           LoopFrom(t, k, done), UNCHANGED <<queueVars, status, cancelFlags, dbVars, serverVars>>
    PROVE  ExecutorInv'
<1> USE ExecutorAssumption
<1> DEFINE stop == k > NItems \/ t \in cancelFlags
           place == IF stop THEN NItems + 1 ELSE k
           now == [i \in Slots |-> IF i < k THEN done[i]
                                   ELSE IF stop THEN "skipped"
                                   ELSE IF i = k THEN "running" ELSE done[i]]
<1>0. ExecutorTypeOK /\ t \in Tasks /\ status[t] = "running"
  BY DEF ExecutorInv, StatusFollowsQueue
<1>1. cursor' = [cursor EXCEPT ![t] = place] /\ items' = [items EXCEPT ![t] = now]
  BY DEF LoopFrom
<1>2. now \in [Slots -> ItemStatuses]
  BY DEF ItemStatuses
<1>3. place \in 1..(NItems + 1)
  OBVIOUS
<1>4. ASSUME NEW i \in Slots
      PROVE  /\ i < place => now[i] \in {"succeeded", "failed", "skipped"}
             /\ now[i] = "skipped" => place > NItems /\ t \in cancelFlags
  <2>0. i \in 1..NItems
    BY DEF Slots
  <2>1. CASE i < k
    BY <2>0, <2>1
  <2>2. CASE ~(i < k) /\ stop
    BY <2>0, <2>2
  <2>3. CASE ~(i < k) /\ ~stop
    BY <2>0, <2>3
  <2> QED BY <2>1, <2>2, <2>3
<1> HIDE DEF place, now, stop
<1>5. /\ items' \in [Tasks -> [Slots -> ItemStatuses]]
      /\ cursor' \in [Tasks -> 0..(NItems + 1)]
  BY <1>0, <1>1, <1>2, <1>3 DEF ExecutorTypeOK
<1>6. items'[t] = now /\ cursor'[t] = place
  BY <1>0, <1>1 DEF ExecutorTypeOK
<1>7. BatchOK(t)'
  BY <1>0, <1>3, <1>4, <1>6 DEF BatchOK
<1>8. ASSUME NEW u \in BatchTasks \ {t}
      PROVE  BatchOK(u)'
  <2>1. items'[u] = items[u] /\ cursor'[u] = cursor[u] /\ status'[u] = status[u]
    BY <1>0, <1>1 DEF ExecutorTypeOK
  <2>2. BatchOK(u)
    BY BatchesAre DEF ExecutorInv
  <2> QED BY <2>1, <2>2, BatchStays
<1>9. cancelFlags' \subseteq Tasks
  BY <1>0 DEF ExecutorTypeOK
<1> QED BY <1>5, <1>7, <1>8, <1>9, InsideRuns

LEMMA ConnectSucceedsKeeps ==
    ASSUME ExecutorInv, NEW t \in Tasks, ConnectSucceeds(t)
    PROVE  ExecutorInv'
<1> USE ExecutorAssumption
<1>1. /\ t \in BatchTasks /\ t \in active /\ cursor[t] = 0
      /\ LoopFrom(t, 1, items[t])
      /\ UNCHANGED <<queueVars, status, cancelFlags, dbVars, serverVars>>
  BY DEF ConnectSucceeds, Connecting
<1>2. items[t] \in [Slots -> ItemStatuses]
  BY DEF ExecutorInv, ExecutorTypeOK
<1>3. \A i \in Slots : items[t][i] = "pending" /\ ~(i < 1)
  BY <1>1 DEF ExecutorInv, ItemsFollowCursor, Slots
<1>4. 1 \in 1..(NItems + 1)
  OBVIOUS
<1> QED BY <1>1, <1>2, <1>3, <1>4, LoopGoesOn

LEMMA ItemEndsKeeps ==
    ASSUME ExecutorInv, NEW t \in Tasks, NEW outcome \in {"succeeded", "failed"},
           ItemEnds(t, outcome)
    PROVE  ExecutorInv'
<1> USE ExecutorAssumption
<1> DEFINE done == [items[t] EXCEPT ![cursor[t]] = outcome]
<1>1. /\ t \in BatchTasks /\ t \in active /\ cursor[t] \in Slots
      /\ LoopFrom(t, cursor[t] + 1, done)
      /\ UNCHANGED <<queueVars, status, cancelFlags, dbVars, serverVars>>
  BY DEF ItemEnds
<1>2. items[t] \in [Slots -> ItemStatuses]
  BY DEF ExecutorInv, ExecutorTypeOK
<1>3. done \in [Slots -> ItemStatuses]
  BY <1>2 DEF ItemStatuses
<1>4. \A i \in Slots : items[t][i] # "skipped"
  BY <1>1 DEF ExecutorInv, ItemsFollowCursor, Slots
<1>5. \A i \in Slots : i < cursor[t] + 1 => done[i] \in {"succeeded", "failed"}
  <2> TAKE i \in Slots
  <2>1. CASE i = cursor[t]
    BY <1>2, <2>1
  <2>2. CASE i # cursor[t] /\ i < cursor[t] + 1
    <3>1. i < cursor[t]
      BY <1>1, <2>2 DEF Slots
    <3>2. items[t][i] \in {"succeeded", "failed", "skipped"}
      BY <1>1, <3>1 DEF ExecutorInv, ItemsFollowCursor
    <3> QED BY <1>2, <1>4, <2>2, <3>2
  <2> QED BY <2>1, <2>2
<1>6. \A i \in Slots : ~(i < cursor[t] + 1) => done[i] # "skipped"
  <2> TAKE i \in Slots
  <2>1. CASE i = cursor[t]
    BY <1>2, <2>1
  <2>2. CASE i # cursor[t]
    BY <1>2, <1>4, <2>2
  <2> QED BY <2>1, <2>2
<1>7. cursor[t] + 1 \in 1..(NItems + 1)
  BY <1>1 DEF Slots
<1> HIDE DEF done
<1> QED BY <1>1, <1>3, <1>5, <1>6, <1>7, LoopGoesOn

LEMMA ConnectFailsKeeps ==
    ASSUME ExecutorInv, NEW t \in Tasks, ConnectFails(t)
    PROVE  ExecutorInv'
<1> USE ExecutorAssumption
<1> DEFINE now == [i \in Slots |-> "failed"]
<1>0. ExecutorTypeOK /\ t \in BatchTasks /\ t \in active /\ status[t] = "running"
  BY DEF ExecutorInv, StatusFollowsQueue, ConnectFails, Connecting
<1>1. /\ cursor' = [cursor EXCEPT ![t] = NItems + 1]
      /\ items' = [items EXCEPT ![t] = now]
      /\ UNCHANGED <<queueVars, status, cancelFlags, dbVars, serverVars>>
  BY DEF ConnectFails
<1>2. now \in [Slots -> ItemStatuses] /\ \A i \in Slots : now[i] = "failed"
  BY DEF ItemStatuses
<1> HIDE DEF now
<1>3. /\ items' \in [Tasks -> [Slots -> ItemStatuses]]
      /\ cursor' \in [Tasks -> 0..(NItems + 1)]
      /\ cancelFlags' \subseteq Tasks
  BY <1>0, <1>1, <1>2 DEF ExecutorTypeOK
<1>4. items'[t] = now /\ cursor'[t] = NItems + 1 /\ status'[t] = "running"
  BY <1>0, <1>1 DEF ExecutorTypeOK
<1>5. BatchOK(t)'
  BY <1>2, <1>4 DEF BatchOK
<1>6. ASSUME NEW u \in BatchTasks \ {t}
      PROVE  BatchOK(u)'
  <2>1. /\ items'[u] = items[u] /\ cursor'[u] = cursor[u] /\ status'[u] = status[u]
        /\ cancelFlags' = cancelFlags
    BY <1>0, <1>1 DEF ExecutorTypeOK
  <2>2. BatchOK(u)
    BY BatchesAre DEF ExecutorInv
  <2> QED BY <2>1, <2>2, BatchStays
<1> QED BY <1>1, <1>3, <1>5, <1>6, InsideRuns

LEMMA RaiseFlagKeeps ==
    ASSUME ExecutorInv, NEW t \in Tasks, RaiseFlag(t)
    PROVE  ExecutorInv'
<1>0. ExecutorTypeOK
  BY DEF ExecutorInv
<1>1. /\ cancelFlags' = cancelFlags \cup {t}
      /\ UNCHANGED <<queueVars, status, items, cursor, dbVars, serverVars>>
  BY DEF RaiseFlag
<1>2. \A u \in BatchTasks : BatchOK(u)
  BY BatchesAre DEF ExecutorInv
<1>3. \A u \in BatchTasks : BatchOK(u)'
  BY <1>1, <1>2, BatchStays
<1>4. /\ items' \in [Tasks -> [Slots -> ItemStatuses]]
      /\ cursor' \in [Tasks -> 0..(NItems + 1)]
      /\ cancelFlags' \subseteq Tasks
  BY <1>0, <1>1 DEF ExecutorTypeOK
<1> QED BY <1>1, <1>3, <1>4, InsideRuns

-----------------------------------------------------------------------------
(* Steps that give a task another status.                                  *)

\* A task whose status changes is one that starts, ends or leaves its line: none
\* that was over, and its batch is right about the new status.
LEMMA StatusMoves ==
    ASSUME ExecutorInv, QueueInv', UNCHANGED <<cursor, firing, history, installs, events, failures,
                                               serverVars>>,
           NEW more \in Seq(Jobs'), jobs' = jobs \o more,
           status' \in [Tasks -> Statuses],
           items' \in [Tasks -> [Slots -> ItemStatuses]],
           cancelFlags' \subseteq Tasks,
           \A u \in Tasks : status'[u] # status[u] =>
               /\ status'[u] # "none" /\ connOf'[u] # NoConn
               /\ status[u] \in {"queued", "running"} \/ connOf[u] = NoConn,
           \A u \in Tasks : connOf'[u] = NoConn => connOf[u] = NoConn,
           \A u \in active' : status'[u] = "running",
           \A u \in InLine' : status'[u] = "queued",
           \A u \in BatchTasks : BatchOK(u)'
    PROVE  ExecutorInv'
<1>0. ExecutorTypeOK /\ StatusFollowsQueue /\ QueueTypeOK
  BY DEF ExecutorInv, QueueInv
<1>1. \A u \in Tasks : status[u] # "none" => status'[u] # "none"
  OBVIOUS
<1>2. jobs' \in Seq(Jobs')
  BY <1>0, <1>1, JobsGrow DEF ExecutorTypeOK
<1>3. ExecutorTypeOK'
  BY <1>0, <1>2 DEF ExecutorTypeOK, serverVars
<1>4. StatusFollowsQueue'
  BY <1>0 DEF StatusFollowsQueue
<1>5. ItemsFollowCursor' /\ OutcomeMatchesItems'
  BY NextBatchesAre
<1>6. NoStrandedHistory'
  BY <1>1 DEF ExecutorInv, NoStrandedHistory, serverVars
<1>7. RecordedSuccessIsReal'
  <2>1. ASSUME NEW u \in Tasks, history[u] = "succeeded"
        PROVE  status'[u] \in {"succeeded", "none"}
    <3>1. status[u] \in {"succeeded", "none"} /\ connOf[u] # NoConn
      BY <1>0, <2>1 DEF ExecutorInv, RecordedSuccessIsReal, StatusFollowsQueue
    <3> QED BY <3>1
  <2> QED BY <2>1 DEF ExecutorInv, RecordedSuccessIsReal
<1> QED BY <1>3, <1>4, <1>5, <1>6, <1>7 DEF ExecutorInv

LEMMA SubmitKeeps ==
    ASSUME ExecutorInv, NEW t \in Tasks, NEW c \in Conns, Submit(t, c)
    PROVE  ExecutorInv'
<1> DEFINE new == IF PositionAhead(c) > 0 THEN "queued" ELSE "running"
           more == IF t \in Started THEN <<Persist(t), Persist(t)>> ELSE <<Persist(t)>>
<1>0. QueueInv /\ ExecutorTypeOK /\ StatusFollowsQueue /\ QueueTypeOK
  BY DEF ExecutorInv, QueueInv
<1>1. /\ Enqueue(t, c)
      /\ status' = [status EXCEPT ![t] = new]
      /\ jobs' = jobs \o more
      /\ UNCHANGED <<items, cursor, cancelFlags, firing, history, installs, events, failures,
                     serverVars>>
  BY DEF Submit
<1>2. QueueInv'
  BY <1>0, <1>1, EnqueueKeepsInv
<1>3. /\ connOf[t] = NoConn /\ connOf' = [connOf EXCEPT ![t] = c]
      /\ t \notin active /\ t \notin InLine
      /\ \/ new = "queued" /\ active' = active /\ InLine' \subseteq InLine \cup {t}
         \/ new = "running" /\ active' = active \cup {t} /\ InLine' \subseteq InLine
  BY <1>0, <1>1, EnqueueStarts
<1>4. new \in {"queued", "running"}
  OBVIOUS
<1> HIDE DEF new
<1>5. status' \in [Tasks -> Statuses] /\ status'[t] = new
      /\ \A u \in Tasks : u # t => status'[u] = status[u]
  BY <1>0, <1>1, <1>4 DEF ExecutorTypeOK, Statuses
<1>6. Persist(t) \in Jobs'
  BY <1>4, <1>5 DEF Jobs
<1>7. more \in Seq(Jobs')
  <2> HIDE DEF Jobs, Persist
  <2> QED BY <1>6
<1> HIDE DEF more
<1>8. /\ connOf'[t] # NoConn
      /\ \A u \in Tasks : u # t => connOf'[u] = connOf[u]
  BY <1>0, <1>3, NoConnAssumption DEF QueueTypeOK
<1>9. \A u \in active' : status'[u] = "running"
  <2>1. \A u \in active : u \in Tasks /\ u # t
    BY <1>0, <1>3 DEF QueueTypeOK
  <2>2. t \in active' => new = "running"
    BY <1>3
  <2> QED BY <1>0, <1>3, <1>5, <2>1, <2>2 DEF StatusFollowsQueue
<1>10. \A u \in InLine' : status'[u] = "queued"
  <2>1. \A u \in InLine : u \in Tasks /\ u # t
    BY <1>3 DEF InLine
  <2>2. t \in InLine' => new = "queued"
    BY <1>3
  <2> QED BY <1>0, <1>3, <1>5, <2>1, <2>2 DEF StatusFollowsQueue
<1>11. ASSUME NEW u \in BatchTasks
       PROVE  BatchOK(u)'
  <2>1. BatchOK(u)
    BY BatchesAre DEF ExecutorInv
  <2>2. CASE u # t
    BY <1>1, <1>5, <2>1, <2>2, BatchStays, ExecutorAssumption
  <2>3. CASE u = t
    <3>1. status[t] = "none"
      BY <1>0, <1>3 DEF StatusFollowsQueue
    <3>2. cursor[t] = 0 /\ (\A i \in Slots : items[t][i] = "pending")
      BY <2>1, <2>3, <3>1 DEF BatchOK
    <3> QED BY <1>1, <1>4, <1>5, <2>3, <3>2 DEF BatchOK, Slots
  <2> QED BY <2>2, <2>3
<1>12. items' \in [Tasks -> [Slots -> ItemStatuses]] /\ cancelFlags' \subseteq Tasks
  BY <1>0, <1>1 DEF ExecutorTypeOK
<1>13. \A u \in Tasks : status'[u] # status[u] =>
           /\ status'[u] # "none" /\ connOf'[u] # NoConn
           /\ status[u] \in {"queued", "running"} \/ connOf[u] = NoConn
  BY <1>3, <1>4, <1>5, <1>8
<1>14. \A u \in Tasks : connOf'[u] = NoConn => connOf[u] = NoConn
  BY <1>3, <1>8
<1>15. UNCHANGED <<cursor, firing, history, installs, events, failures, serverVars>>
  BY <1>1
<1> QED
  BY <1>1, <1>2, <1>5, <1>7, <1>9, <1>10, <1>11, <1>12, <1>13, <1>14, <1>15, StatusMoves

LEMMA CancelWaitingKeeps ==
    ASSUME ExecutorInv, NEW t \in Tasks, CancelWaiting(t)
    PROVE  ExecutorInv'
<1>0. QueueInv /\ ExecutorTypeOK /\ StatusFollowsQueue /\ QueueTypeOK
  BY DEF ExecutorInv, QueueInv
<1>1. /\ status[t] = "queued"
      /\ CancelQueued(t, connOf[t])
      /\ status' = [status EXCEPT ![t] = "cancelled"]
      /\ jobs' = Append(jobs, Persist(t))
      /\ UNCHANGED <<items, cursor, cancelFlags, firing, history, installs, events, failures,
                     serverVars>>
  BY DEF CancelWaiting
<1>c. connOf[t] \in Conns
  BY <1>0, <1>1 DEF QueueTypeOK, StatusFollowsQueue
<1>2. /\ QueueInv'
      /\ connOf' = connOf /\ active' = active
      /\ t \in InLine /\ InLine' \subseteq InLine \ {t}
  BY <1>0, <1>1, <1>c, CancelQueuedKeepsInv, CancelLeaves
<1>3. status' \in [Tasks -> Statuses] /\ status'[t] = "cancelled"
      /\ \A u \in Tasks : u # t => status'[u] = status[u]
  BY <1>0, <1>1 DEF ExecutorTypeOK, Statuses, Terminal
<1>4. <<Persist(t)>> \in Seq(Jobs') /\ jobs' = jobs \o <<Persist(t)>>
  <2>1. Persist(t) \in Jobs'
    BY <1>3 DEF Jobs
  <2>2. jobs \in Seq(Jobs)
    BY <1>0 DEF ExecutorTypeOK
  <2> HIDE DEF Jobs, Persist
  <2>3. Append(jobs, Persist(t)) = jobs \o <<Persist(t)>>
    BY <2>2
  <2> QED BY <1>1, <2>1, <2>3
<1>5. \A u \in active' : status'[u] = "running"
  <2>1. \A u \in active : u \in Tasks /\ u # t
    BY <1>0, <1>1 DEF QueueTypeOK, StatusFollowsQueue
  <2> QED BY <1>0, <1>2, <1>3, <2>1 DEF StatusFollowsQueue
<1>6. \A u \in InLine' : status'[u] = "queued"
  BY <1>0, <1>2, <1>3 DEF StatusFollowsQueue, InLine
<1>7. ASSUME NEW u \in BatchTasks
      PROVE  BatchOK(u)'
  <2>1. BatchOK(u)
    BY BatchesAre DEF ExecutorInv
  <2>2. CASE u # t
    BY <1>1, <1>3, <2>1, <2>2, BatchStays, ExecutorAssumption
  <2>3. CASE u = t
    <3>1. cursor[t] = 0 /\ (\A i \in Slots : items[t][i] = "pending") /\ Slots # {}
      BY <1>1, <2>1, <2>3, ExecutorAssumption DEF BatchOK, Slots
    <3>2. {items[t][i] : i \in Slots} = {"pending"}
      BY <3>1
    <3> QED BY <1>1, <1>3, <2>3, <3>1, <3>2 DEF BatchOK, Slots
  <2> QED BY <2>2, <2>3
<1>8. items' \in [Tasks -> [Slots -> ItemStatuses]] /\ cancelFlags' \subseteq Tasks
  BY <1>0, <1>1 DEF ExecutorTypeOK
<1>9. \A u \in Tasks : status'[u] # status[u] =>
          /\ status'[u] # "none" /\ connOf'[u] # NoConn
          /\ status[u] \in {"queued", "running"} \/ connOf[u] = NoConn
  BY <1>1, <1>2, <1>3, <1>c, NoConnAssumption
<1>10. UNCHANGED <<cursor, firing, history, installs, events, failures, serverVars>>
  BY <1>1
<1> QED
  BY <1>2, <1>3, <1>4, <1>5, <1>6, <1>7, <1>8, <1>9, <1>10, StatusMoves

\* A run is over with a status that suits its items.
LEMMA ConcludeKeeps ==
    ASSUME ExecutorInv, NEW t \in Tasks, NEW final \in Terminal, Conclude(t, final),
           items' \in [Tasks -> [Slots -> ItemStatuses]],
           cancelFlags' \subseteq Tasks, cancelFlags \ {t} \subseteq cancelFlags',
           \A u \in Tasks : u # t => items'[u] = items[u],
           t \in BatchTasks => BatchOK(t)'
    PROVE  ExecutorInv'
<1>0. QueueInv /\ ExecutorTypeOK /\ StatusFollowsQueue /\ QueueTypeOK
  BY DEF ExecutorInv, QueueInv
<1> DEFINE more == <<Persist(t)>> \o SetToSeq({Persist(u) : u \in Started})
<1>1. /\ RunSettles(t)
      /\ status' = [u \in Tasks |-> IF u = t THEN final
                                    ELSE IF u \in Started THEN "running" ELSE status[u]]
      /\ jobs' = (jobs \o <<Persist(t)>>) \o SetToSeq({Persist(u) : u \in Started})
      /\ UNCHANGED <<cursor, firing, history, installs, events, failures, serverVars>>
  BY DEF Conclude
<1>2. /\ connOf' = connOf
      /\ t \in active /\ t \notin active'
      /\ active \ {t} \subseteq active'
      /\ InLine' \subseteq InLine
      /\ Started \subseteq InLine /\ Started \cap InLine' = {}
      /\ \E u : Started \subseteq {u}
  BY <1>0, <1>1, SettlesStarts
<1>3. QueueInv'
  BY <1>0, <1>1, RunSettlesKeepsInv
<1>4. /\ t \notin InLine /\ t \notin Started /\ Started \subseteq Tasks
      /\ connOf[t] # NoConn /\ \A u \in Started : connOf[u] # NoConn
  BY <1>0, <1>2, EntriesWait DEF InLine
<1>5. status'[t] = final /\ (\A u \in Started : status'[u] = "running")
  BY <1>1, <1>4
<1>6. \A u \in Tasks : u # t /\ u \notin Started => status'[u] = status[u]
  BY <1>1
<1>7. status' \in [Tasks -> Statuses]
  BY <1>0, <1>1 DEF ExecutorTypeOK, Statuses
<1>8. more \in Seq(Jobs') /\ jobs' = jobs \o more
  <2> DEFINE S == {Persist(u) : u \in Started}
  <2>1. S \subseteq Jobs' /\ Persist(t) \in Jobs'
    BY <1>4, <1>5 DEF Jobs, Terminal
  <2>2. IsFiniteSet(S)
    <3>1. PICK u : Started \subseteq {u}
      BY <1>2
    <3>2. S \subseteq {Persist(u)}
      BY <3>1
    <3> QED BY <3>2, FS_Singleton, FS_Subset
  <2> HIDE DEF S, Jobs, Persist
  <2>3. SetToSeq(S) \in Seq(S)
    BY <2>2, SetToSeqIsSeq
  <2>4. SetToSeq(S) \in Seq(Jobs')
    <3> DEFINE q == SetToSeq(S)
    <3>1. q \in Seq(S)
      BY <2>3
    <3> HIDE DEF q
    <3>2. /\ Len(q) \in Nat /\ q = [i \in 1..Len(q) |-> q[i]]
          /\ \A i \in 1..Len(q) : q[i] \in Jobs'
      BY <2>1, <3>1
    <3>3. q \in Seq(Jobs')
      BY <3>2, IsASeq
    <3> QED BY <3>3 DEF q
  <2>5. <<Persist(t)>> \in Seq(Jobs')
    BY <2>1
  <2>6. more \in Seq(Jobs')
    BY <2>4, <2>5, ConcatProperties DEF S
  <2>7. jobs \in Seq(Jobs')
    <3>1. jobs \in Seq(Jobs)
      BY <1>0 DEF ExecutorTypeOK
    <3>2. \A u \in Tasks : status[u] # "none" => status'[u] # "none"
      BY <1>5, <1>6 DEF Terminal
    <3> QED BY <2>6, <3>1, <3>2, JobsGrow
  <2>8. jobs' = jobs \o (<<Persist(t)>> \o SetToSeq(S))
    <3>1. jobs' = (jobs \o <<Persist(t)>>) \o SetToSeq(S)
      BY <1>1 DEF S
    <3> QED BY <2>4, <2>5, <2>7, <3>1, ConcatAssociative
  <2> QED BY <2>6, <2>8 DEF S
<1> HIDE DEF more
<1>9. \A u \in active' : status'[u] = "running"
  <2>1. \A u \in active' : u \in Tasks /\ u # t /\ (u \in active \/ u \in Started)
    BY <1>2, <1>3 DEF Started, QueueInv, QueueTypeOK
  <2> QED BY <1>0, <1>5, <1>6, <2>1 DEF StatusFollowsQueue
<1>10. \A u \in InLine' : status'[u] = "queued"
  <2>1. \A u \in InLine' : u \in Tasks /\ u # t /\ u \in InLine /\ u \notin Started
    BY <1>2, <1>4 DEF InLine
  <2> QED BY <1>0, <1>6, <2>1 DEF StatusFollowsQueue
<1>11. ASSUME NEW u \in BatchTasks
       PROVE  BatchOK(u)'
  <2>0. BatchOK(u) /\ u \in Tasks
    BY BatchesAre, ExecutorAssumption DEF ExecutorInv
  <2>1. CASE u = t
    BY <2>1
  <2>2. CASE u # t /\ u \notin Started
    BY <1>1, <1>6, <2>0, <2>2, BatchStays
  <2>3. CASE u \in Started
    <3>1. status[u] = "queued" /\ u # t
      BY <1>0, <1>2, <1>4, <2>3 DEF StatusFollowsQueue
    <3>2. cursor[u] = 0 /\ (\A i \in Slots : items[u][i] = "pending")
      BY <2>0, <3>1 DEF BatchOK
    <3>3. items'[u] = items[u] /\ cursor'[u] = cursor[u] /\ status'[u] = "running"
      BY <1>1, <1>5, <2>0, <2>3, <3>1
    <3> QED BY <3>2, <3>3 DEF BatchOK, Slots
  <2> QED BY <2>1, <2>2, <2>3
<1>12. \A u \in Tasks : status'[u] # status[u] =>
           /\ status'[u] # "none" /\ connOf'[u] # NoConn
           /\ status[u] \in {"queued", "running"} \/ connOf[u] = NoConn
  <2> TAKE u \in Tasks
  <2>1. CASE u = t
    BY <1>0, <1>2, <1>4, <1>5, <2>1 DEF StatusFollowsQueue, Terminal
  <2>2. CASE u \in Started
    BY <1>0, <1>2, <1>4, <1>5, <2>2 DEF StatusFollowsQueue
  <2> QED BY <1>6, <2>1, <2>2
<1>13. UNCHANGED <<cursor, firing, history, installs, events, failures, serverVars>>
  BY <1>1
<1> QED
  BY <1>2, <1>3, <1>7, <1>8, <1>9, <1>10, <1>11, <1>12, <1>13, StatusMoves

LEMMA BatchEndsKeeps ==
    ASSUME ExecutorInv, NEW t \in Tasks, BatchEnds(t)
    PROVE  ExecutorInv'
<1> DEFINE final == BatchStatus(t)
<1>0. ExecutorTypeOK /\ StatusFollowsQueue
  BY DEF ExecutorInv
<1>1. /\ t \in BatchTasks /\ cursor[t] > NItems /\ Conclude(t, final)
      /\ cancelFlags' = cancelFlags \ {t} /\ items' = items /\ cursor' = cursor
  BY DEF BatchEnds, Conclude
<1>2. /\ final \in Terminal
      /\ t \in cancelFlags => final = "cancelled"
      /\ final = "failed" => \E i \in Slots : items[t][i] = "failed"
      /\ final = "succeeded" => \A i \in Slots : items[t][i] # "failed"
  BY DEF BatchStatus, Terminal
<1>3. t \in active /\ status[t] = "running" /\ BatchOK(t)
  BY <1>0, <1>1, BatchesAre DEF ExecutorInv, StatusFollowsQueue, Conclude, RunSettles
<1>4. cursor[t] > NItems /\ cursor[t] # 0 /\ Slots # {}
      /\ \A i \in Slots : i < cursor[t]
  <2>1. cursor[t] \in 0..(NItems + 1) /\ NItems \in Nat \ {0}
    BY <1>0, ExecutorAssumption DEF ExecutorTypeOK
  <2>2. 1 \in Slots
    BY <2>1 DEF Slots
  <2>3. cursor[t] = NItems + 1
    BY <1>1, <2>1
  <2>4. \A i \in Slots : i < NItems + 1
    BY <2>1 DEF Slots
  <2>5. NItems + 1 > NItems /\ NItems + 1 # 0
    BY <2>1
  <2> QED BY <2>2, <2>3, <2>4, <2>5
<1>5. \A i \in Slots : /\ items[t][i] \in {"succeeded", "failed", "skipped"}
                       /\ items[t][i] = "skipped" => t \in cancelFlags
  BY <1>3, <1>4 DEF BatchOK
<1>6. status'[t] = final
  BY <1>1 DEF Conclude
<1> HIDE DEF final
<1>7. BatchOK(t)'
  <2>1. final = "succeeded" => \A i \in Slots : items[t][i] = "succeeded"
    BY <1>2, <1>5
  <2>2. final = "succeeded" => {items'[t][i] : i \in Slots} = {"succeeded"}
    BY <1>1, <1>4, <2>1
  <2>3. final = "failed" => \A i \in Slots : items[t][i] \in {"succeeded", "failed"}
    BY <1>2, <1>5
  <2>4. final = "failed" => /\ "failed" \in {items'[t][i] : i \in Slots}
                            /\ {items'[t][i] : i \in Slots} \subseteq {"succeeded", "failed"}
    BY <1>1, <1>2, <2>3
  <2>5. {items'[t][i] : i \in Slots} \cap {"pending", "running"} = {}
    BY <1>1, <1>5
  <2>6. /\ final \notin {"none", "queued", "running"} /\ cursor'[t] > NItems /\ cursor'[t] # 0
        /\ \A i \in Slots : items'[t][i] \in {"succeeded", "failed", "skipped"}
    BY <1>1, <1>2, <1>4, <1>5 DEF Terminal
  <2> QED BY <1>6, <2>2, <2>4, <2>5, <2>6 DEF BatchOK
<1>8. /\ items' \in [Tasks -> [Slots -> ItemStatuses]]
      /\ cancelFlags' \subseteq Tasks /\ cancelFlags \ {t} \subseteq cancelFlags'
      /\ \A u \in Tasks : u # t => items'[u] = items[u]
  BY <1>0, <1>1 DEF ExecutorTypeOK
<1> QED BY <1>1, <1>2, <1>7, <1>8, ConcludeKeeps

LEMMA PlaybookEndsKeeps ==
    ASSUME ExecutorInv, NEW t \in Tasks, NEW outcome \in {"succeeded", "failed"},
           PlaybookEnds(t, outcome)
    PROVE  ExecutorInv'
<1>0. ExecutorTypeOK
  BY DEF ExecutorInv
<1>1. /\ t \notin BatchTasks /\ Conclude(t, outcome)
      /\ items' = [items EXCEPT ![t][1] = outcome] /\ cancelFlags' = cancelFlags
  BY DEF PlaybookEnds
<1>2. items' \in [Tasks -> [Slots -> ItemStatuses]]
  <2>1. items' = [items EXCEPT ![t] = [items[t] EXCEPT ![1] = outcome]]
    BY <1>1
  <2>2. [items[t] EXCEPT ![1] = outcome] \in [Slots -> ItemStatuses]
    BY <1>0 DEF ExecutorTypeOK, ItemStatuses
  <2> QED BY <1>0, <2>1, <2>2 DEF ExecutorTypeOK
<1>3. /\ cancelFlags' \subseteq Tasks /\ cancelFlags \ {t} \subseteq cancelFlags'
      /\ \A u \in Tasks : u # t => items'[u] = items[u]
      /\ outcome \in Terminal
  BY <1>0, <1>1 DEF ExecutorTypeOK, Terminal
<1> QED BY <1>1, <1>2, <1>3, ConcludeKeeps

-----------------------------------------------------------------------------
(* The history and the life of the server.                                 *)

\* A step of the database keeps the invariant if the history it leaves is right.
LEMMA DatabaseKeeps ==
    ASSUME ExecutorInv, UNCHANGED <<queueVars, taskVars, crashes>>,
           server' \in {"down", "listening", "healing", "healed"},
           jobs' \in Seq(Jobs),
           failures' \in Nat,
           firing' \in [Tasks -> Nat], events' \in [Tasks -> Nat],
           history' \in [Tasks -> Statuses], installs' \in [Tasks -> Nat],
           \A t \in Tasks : connOf[t] = NoConn => history'[t] = "none",
           NoStrandedHistory', RecordedSuccessIsReal'
    PROVE  ExecutorInv'
<1>1. QueueInv' /\ InLine' = InLine /\ active' = active /\ connOf' = connOf
  BY QueueStays DEF ExecutorInv
<1>2. Jobs' = Jobs
  BY DEF Jobs, taskVars
<1>3. ExecutorTypeOK'
  BY <1>2 DEF ExecutorInv, ExecutorTypeOK, taskVars
<1>4. StatusFollowsQueue'
  BY <1>1 DEF ExecutorInv, StatusFollowsQueue, taskVars
<1>5. ItemsFollowCursor' /\ OutcomeMatchesItems'
  <2>1. /\ status' = status /\ items' = items /\ cursor' = cursor
        /\ cancelFlags' = cancelFlags
    BY DEF taskVars
  <2>2. \A t \in BatchTasks : BatchOK(t)
    BY BatchesAre DEF ExecutorInv
  <2>3. \A t \in BatchTasks : BatchOK(t)'
    BY <2>1, <2>2, BatchStays
  <2> QED BY <2>3, NextBatchesAre
<1> QED BY <1>1, <1>3, <1>4, <1>5 DEF ExecutorInv

LEMMA HeadOfJobs ==
    ASSUME jobs \in Seq(Jobs), jobs # <<>>
    PROVE  /\ Tail(jobs) \in Seq(Jobs)
           /\ Head(jobs) \in Jobs
           /\ Head(jobs).op = "persist" =>
                 \E t \in Tasks : status[t] # "none" /\ Head(jobs).task = t
<1>1. Tail(jobs) \in Seq(Jobs) /\ Head(jobs) \in Jobs
  <2> HIDE DEF Jobs
  <2> QED OBVIOUS
<1>2. Head(jobs) = Heal => Head(jobs).op # "persist"
  BY DEF Heal
<1>3. ASSUME NEW t \in Tasks, Head(jobs) = Persist(t)
      PROVE  Head(jobs).task = t
  BY <1>3 DEF Persist
<1> QED BY <1>1, <1>2, <1>3 DEF Jobs

LEMMA SucceededIsNat == \A t \in Tasks : Cardinality(SucceededItems(t)) \in Nat
<1> TAKE t \in Tasks
<1>1. IsFiniteSet(Slots)
  BY ExecutorAssumption, FS_Interval DEF Slots
<1>2. SucceededItems(t) \subseteq Slots
  BY DEF SucceededItems
<1> QED BY <1>1, <1>2, FS_Subset, FS_CardinalityType

LEMMA HistoryWriteKeeps == ASSUME ExecutorInv, HistoryWrite PROVE ExecutorInv'
<1>0. ExecutorTypeOK /\ StatusFollowsQueue
  BY DEF ExecutorInv
<1>1. PICK t \in Tasks : status[t] # "none" /\ Head(jobs).task = t
  BY <1>0, HeadOfJobs DEF HistoryWrite, ExecutorTypeOK
<1> DEFINE counts == t \in CountedTasks /\ status[t] = "succeeded"
           gain == IF counts THEN Cardinality(SucceededItems(t)) ELSE 0
<1>2. /\ history' = [history EXCEPT ![t] = status[t]]
      /\ installs' = [installs EXCEPT ![t] = installs[t] + gain]
      /\ firing' = [firing EXCEPT ![t] = firing[t] + 1]
      /\ jobs # <<>> /\ jobs' = Tail(jobs)
      /\ UNCHANGED <<queueVars, taskVars, events, failures, serverVars>>
  BY <1>1 DEF HistoryWrite
<1>3. gain \in Nat /\ (gain > 0 => t \in CountedTasks /\ status[t] = "succeeded")
  BY SucceededIsNat
<1> HIDE DEF gain, counts
<1>4. installs' \in [Tasks -> Nat] /\ firing' \in [Tasks -> Nat]
      /\ history' \in [Tasks -> Statuses] /\ jobs' \in Seq(Jobs)
  BY <1>0, <1>2, <1>3, HeadOfJobs DEF ExecutorTypeOK
<1>5. connOf[t] # NoConn
  BY <1>0, <1>1 DEF StatusFollowsQueue
<1>6. /\ history'[t] = status[t] /\ installs'[t] = installs[t] + gain
      /\ \A u \in Tasks : u # t => history'[u] = history[u] /\ installs'[u] = installs[u]
  BY <1>0, <1>2 DEF ExecutorTypeOK
<1>7. NoStrandedHistory'
  BY <1>1, <1>2, <1>6 DEF ExecutorInv, NoStrandedHistory, taskVars, serverVars
<1>8. RecordedSuccessIsReal'
  <2>1. ASSUME NEW u \in Tasks
        PROVE  /\ history'[u] = "succeeded" => status[u] \in {"succeeded", "none"}
               /\ installs'[u] > 0 => u \in CountedTasks /\ history'[u] = "succeeded"
    <3>1. CASE u # t
      BY <1>6, <3>1 DEF ExecutorInv, RecordedSuccessIsReal
    <3>2. CASE u = t
      <4>1. installs'[t] > 0 => installs[t] > 0 \/ gain > 0
        BY <1>0, <1>3, <1>6 DEF ExecutorTypeOK
      <4>2. installs[t] > 0 => t \in CountedTasks /\ status[t] = "succeeded"
        BY <1>1 DEF ExecutorInv, RecordedSuccessIsReal
      <4> QED BY <1>3, <1>6, <3>2, <4>1, <4>2
    <3> QED BY <3>1, <3>2
  <2> QED BY <1>2, <2>1 DEF RecordedSuccessIsReal, taskVars
<1>9. \A u \in Tasks : connOf[u] = NoConn => history'[u] = "none"
  BY <1>0, <1>5, <1>6 DEF StatusFollowsQueue
<1>10. /\ UNCHANGED <<queueVars, taskVars, crashes>>
       /\ server' \in {"down", "listening", "healing", "healed"}
       /\ failures' \in Nat /\ events' \in [Tasks -> Nat]
  BY <1>0, <1>2 DEF ExecutorTypeOK, serverVars
<1> QED BY <1>4, <1>7, <1>8, <1>9, <1>10, DatabaseKeeps

LEMMA HealWriteKeeps == ASSUME ExecutorInv, HealWrite PROVE ExecutorInv'
<1>0. ExecutorTypeOK /\ StatusFollowsQueue
  BY DEF ExecutorInv
<1>1. /\ history' = [t \in Tasks |->
             IF history[t] \in {"queued", "running"} THEN "failed" ELSE history[t]]
      /\ server' = "healed"
      /\ jobs # <<>> /\ jobs' = Tail(jobs)
      /\ UNCHANGED <<queueVars, taskVars, firing, installs, events, failures, crashes>>
  BY DEF HealWrite
<1>2. jobs' \in Seq(Jobs) /\ history' \in [Tasks -> Statuses]
  BY <1>0, <1>1, HeadOfJobs DEF ExecutorTypeOK, Statuses, Terminal
<1>3. NoStrandedHistory'
  BY <1>1 DEF NoStrandedHistory
<1>4. RecordedSuccessIsReal'
  BY <1>1 DEF ExecutorInv, RecordedSuccessIsReal, taskVars
<1>5. \A u \in Tasks : connOf[u] = NoConn => history'[u] = "none"
  BY <1>0, <1>1 DEF StatusFollowsQueue
<1>6. /\ UNCHANGED <<queueVars, taskVars, crashes>>
      /\ server' \in {"down", "listening", "healing", "healed"}
      /\ failures' \in Nat /\ events' \in [Tasks -> Nat] /\ firing' \in [Tasks -> Nat]
      /\ installs' \in [Tasks -> Nat]
  BY <1>0, <1>1 DEF ExecutorTypeOK
<1> QED BY <1>2, <1>3, <1>4, <1>5, <1>6, DatabaseKeeps

LEMMA UpdateFailsKeeps == ASSUME ExecutorInv, UpdateFails PROVE ExecutorInv'
<1>0. ExecutorTypeOK /\ StatusFollowsQueue
  BY DEF ExecutorInv
<1>1. /\ jobs # <<>> /\ jobs' = Tail(jobs) /\ failures' = failures + 1
      /\ UNCHANGED <<queueVars, taskVars, history, installs, events, crashes>>
  BY DEF UpdateFails
<1>2. jobs' \in Seq(Jobs) /\ failures' \in Nat /\ failures' # 0
  BY <1>0, <1>1, HeadOfJobs DEF ExecutorTypeOK
<1>3. firing' \in [Tasks -> Nat] /\ server' \in {"down", "listening", "healing", "healed"}
  <2>1. CASE Head(jobs).op = "persist"
    <3>1. PICK t \in Tasks : Head(jobs).task = t
      BY <1>0, <1>1, <2>1, HeadOfJobs DEF ExecutorTypeOK
    <3>2. firing' = [firing EXCEPT ![t] = firing[t] + 1] /\ server' = server
      BY <2>1, <3>1 DEF UpdateFails
    <3> QED BY <1>0, <3>2 DEF ExecutorTypeOK
  <2>2. CASE ~(Head(jobs).op = "persist")
    BY <1>0, <2>2 DEF UpdateFails, ExecutorTypeOK
  <2> QED BY <2>1, <2>2
<1>4. NoStrandedHistory'
  BY <1>2 DEF NoStrandedHistory
<1>5. RecordedSuccessIsReal'
  BY <1>1 DEF ExecutorInv, RecordedSuccessIsReal, taskVars
<1>6. \A u \in Tasks : connOf[u] = NoConn => history'[u] = "none"
  BY <1>0, <1>1 DEF StatusFollowsQueue
<1>7. /\ UNCHANGED <<queueVars, taskVars, crashes>> /\ events' \in [Tasks -> Nat]
      /\ installs' \in [Tasks -> Nat] /\ history' \in [Tasks -> Statuses]
  BY <1>0, <1>1 DEF ExecutorTypeOK
<1> QED BY <1>2, <1>3, <1>4, <1>5, <1>6, <1>7, DatabaseKeeps

LEMMA FireWebhookKeeps ==
    ASSUME ExecutorInv, NEW t \in Tasks, FireWebhook(t)
    PROVE  ExecutorInv'
<1>0. ExecutorTypeOK /\ StatusFollowsQueue
  BY DEF ExecutorInv
<1>1. /\ firing[t] > 0 /\ firing' = [firing EXCEPT ![t] = firing[t] - 1]
      /\ events' = [events EXCEPT ![t] =
             events[t] + (IF status[t] \in {"succeeded", "failed"} THEN 1 ELSE 0)]
      /\ UNCHANGED <<queueVars, taskVars, jobs, history, installs, failures, serverVars>>
  BY DEF FireWebhook
<1>2. firing' \in [Tasks -> Nat] /\ events' \in [Tasks -> Nat]
  <2>1. firing[t] \in Nat /\ firing[t] - 1 \in Nat
    BY <1>0, <1>1 DEF ExecutorTypeOK
  <2> QED BY <1>0, <1>1, <2>1 DEF ExecutorTypeOK
<1>3. NoStrandedHistory' /\ RecordedSuccessIsReal'
  BY <1>1 DEF ExecutorInv, NoStrandedHistory, RecordedSuccessIsReal, taskVars, serverVars
<1>4. /\ UNCHANGED <<queueVars, taskVars, crashes>> /\ jobs' \in Seq(Jobs)
      /\ server' \in {"down", "listening", "healing", "healed"} /\ failures' \in Nat
      /\ installs' \in [Tasks -> Nat] /\ history' \in [Tasks -> Statuses]
      /\ \A u \in Tasks : connOf[u] = NoConn => history'[u] = "none"
  BY <1>0, <1>1 DEF ExecutorTypeOK, StatusFollowsQueue, serverVars
<1> QED BY <1>2, <1>3, <1>4, DatabaseKeeps

LEMMA BootKeeps == ASSUME ExecutorInv, Boot \/ AskHeal PROVE ExecutorInv'
<1>0. ExecutorTypeOK /\ StatusFollowsQueue
  BY DEF ExecutorInv
<1>1. /\ server' \in {"listening", "healing"}
      /\ UNCHANGED <<queueVars, taskVars, firing, history, installs, events, failures, crashes>>
  BY DEF Boot, AskHeal, dbVars
<1>2. jobs' \in Seq(Jobs)
  <2>1. Heal \in Jobs /\ jobs \in Seq(Jobs)
    BY <1>0 DEF Jobs, ExecutorTypeOK
  <2>2. jobs' \in {jobs, Append(jobs, Heal)}
    BY DEF Boot, AskHeal, dbVars
  <2> HIDE DEF Jobs
  <2> QED BY <2>1, <2>2
<1>3. NoStrandedHistory' /\ RecordedSuccessIsReal'
  BY <1>1 DEF ExecutorInv, NoStrandedHistory, RecordedSuccessIsReal, taskVars
<1>4. /\ firing' \in [Tasks -> Nat] /\ events' \in [Tasks -> Nat] /\ failures' \in Nat
      /\ installs' \in [Tasks -> Nat] /\ history' \in [Tasks -> Statuses]
      /\ \A u \in Tasks : connOf[u] = NoConn => history'[u] = "none"
  BY <1>0, <1>1 DEF ExecutorTypeOK, StatusFollowsQueue
<1> QED BY <1>1, <1>2, <1>3, <1>4, DatabaseKeeps

\* A crash leaves empty lists and forgets the tasks; the history stays.
LEMMA CrashKeeps == ASSUME ExecutorInv, Crash PROVE ExecutorInv'
<1>0. ExecutorTypeOK /\ StatusFollowsQueue /\ QueueTypeOK
  BY DEF ExecutorInv, QueueInv
<1>1. /\ server' = "down" /\ crashes' = crashes + 1
      /\ queues' = [c \in Conns |-> <<>>] /\ draining' = [c \in Conns |-> FALSE]
      /\ active' = {} /\ cancelledQueued' = {}
      /\ status' = NoStatus /\ items' = NoItems /\ cursor' = Zero /\ cancelFlags' = {}
      /\ jobs' = <<>> /\ firing' = Zero
      /\ UNCHANGED <<connOf, history, installs, events, failures>>
  BY DEF Crash
<1>2. QueueTypeOK'
  BY <1>0, <1>1 DEF QueueTypeOK
<1>3. \A c \in Conns : queues'[c] = <<>> /\ Len(queues'[c]) = 0 /\ ~draining'[c]
  BY <1>1
<1>4. QueueInv'
  BY <1>1, <1>2, <1>3
     DEF QueueInv, MutualExclusion, NothingWaitsForNobody, EntriesAreOwned,
         ActiveWasNotCancelled, CancelledWasEnqueued
<1>5. \A t \in Tasks : /\ status'[t] = "none" /\ cursor'[t] = 0
                       /\ \A i \in Slots : items'[t][i] = "pending"
  BY <1>1 DEF NoStatus, NoItems, Zero
<1>6. ExecutorTypeOK'
  <2>1. jobs' \in Seq(Jobs')
    BY <1>1
  <2>2. items' \in [Tasks -> [Slots -> ItemStatuses]]
    BY <1>1 DEF NoItems, ItemStatuses
  <2>3. cursor' \in [Tasks -> 0..(NItems + 1)]
    BY <1>1, ExecutorAssumption DEF Zero
  <2> QED BY <1>0, <1>1, <2>1, <2>2, <2>3 DEF ExecutorTypeOK, NoStatus, Zero, Statuses
<1>7. StatusFollowsQueue'
  <2>1. InLine' = {}
    BY <1>3 DEF InLine, Waiting
  <2> QED BY <1>0, <1>1, <1>5, <2>1 DEF StatusFollowsQueue
<1>8. ItemsFollowCursor' /\ OutcomeMatchesItems'
  BY <1>5, ExecutorAssumption DEF ItemsFollowCursor, OutcomeMatchesItems, Slots
<1>9. NoStrandedHistory' /\ RecordedSuccessIsReal'
  BY <1>1, <1>5 DEF ExecutorInv, NoStrandedHistory, RecordedSuccessIsReal
<1> QED BY <1>4, <1>6, <1>7, <1>8, <1>9 DEF ExecutorInv

-----------------------------------------------------------------------------
LEMMA ExecutorStep == ExecutorInv /\ [Next]_vars => ExecutorInv'
<1> SUFFICES ASSUME ExecutorInv, [Next]_vars PROVE ExecutorInv'
  OBVIOUS
<1>1. CASE UNCHANGED vars
  <2>1. UNCHANGED <<queueVars, taskVars, dbVars, serverVars>>
    BY <1>1 DEF vars
  <2>2. NoStrandedHistory' /\ RecordedSuccessIsReal'
    BY <2>1 DEF ExecutorInv, NoStrandedHistory, RecordedSuccessIsReal, taskVars, dbVars,
                serverVars
  <2> QED BY <2>1, <2>2, DatabaseKeeps
         DEF ExecutorInv, ExecutorTypeOK, StatusFollowsQueue, dbVars, serverVars
<1>2. CASE Boot \/ AskHeal \/ Crash
  BY <1>2, BootKeeps, CrashKeeps
<1>3. CASE DatabaseStep
  BY <1>3, HistoryWriteKeeps, HealWriteKeeps, UpdateFailsKeeps DEF DatabaseStep
<1>4. ASSUME NEW t \in Tasks, NEW c \in Conns, Submit(t, c) PROVE ExecutorInv'
  BY <1>4, SubmitKeeps
<1>5. ASSUME NEW t \in Tasks, RunStep(t) PROVE ExecutorInv'
  BY <1>5, ConnectSucceedsKeeps, ConnectFailsKeeps, BatchEndsKeeps, ItemEndsKeeps,
     PlaybookEndsKeeps DEF RunStep
<1>6. ASSUME NEW t \in Tasks, CancelWaiting(t) \/ RaiseFlag(t) \/ FireWebhook(t)
      PROVE  ExecutorInv'
  BY <1>6, CancelWaitingKeeps, RaiseFlagKeeps, FireWebhookKeeps
<1> QED BY <1>1, <1>2, <1>3, <1>4, <1>5, <1>6 DEF Next

\* The inductive invariant of the executor, and with it QueueInv of TaskQueue in the
\* presence of crashes, hold in every reachable state.
LEMMA ExecutorInvariance == Safety => []ExecutorInv
BY InitExecutorInv, ExecutorStep, PTL DEF Safety

\* executor.ts, executeBatchCatalogTask: for any number of items, the final status of
\* a batch is the truth about its items, whatever is cancelled or fails meanwhile.
THEOREM OutcomeAlwaysMatchesItems == Safety => []OutcomeMatchesItems
<1>1. ExecutorInv => OutcomeMatchesItems
  BY DEF ExecutorInv
<1> QED BY <1>1, ExecutorInvariance, PTL

\* executor.ts, healTaskStates: once a start has healed the history and no update has
\* failed, what it shows as queued or running lives in this process, over any number
\* of crashes.
THEOREM HistoryIsNeverStranded == Safety => []NoStrandedHistory
<1>1. ExecutorInv => NoStrandedHistory
  BY DEF ExecutorInv
<1> QED BY <1>1, ExecutorInvariance, PTL

\* executor.ts, persistTaskToHistory: a success in the history, or in the counters of
\* the catalog, is one that happened, although the mutator reads the task as it is
\* when its turn comes.
THEOREM RecordedSuccessIsAlwaysReal == Safety => []RecordedSuccessIsReal
<1>1. ExecutorInv => RecordedSuccessIsReal
  BY DEF ExecutorInv
<1> QED BY <1>1, ExecutorInvariance, PTL

\* task-queue.ts:5, as the executor uses it: one machine, one running task, also over
\* crashes and restarts of the server.
THEOREM ExecutorMutualExclusion == Safety => []MutualExclusion
<1>1. ExecutorInv => MutualExclusion
  BY DEF ExecutorInv, QueueInv
<1> QED BY <1>1, ExecutorInvariance, PTL
=============================================================================
