-------------------------- MODULE SequentialProofs --------------------------
(***************************************************************************)
(* Proofs about parts that run in one thread: the queues of the scheduler, *)
(* the log, the lines of a configuration file, the hashmap, the sets of    *)
(* strings and those of pointers, and the start of the program. Each part  *)
(* has its inductive invariant, a lemma for each operation that keeps it,  *)
(* and its property as a consequence.                                      *)
(***************************************************************************)
EXTENDS Queues, PropertyLine, HashSet, SyncAgent, ContainerProofs

----------------------------------------------------------------------------
(* queue.h: a walk over a list stops at its head, at each of its items in  *)
(* order, and at NULL.                                                     *)

(* The i-th stop of a walk over the items s. *)
Stop(s, i) == IF i = 0 THEN HeadLink ELSE IF i > Len(s) THEN None ELSE s[i]

QueueRecords ==
  [next : [Items \cup {HeadLink} -> Items \cup {None}],
   prev : [Items -> Items \cup {HeadLink, None}],
   last : Items \cup {HeadLink}]

(* s names items, each once, and the links of q are those of s. *)
QueueOK(q, s) ==
  /\ q \in QueueRecords
  /\ s \in Seq(Items)
  /\ \A i, j \in 1..Len(s) : s[i] = s[j] => i = j
  /\ \A i \in 0..Len(s) : /\ q.next[Stop(s, i)] = Stop(s, i + 1)
                          /\ i > 0 => q.prev[Stop(s, i)] = Stop(s, i - 1)

QueuesInv ==
  /\ order \in [tailq : Seq(Items), list : Seq(Items)]
  /\ QueueOK(tailq, order.tailq)
  /\ QueueOK(list, order.list)
  /\ tailq.last = Stop(order.tailq, Len(order.tailq))

LEMMA QueuesInvLinked == QueuesInv => QueuesLinked
<1> SUFFICES ASSUME QueuesInv
             PROVE  QueuesLinked
  OBVIOUS
<1>1. Links(tailq, order.tailq) /\ Links(list, order.list)
  BY DEF QueuesInv, QueueOK, Links, Stop
<1>2. order.tailq \in Seq(Items)
  BY DEF QueuesInv, QueueOK
<1>3. tailq.last = IF order.tailq = <<>> THEN HeadLink ELSE Last(order.tailq)
  BY <1>2 DEF QueuesInv, Stop, Last
<1>4. QED
  BY <1>1, <1>3 DEF QueuesLinked

(* The items of a sequence with x inserted at i.                           *)
LEMMA InsertAtItems ==
  ASSUME NEW s \in Seq(Items), NEW i \in 1..Len(s) + 1, NEW x \in Items
  PROVE  /\ InsertAt(s, i, x) \in Seq(Items)
         /\ Len(InsertAt(s, i, x)) = Len(s) + 1
         /\ \A k \in 1..Len(s) + 1 :
              InsertAt(s, i, x)[k] = IF k < i THEN s[k] ELSE IF k = i THEN x ELSE s[k - 1]
<1> DEFINE a == SubSeq(s, 1, i - 1)
           b == SubSeq(s, i, Len(s))
<1>1. Len(s) \in Nat /\ i \in Nat
  OBVIOUS
<1>2. a \in Seq(Items) /\ Len(a) = i - 1 /\ \A k \in 1..i - 1 : a[k] = s[k]
  <2>1. \A k \in 1..i - 1 : s[k] \in Items
    BY <1>1
  <2>2. QED
    BY <1>1, <2>1, SubSeqProperties
<1>3. b \in Seq(Items) /\ Len(b) = Len(s) - i + 1 /\ \A k \in 1..Len(s) - i + 1 : b[k] = s[i + k - 1]
  <2>1. \A k \in i..Len(s) : s[k] \in Items
    BY <1>1
  <2>2. QED
    BY <1>1, <2>1, SubSeqProperties
<1> HIDE DEF a, b
<1>4. InsertAt(s, i, x) = (a \o <<x>>) \o b
  BY DEF InsertAt, a, b
<1> DEFINE ax == a \o <<x>>
<1>5. /\ ax \in Seq(Items) /\ Len(ax) = i /\ ax[i] = x
      /\ \A k \in 1..i - 1 : ax[k] = s[k]
  BY <1>1, <1>2
<1> HIDE DEF ax
<1>6. /\ ax \o b \in Seq(Items) /\ Len(ax \o b) = Len(s) + 1
      /\ \A k \in 1..i : (ax \o b)[k] = ax[k]
      /\ \A k \in i + 1..Len(s) + 1 : (ax \o b)[k] = b[k - i]
  BY <1>1, <1>3, <1>5
<1>7. ASSUME NEW k \in 1..Len(s) + 1
      PROVE  (ax \o b)[k] = IF k < i THEN s[k] ELSE IF k = i THEN x ELSE s[k - 1]
  <2>1. CASE k <= i
    BY <1>1, <1>5, <1>6, <2>1
  <2>2. CASE k > i
    <3>1. k - i \in 1..Len(s) - i + 1 /\ i + (k - i) - 1 = k - 1
      BY <1>1, <2>2
    <3>2. b[k - i] = s[k - 1]
      BY <1>3, <3>1
    <3>3. k \in i + 1..Len(s) + 1 /\ ~(k < i) /\ k # i
      BY <1>1, <2>2
    <3>4. QED
      BY <1>6, <3>2, <3>3
  <2>3. k <= i \/ k > i
    BY <1>1
  <2>4. QED
    BY <2>1, <2>2, <2>3, Zenon
<1>8. QED
  BY <1>4, <1>6, <1>7 DEF ax

(* The items of a sequence with the one at i removed.                      *)
LEMMA RemoveAtItems ==
  ASSUME NEW s \in Seq(Items), NEW i \in 1..Len(s)
  PROVE  /\ RemoveAt(s, i) \in Seq(Items)
         /\ Len(RemoveAt(s, i)) = Len(s) - 1
         /\ \A k \in 1..Len(s) - 1 :
              RemoveAt(s, i)[k] = IF k < i THEN s[k] ELSE s[k + 1]
<1> DEFINE a == SubSeq(s, 1, i - 1)
           b == SubSeq(s, i + 1, Len(s))
<1>1. Len(s) \in Nat /\ i \in Nat
  OBVIOUS
<1>2. a \in Seq(Items) /\ Len(a) = i - 1 /\ \A k \in 1..i - 1 : a[k] = s[k]
  <2>1. \A k \in 1..i - 1 : s[k] \in Items
    BY <1>1
  <2>2. QED
    BY <1>1, <2>1, SubSeqProperties
<1>3. b \in Seq(Items) /\ Len(b) = Len(s) - i /\ \A k \in 1..Len(s) - i : b[k] = s[i + k]
  <2>1. \A k \in i + 1..Len(s) : s[k] \in Items
    BY <1>1
  <2>2. \A k \in 1..Len(s) - i : (i + 1) + k - 1 = i + k
    BY <1>1
  <2>3. QED
    BY <1>1, <2>1, <2>2, SubSeqProperties
<1> HIDE DEF a, b
<1>4. RemoveAt(s, i) = a \o b
  BY DEF RemoveAt, a, b
<1>5. /\ a \o b \in Seq(Items) /\ Len(a \o b) = Len(s) - 1
      /\ \A k \in 1..i - 1 : (a \o b)[k] = a[k]
      /\ \A k \in i..Len(s) - 1 : (a \o b)[k] = b[k - (i - 1)]
  <2>1. Len(a) + Len(b) = Len(s) - 1
    BY <1>1, <1>2, <1>3
  <2>2. \A k \in i..Len(s) - 1 : k \in 1..Len(a) + Len(b) /\ ~(k <= Len(a)) /\ k - Len(a) = k - (i - 1)
    BY <1>1, <1>2, <2>1
  <2>3. \A k \in 1..i - 1 : k \in 1..Len(a) + Len(b) /\ k <= Len(a)
    BY <1>1, <1>2, <2>1
  <2>4. QED
    BY <1>2, <1>3, <2>1, <2>2, <2>3, ConcatProperties
<1>6. ASSUME NEW k \in 1..Len(s) - 1
      PROVE  (a \o b)[k] = IF k < i THEN s[k] ELSE s[k + 1]
  <2>1. CASE k < i
    BY <1>1, <1>2, <1>5, <2>1
  <2>2. CASE k >= i
    <3>1. k - (i - 1) \in 1..Len(s) - i /\ i + (k - (i - 1)) = k + 1
      BY <1>1, <2>2
    <3>2. b[k - (i - 1)] = s[k + 1]
      BY <1>3, <3>1
    <3>3. k \in i..Len(s) - 1 /\ ~(k < i)
      BY <1>1, <2>2
    <3>4. QED
      BY <1>5, <3>2, <3>3
  <2>3. k < i \/ k >= i
    BY <1>1
  <2>4. QED
    BY <2>1, <2>2, <2>3, Zenon
<1>7. QED
  BY <1>4, <1>5, <1>6

(* The stops of a walk are links of the list, and no two are the same. *)
LEMMA Stops ==
  ASSUME NEW q, NEW s, QueueOK(q, s)
  PROVE  /\ Len(s) \in Nat
         /\ Stop(s, 0) = HeadLink
         /\ \A i \in 1..Len(s) : Stop(s, i) = s[i] /\ Stop(s, i) \in Items
         /\ Stop(s, Len(s) + 1) = None
         /\ \A i, j \in 0..Len(s) + 1 : Stop(s, i) = Stop(s, j) => i = j
<1>1. s \in Seq(Items) /\ Len(s) \in Nat
  BY DEF QueueOK
<1>2. Stop(s, 0) = HeadLink /\ Stop(s, Len(s) + 1) = None
  BY <1>1 DEF Stop
<1>3. \A i \in 1..Len(s) : Stop(s, i) = s[i] /\ Stop(s, i) \in Items
  BY <1>1 DEF Stop
<1>4. HeadLink \notin Items /\ None \notin Items /\ HeadLink # None
  BY QueuesAssumption
<1>5. \A i, j \in 1..Len(s) : s[i] = s[j] => i = j
  BY DEF QueueOK
<1>6. \A i \in 0..Len(s) + 1 : i = 0 \/ i \in 1..Len(s) \/ i = Len(s) + 1
  BY <1>1
<1>7. ASSUME NEW i \in 0..Len(s) + 1, NEW j \in 0..Len(s) + 1, Stop(s, i) = Stop(s, j)
      PROVE  i = j
  BY <1>2, <1>3, <1>4, <1>5, <1>6, <1>7
<1>8. QED
  BY <1>1, <1>2, <1>3, <1>7

(* The stops of a walk, before and after an insertion ...                  *)
LEMMA StopsOfInsert ==
  ASSUME NEW s \in Seq(Items), NEW i \in 0..Len(s), NEW x \in Items,
         NEW j \in 0..Len(s) + 2
  PROVE  Stop(InsertAt(s, i + 1, x), j)
           = IF j <= i THEN Stop(s, j) ELSE IF j = i + 1 THEN x ELSE Stop(s, j - 1)
<1> DEFINE t == InsertAt(s, i + 1, x)
<1>1. s \in Seq(Items) /\ i + 1 \in 1..Len(s) + 1 /\ Len(s) \in Nat /\ i \in Nat /\ j \in Nat
  OBVIOUS
<1>2. /\ t \in Seq(Items) /\ Len(t) = Len(s) + 1
      /\ \A k \in 1..Len(s) + 1 :
           t[k] = IF k < i + 1 THEN s[k] ELSE IF k = i + 1 THEN x ELSE s[k - 1]
  BY <1>1, InsertAtItems, ZenonT(60)
<1> HIDE DEF t
<1>3. CASE j = 0
  BY <1>1, <1>3 DEF Stop
<1>4. CASE j = Len(s) + 2
  <2>1. j > Len(t) /\ j # 0 /\ j - 1 > Len(s) /\ j - 1 # 0 /\ ~(j <= i) /\ j # i + 1
    BY <1>1, <1>2, <1>4
  <2>2. QED
    BY <2>1 DEF Stop, t
<1>5. CASE j \in 1..Len(s) + 1
  <2>1. Stop(t, j) = t[j]
    BY <1>1, <1>2, <1>5 DEF Stop
  <2>2. CASE j <= i
    <3>1. j < i + 1 /\ j \in 1..Len(s)
      BY <1>1, <1>5, <2>2
    <3>2. Stop(s, j) = s[j]
      BY <1>1, <3>1 DEF Stop
    <3>3. QED
      BY <1>2, <1>5, <2>1, <2>2, <3>1, <3>2 DEF t
  <2>3. CASE j = i + 1
    BY <1>1, <1>2, <1>5, <2>1, <2>3 DEF t
  <2>4. CASE j > i + 1
    <3>1. j - 1 \in 1..Len(s) /\ ~(j <= i) /\ j # i + 1 /\ ~(j < i + 1)
      BY <1>1, <1>5, <2>4
    <3>2. Stop(s, j - 1) = s[j - 1]
      BY <1>1, <3>1 DEF Stop
    <3>3. QED
      BY <1>2, <1>5, <2>1, <3>1, <3>2 DEF t
  <2>5. QED
    BY <1>1, <2>2, <2>3, <2>4
<1>6. QED
  BY <1>1, <1>3, <1>4, <1>5

(* ... and a removal.                                                      *)
LEMMA StopsOfRemove ==
  ASSUME NEW s \in Seq(Items), NEW i \in 1..Len(s), NEW j \in 0..Len(s)
  PROVE  Stop(RemoveAt(s, i), j) = IF j < i THEN Stop(s, j) ELSE Stop(s, j + 1)
<1> DEFINE t == RemoveAt(s, i)
<1>1. Len(s) \in Nat /\ i \in Nat /\ j \in Nat
  OBVIOUS
<1>2. /\ t \in Seq(Items) /\ Len(t) = Len(s) - 1
      /\ \A k \in 1..Len(s) - 1 : t[k] = IF k < i THEN s[k] ELSE s[k + 1]
  BY RemoveAtItems
<1> HIDE DEF t
<1>3. CASE j = 0
  BY <1>1, <1>3 DEF Stop
<1>4. CASE j = Len(s)
  <2>1. j > Len(t) /\ j # 0 /\ j + 1 > Len(s) /\ j + 1 # 0 /\ ~(j < i)
    BY <1>1, <1>2, <1>4
  <2>2. QED
    BY <2>1 DEF Stop, t
<1>5. CASE j \in 1..Len(s) - 1
  <2>1. Stop(t, j) = t[j] /\ Stop(s, j) = s[j] /\ Stop(s, j + 1) = s[j + 1]
    BY <1>1, <1>2, <1>5 DEF Stop
  <2>2. QED
    BY <1>2, <1>5, <2>1 DEF t
<1>6. QED
  BY <1>1, <1>3, <1>4, <1>5

(* What every insertion does to the links, between two stops of a walk.     *)
LEMMA Spliced ==
  ASSUME NEW q, NEW s, QueueOK(q, s), NEW r \in QueueRecords,
         NEW i \in 0..Len(s), NEW x \in Items, \A k \in 1..Len(s) : s[k] # x,
         r.next[x] = Stop(s, i + 1), r.next[Stop(s, i)] = x,
         \A y \in Items \cup {HeadLink} : y # x /\ y # Stop(s, i) => r.next[y] = q.next[y],
         r.prev[x] = Stop(s, i), i < Len(s) => r.prev[Stop(s, i + 1)] = x,
         \A y \in Items : y # x /\ y # Stop(s, i + 1) => r.prev[y] = q.prev[y]
  PROVE  QueueOK(r, InsertAt(s, i + 1, x))
<1> DEFINE t == InsertAt(s, i + 1, x)
<1>1. s \in Seq(Items) /\ Len(s) \in Nat /\ i \in Nat /\ i + 1 \in 1..Len(s) + 1
  BY DEF QueueOK
<1>2. /\ t \in Seq(Items) /\ Len(t) = Len(s) + 1
      /\ \A k \in 1..Len(s) + 1 :
           t[k] = IF k < i + 1 THEN s[k] ELSE IF k = i + 1 THEN x ELSE s[k - 1]
  BY <1>1, InsertAtItems
<1>3. \A j \in 0..Len(s) + 2 :
        Stop(t, j) = IF j <= i THEN Stop(s, j) ELSE IF j = i + 1 THEN x ELSE Stop(s, j - 1)
  BY <1>1, StopsOfInsert
<1> HIDE DEF t
<1>4. /\ Stop(s, 0) = HeadLink /\ \A k \in 1..Len(s) : Stop(s, k) = s[k] /\ Stop(s, k) \in Items
      /\ Stop(s, Len(s) + 1) = None
      /\ \A k, l \in 0..Len(s) + 1 : Stop(s, k) = Stop(s, l) => k = l
  BY Stops
<1>5. \A k \in 0..Len(s) : Stop(s, k) \in Items \cup {HeadLink} /\ Stop(s, k) # x
  BY <1>1, <1>4, QueuesAssumption
<1>6. \A k \in 0..Len(s) : /\ q.next[Stop(s, k)] = Stop(s, k + 1)
                           /\ k > 0 => q.prev[Stop(s, k)] = Stop(s, k - 1)
  BY DEF QueueOK
<1>7. ASSUME NEW j \in 0..Len(t)
      PROVE  r.next[Stop(t, j)] = Stop(t, j + 1)
  <2>0. j \in Nat /\ j \in 0..Len(s) + 1 /\ j \in 0..Len(s) + 2 /\ j + 1 \in 0..Len(s) + 2
    BY <1>1, <1>2
  <2>1. CASE j < i
    <3>1. j \in 0..Len(s) /\ j # i /\ j <= i /\ j + 1 <= i /\ i \in 0..Len(s) + 1 /\ j \in 0..Len(s) + 1
      BY <1>1, <2>0, <2>1
    <3>2. Stop(s, j) # Stop(s, i)
      BY <1>4, <3>1
    <3>3. r.next[Stop(s, j)] = Stop(s, j + 1)
      BY <1>5, <1>6, <3>1, <3>2
    <3>4. QED
      BY <1>3, <2>0, <3>1, <3>3
  <2>2. CASE j = i
    <3>1. j <= i /\ ~(j + 1 <= i) /\ j + 1 = i + 1
      BY <1>1, <2>2
    <3>2. QED
      BY <1>3, <2>0, <2>2, <3>1
  <2>3. CASE j = i + 1
    <3>1. ~(j <= i) /\ ~(j + 1 <= i) /\ j + 1 # i + 1 /\ j + 1 - 1 = i + 1
      BY <1>1, <2>3
    <3>2. QED
      BY <1>3, <2>0, <2>3, <3>1
  <2>4. CASE j > i + 1
    <3>1. /\ ~(j <= i) /\ j # i + 1 /\ ~(j + 1 <= i) /\ j + 1 # i + 1 /\ j + 1 - 1 = j
          /\ j - 1 \in 0..Len(s) /\ j - 1 # i /\ (j - 1) + 1 = j
          /\ i \in 0..Len(s) + 1 /\ j - 1 \in 0..Len(s) + 1
      BY <1>1, <2>0, <2>4
    <3>2. Stop(s, j - 1) # Stop(s, i)
      BY <1>4, <3>1
    <3>3. r.next[Stop(s, j - 1)] = Stop(s, j)
      BY <1>5, <1>6, <3>1, <3>2
    <3>4. QED
      BY <1>3, <2>0, <3>1, <3>3
  <2>5. QED
    BY <1>1, <2>0, <2>1, <2>2, <2>3, <2>4
<1>8. ASSUME NEW j \in 0..Len(t), j > 0
      PROVE  r.prev[Stop(t, j)] = Stop(t, j - 1)
  <2>0. j \in Nat /\ j \in 0..Len(s) + 1 /\ j \in 0..Len(s) + 2 /\ j - 1 \in 0..Len(s) + 2
    BY <1>1, <1>2, <1>8
  <2>1. CASE j <= i
    <3>1. j \in 1..Len(s) /\ j \in 0..Len(s) /\ j # i + 1 /\ j - 1 <= i /\ i + 1 \in 0..Len(s) + 1
            /\ j \in 0..Len(s) + 1
      BY <1>1, <1>8, <2>0, <2>1
    <3>2. Stop(s, j) # Stop(s, i + 1) /\ Stop(s, j) \in Items
      BY <1>4, <3>1
    <3>3. r.prev[Stop(s, j)] = Stop(s, j - 1)
      BY <1>5, <1>6, <1>8, <3>1, <3>2
    <3>4. QED
      BY <1>3, <2>0, <2>1, <3>1, <3>3
  <2>2. CASE j = i + 1
    <3>1. ~(j <= i) /\ j - 1 = i /\ j - 1 <= i
      BY <1>1, <2>2
    <3>2. QED
      BY <1>3, <2>0, <2>2, <3>1
  <2>3. CASE j = i + 2
    <3>1. ~(j <= i) /\ j # i + 1 /\ j - 1 = i + 1 /\ ~(j - 1 <= i) /\ i < Len(s)
      BY <1>1, <2>0, <2>3
    <3>2. QED
      BY <1>3, <2>0, <2>3, <3>1
  <2>4. CASE j > i + 2
    <3>1. /\ ~(j <= i) /\ j # i + 1 /\ ~(j - 1 <= i) /\ j - 1 # i + 1
          /\ j - 1 \in 1..Len(s) /\ j - 1 \in 0..Len(s) /\ j - 1 > 0
          /\ i + 1 \in 0..Len(s) + 1 /\ j - 1 \in 0..Len(s) + 1
      BY <1>1, <2>0, <2>4
    <3>2. Stop(s, j - 1) # Stop(s, i + 1) /\ Stop(s, j - 1) \in Items
      BY <1>4, <3>1
    <3>3. r.prev[Stop(s, j - 1)] = Stop(s, j - 1 - 1)
      BY <1>5, <1>6, <3>1, <3>2
    <3>4. QED
      BY <1>3, <2>0, <3>1, <3>3
  <2>5. QED
    BY <1>1, <2>0, <2>1, <2>2, <2>3, <2>4
<1>9. \A j, k \in 1..Len(t) : t[j] = t[k] => j = k
  <2>1. \A j \in 1..Len(t) : t[j] = Stop(t, j) /\ j \in 0..Len(s) + 2 /\ j \in Nat
    BY <1>1, <1>2 DEF Stop
  <2>2. \A j \in 1..Len(t) : j = i + 1 <=> t[j] = x
    <3> TAKE j \in 1..Len(t)
    <3>1. CASE j <= i
      BY <1>1, <1>2, <1>3, <1>5, <2>1, <3>1
    <3>2. CASE j = i + 1
      BY <1>2, <3>2
    <3>3. CASE j > i + 1
      <4>1. ~(j <= i) /\ j # i + 1 /\ j - 1 \in 0..Len(s)
        BY <1>1, <1>2, <3>3
      <4>2. QED
        BY <1>3, <1>5, <2>1, <4>1
    <3>4. QED
      BY <1>1, <2>1, <3>1, <3>2, <3>3
  <2>3. ASSUME NEW j \in 1..Len(t), NEW k \in 1..Len(t), t[j] = t[k], j # i + 1, k # i + 1
        PROVE  j = k
    <3> DEFINE jj == IF j <= i THEN j ELSE j - 1
               kk == IF k <= i THEN k ELSE k - 1
    <3>1. jj \in 0..Len(s) + 1 /\ kk \in 0..Len(s) + 1
      BY <1>1, <1>2
    <3>2. t[j] = Stop(s, jj) /\ t[k] = Stop(s, kk)
      BY <1>3, <2>1, <2>3
    <3>3. jj = kk => j = k
      BY <1>1, <1>2, <2>1, <2>3
    <3> HIDE DEF jj, kk
    <3>4. jj = kk
      <4>1. Stop(s, jj) = Stop(s, kk)
        BY <2>3, <3>2
      <4>2. \A m, l \in 0..Len(s) + 1 : Stop(s, m) = Stop(s, l) => m = l
        BY <1>4
      <4>3. QED
        BY <3>1, <4>1, <4>2, Zenon
    <3>5. QED
      BY <3>3, <3>4
  <2>4. QED
    BY <2>2, <2>3
<1>10. QED
  BY <1>2, <1>7, <1>8, <1>9 DEF QueueOK, t

(* What a removal does to the links. *)
LEMMA Unspliced ==
  ASSUME NEW q, NEW s, QueueOK(q, s), NEW r \in QueueRecords, NEW i \in 1..Len(s),
         r.next[Stop(s, i - 1)] = Stop(s, i + 1),
         \A y \in Items \cup {HeadLink} : y # s[i] /\ y # Stop(s, i - 1) => r.next[y] = q.next[y],
         i < Len(s) => r.prev[Stop(s, i + 1)] = Stop(s, i - 1),
         \A y \in Items : y # s[i] /\ y # Stop(s, i + 1) => r.prev[y] = q.prev[y]
  PROVE  QueueOK(r, RemoveAt(s, i))
<1> DEFINE t == RemoveAt(s, i)
<1>1. s \in Seq(Items) /\ Len(s) \in Nat /\ i \in Nat
  BY DEF QueueOK
<1>2. /\ t \in Seq(Items) /\ Len(t) = Len(s) - 1
      /\ \A k \in 1..Len(s) - 1 : t[k] = IF k < i THEN s[k] ELSE s[k + 1]
  BY <1>1, RemoveAtItems
<1>3. \A j \in 0..Len(s) : Stop(t, j) = IF j < i THEN Stop(s, j) ELSE Stop(s, j + 1)
  BY <1>1, StopsOfRemove
<1> HIDE DEF t
<1>4. /\ Stop(s, 0) = HeadLink /\ \A k \in 1..Len(s) : Stop(s, k) = s[k] /\ Stop(s, k) \in Items
      /\ Stop(s, Len(s) + 1) = None
      /\ \A k, l \in 0..Len(s) + 1 : Stop(s, k) = Stop(s, l) => k = l
  BY Stops
<1>5. \A k \in 0..Len(s) : /\ Stop(s, k) \in Items \cup {HeadLink}
                           /\ k # i => Stop(s, k) # s[i]
  <2> TAKE k \in 0..Len(s)
  <2>1. Stop(s, i) = s[i] /\ i \in 0..Len(s) + 1 /\ k \in 0..Len(s) + 1
    BY <1>1, <1>4
  <2>2. k = 0 \/ k \in 1..Len(s)
    BY <1>1
  <2>3. QED
    BY <1>4, <2>1, <2>2
<1>6. \A k \in 0..Len(s) : /\ q.next[Stop(s, k)] = Stop(s, k + 1)
                           /\ k > 0 => q.prev[Stop(s, k)] = Stop(s, k - 1)
  BY DEF QueueOK
<1>7. ASSUME NEW j \in 0..Len(t)
      PROVE  r.next[Stop(t, j)] = Stop(t, j + 1)
  <2>0. j \in Nat /\ j \in 0..Len(s) /\ j + 1 \in 0..Len(s) /\ j < Len(s)
    BY <1>1, <1>2
  <2>1. CASE j < i - 1
    <3>1. j < i /\ j + 1 < i /\ j # i /\ j # i - 1 /\ i - 1 \in 0..Len(s) + 1 /\ j \in 0..Len(s) + 1
      BY <1>1, <2>0, <2>1
    <3>2. Stop(s, j) # Stop(s, i - 1)
      BY <1>4, <3>1
    <3>3. r.next[Stop(s, j)] = Stop(s, j + 1)
      BY <1>5, <1>6, <2>0, <3>1, <3>2
    <3>4. QED
      BY <1>3, <2>0, <3>1, <3>3
  <2>2. CASE j = i - 1
    <3>1. j < i /\ j + 1 = i /\ ~(j + 1 < i)
      BY <1>1, <2>2
    <3>2. QED
      BY <1>3, <2>0, <2>2, <3>1
  <2>3. CASE j >= i
    <3>1. /\ ~(j < i) /\ ~(j + 1 < i) /\ j + 1 # i /\ j + 1 # i - 1
          /\ i - 1 \in 0..Len(s) + 1 /\ j + 1 \in 0..Len(s) + 1
      BY <1>1, <2>0, <2>3
    <3>2. Stop(s, j + 1) # Stop(s, i - 1)
      BY <1>4, <3>1
    <3>3. r.next[Stop(s, j + 1)] = Stop(s, j + 1 + 1)
      BY <1>5, <1>6, <2>0, <3>1, <3>2
    <3>4. QED
      BY <1>3, <2>0, <3>1, <3>3
  <2>4. QED
    BY <1>1, <2>0, <2>1, <2>2, <2>3
<1>8. ASSUME NEW j \in 0..Len(t), j > 0
      PROVE  r.prev[Stop(t, j)] = Stop(t, j - 1)
  <2>0. j \in Nat /\ j \in 1..Len(s) /\ j \in 0..Len(s) /\ j - 1 \in 0..Len(s) /\ j < Len(s)
    BY <1>1, <1>2, <1>8
  <2>1. CASE j < i
    <3>1. j - 1 < i /\ j # i /\ j # i + 1 /\ i + 1 \in 0..Len(s) + 1 /\ j \in 0..Len(s) + 1
      BY <1>1, <2>0, <2>1
    <3>2. Stop(s, j) # Stop(s, i + 1) /\ Stop(s, j) \in Items
      BY <1>4, <2>0, <3>1
    <3>3. r.prev[Stop(s, j)] = Stop(s, j - 1)
      BY <1>5, <1>6, <1>8, <2>0, <3>1, <3>2
    <3>4. QED
      BY <1>3, <2>0, <2>1, <3>1, <3>3
  <2>2. CASE j = i
    <3>1. j - 1 < i /\ ~(j < i) /\ i < Len(s)
      BY <1>1, <2>0, <2>2
    <3>2. QED
      BY <1>3, <2>0, <2>2, <3>1
  <2>3. CASE j > i
    <3>1. /\ ~(j < i) /\ ~(j - 1 < i) /\ j + 1 # i /\ j + 1 # i + 1 /\ j + 1 > 0
          /\ i + 1 \in 0..Len(s) + 1 /\ j + 1 \in 0..Len(s) + 1 /\ j + 1 \in 1..Len(s)
          /\ j + 1 \in 0..Len(s) /\ j - 1 + 1 = j + 1 - 1
      BY <1>1, <2>0, <2>3
    <3>2. Stop(s, j + 1) # Stop(s, i + 1) /\ Stop(s, j + 1) \in Items
      BY <1>4, <3>1
    <3>3. r.prev[Stop(s, j + 1)] = Stop(s, j + 1 - 1)
      BY <1>5, <1>6, <3>1, <3>2
    <3>4. QED
      BY <1>3, <2>0, <3>1, <3>3
  <2>4. QED
    BY <1>1, <2>0, <2>1, <2>2, <2>3
<1>9. \A j, k \in 1..Len(t) : t[j] = t[k] => j = k
  <2> SUFFICES ASSUME NEW j \in 1..Len(t), NEW k \in 1..Len(t), t[j] = t[k]
               PROVE  j = k
    OBVIOUS
  <2> DEFINE jj == IF j < i THEN j ELSE j + 1
             kk == IF k < i THEN k ELSE k + 1
  <2>1. jj \in 1..Len(s) /\ kk \in 1..Len(s)
    BY <1>1, <1>2
  <2>2. t[j] = s[jj] /\ t[k] = s[kk]
    BY <1>2
  <2>3. jj = kk => j = k
    BY <1>1, <1>2
  <2> HIDE DEF jj, kk
  <2>4. s[jj] = s[kk]
    BY <2>2
  <2>5. \A m, l \in 1..Len(s) : s[m] = s[l] => m = l
    BY DEF QueueOK
  <2>6. QED
    BY <2>1, <2>3, <2>4, <2>5, Zenon
<1>10. QED
  BY <1>2, <1>7, <1>8, <1>9 DEF QueueOK, t

-----------------------------------------------------------------------------
(* The macros of queue.h, one by one: the record they leave, link by link.  *)

LEMMA InsertAfterLinks ==
  ASSUME NEW q \in QueueRecords, NEW p \in Items \cup {HeadLink}, NEW x \in Items, p # x,
         q.next[p] # x
  PROVE  LET s == q.next[p]
             Inserted(r) ==
               /\ r \in QueueRecords
               /\ r.next[x] = s /\ r.next[p] = x
               /\ \A y \in Items \cup {HeadLink} : y # x /\ y # p => r.next[y] = q.next[y]
               /\ r.prev[x] = p /\ (s # None => r.prev[s] = x)
               /\ \A y \in Items : y # x /\ y # s => r.prev[y] = q.prev[y]
         IN /\ Inserted(TailqInsertAfter(q, p, x))
            /\ TailqInsertAfter(q, p, x).last = IF s = None THEN x ELSE q.last
            /\ Inserted(ListInsertAfter(q, p, x))
<1> DEFINE s == q.next[p]
           a == [q EXCEPT !.next = [@ EXCEPT ![x] = s, ![p] = x], !.prev[x] = p]
<1>1. s \in Items \cup {None} /\ None \notin Items /\ HeadLink \notin Items
  BY QueuesAssumption DEF QueueRecords
<1>2. /\ a \in QueueRecords /\ a.last = q.last
      /\ a.next[x] = s /\ a.next[p] = x
      /\ \A y \in Items \cup {HeadLink} : y # x /\ y # p => a.next[y] = q.next[y]
      /\ a.prev[x] = p
      /\ \A y \in Items : y # x => a.prev[y] = q.prev[y]
  BY <1>1 DEF QueueRecords
<1> HIDE DEF a, s
<1>3. CASE s = None
  <2>1. SetPrev(a, s, x) = a /\ SetLast(a, s, x) = [a EXCEPT !.last = x]
    BY <1>3 DEF SetPrev, SetLast
  <2>2. TailqInsertAfter(q, p, x) = [a EXCEPT !.last = x] /\ ListInsertAfter(q, p, x) = a
    BY <2>1 DEF TailqInsertAfter, ListInsertAfter, a, s
  <2>3. /\ [a EXCEPT !.last = x] \in QueueRecords /\ [a EXCEPT !.last = x].last = x
        /\ [a EXCEPT !.last = x].next = a.next /\ [a EXCEPT !.last = x].prev = a.prev
    BY <1>2 DEF QueueRecords
  <2>4. QED
    BY <1>1, <1>2, <1>3, <2>2, <2>3 DEF s
<1>4. CASE s # None
  <2> DEFINE b == [a EXCEPT !.prev[s] = x]
  <2>1. SetPrev(a, s, x) = b /\ SetLast(b, s, x) = b
    BY <1>4 DEF SetPrev, SetLast
  <2>2. TailqInsertAfter(q, p, x) = b /\ ListInsertAfter(q, p, x) = b
    BY <2>1 DEF TailqInsertAfter, ListInsertAfter, a, s
  <2>3. s \in Items /\ s # x
    BY <1>1, <1>4 DEF s
  <2>4. /\ b \in QueueRecords /\ b.last = a.last /\ b.next = a.next
        /\ b.prev[s] = x /\ \A y \in Items : y # s => b.prev[y] = a.prev[y]
    BY <1>2, <2>3 DEF QueueRecords
  <2> HIDE DEF b
  <2>5. QED
    BY <1>2, <1>4, <2>2, <2>3, <2>4 DEF s
<1>5. QED
  BY <1>3, <1>4

LEMMA InsertBeforeLinks ==
  ASSUME NEW q \in QueueRecords, NEW s \in Items, NEW x \in Items, s # x,
         q.prev[s] \in Items \cup {HeadLink}, q.prev[s] # x
  PROVE  LET p == q.prev[s]
             r == TailqInsertBefore(q, s, x)
         IN /\ r \in QueueRecords /\ r.last = q.last
            /\ r.next[x] = s /\ r.next[p] = x
            /\ \A y \in Items \cup {HeadLink} : y # x /\ y # p => r.next[y] = q.next[y]
            /\ r.prev[x] = p /\ r.prev[s] = x
            /\ \A y \in Items : y # x /\ y # s => r.prev[y] = q.prev[y]
BY DEF TailqInsertBefore, QueueRecords

LEMMA InsertTailLinks ==
  ASSUME NEW q \in QueueRecords, NEW x \in Items, q.last # x
  PROVE  LET r == TailqInsertTail(q, x)
         IN /\ r \in QueueRecords /\ r.last = x
            /\ r.next[x] = None /\ r.next[q.last] = x
            /\ \A y \in Items \cup {HeadLink} : y # x /\ y # q.last => r.next[y] = q.next[y]
            /\ r.prev[x] = q.last
            /\ \A y \in Items : y # x => r.prev[y] = q.prev[y]
BY DEF TailqInsertTail, QueueRecords

LEMMA RemoveLinks ==
  ASSUME NEW q \in QueueRecords, NEW x \in Items,
         q.prev[x] \in Items \cup {HeadLink}, q.prev[x] # x, q.next[x] # x
  PROVE  LET p == q.prev[x]
             s == q.next[x]
             Removed(r) ==
               /\ r \in QueueRecords
               /\ r.next[p] = s
               /\ \A y \in Items \cup {HeadLink} : y # x /\ y # p => r.next[y] = q.next[y]
               /\ s # None => r.prev[s] = p
               /\ \A y \in Items : y # x /\ y # s => r.prev[y] = q.prev[y]
         IN /\ Removed(TailqRemove(q, x))
            /\ TailqRemove(q, x).last = IF s = None THEN p ELSE q.last
            /\ Removed(ListRemove(q, x))
<1> DEFINE p == q.prev[x]
           s == q.next[x]
           Cut(r) == [r EXCEPT !.next = [@ EXCEPT ![p] = s, ![x] = None], !.prev[x] = None]
<1>1. s \in Items \cup {None} /\ None \notin Items /\ HeadLink \notin Items
  BY QueuesAssumption DEF QueueRecords
<1>2. ASSUME NEW r \in QueueRecords
      PROVE  /\ Cut(r) \in QueueRecords /\ Cut(r).last = r.last
             /\ Cut(r).next[p] = s
             /\ \A y \in Items \cup {HeadLink} : y # x /\ y # p => Cut(r).next[y] = r.next[y]
             /\ \A y \in Items : y # x => Cut(r).prev[y] = r.prev[y]
  BY <1>1 DEF QueueRecords
<1>3. TailqRemove(q, x) = Cut(SetLast(SetPrev(q, s, p), s, p)) /\ ListRemove(q, x) = Cut(SetPrev(q, s, p))
  BY DEF TailqRemove, ListRemove
<1> HIDE DEF Cut, p, s
<1>4. CASE s = None
  <2> DEFINE b == [q EXCEPT !.last = p]
  <2>1. SetPrev(q, s, p) = q /\ SetLast(q, s, p) = b
    BY <1>4 DEF SetPrev, SetLast
  <2>2. b \in QueueRecords /\ b.last = p /\ b.next = q.next /\ b.prev = q.prev
    BY DEF QueueRecords, p
  <2> HIDE DEF b
  <2>3. TailqRemove(q, x) = Cut(b) /\ ListRemove(q, x) = Cut(q)
    BY <1>3, <2>1
  <2>4. QED
    BY <1>2, <1>4, <2>2, <2>3 DEF p, s
<1>5. CASE s # None
  <2> DEFINE b == [q EXCEPT !.prev[s] = p]
  <2>1. SetPrev(q, s, p) = b /\ SetLast(b, s, p) = b
    BY <1>5 DEF SetPrev, SetLast
  <2>2. s \in Items /\ s # x
    BY <1>1, <1>5 DEF s
  <2>3. /\ b \in QueueRecords /\ b.last = q.last /\ b.next = q.next
        /\ b.prev[s] = p /\ \A y \in Items : y # s => b.prev[y] = q.prev[y]
    BY <2>2 DEF QueueRecords, p
  <2> HIDE DEF b
  <2>4. QED
    BY <1>2, <1>3, <1>5, <2>1, <2>2, <2>3 DEF p, s
<1>6. QED
  BY <1>4, <1>5

(* The last stop moves only when the item goes in behind it. *)
LEMMA LastStopOfInsert ==
  ASSUME NEW s \in Seq(Items), NEW i \in 0..Len(s), NEW x \in Items
  PROVE  LET t == InsertAt(s, i + 1, x)
         IN Stop(t, Len(t)) = IF i = Len(s) THEN x ELSE Stop(s, Len(s))
<1> DEFINE t == InsertAt(s, i + 1, x)
<1>1. i + 1 \in 1..Len(s) + 1 /\ Len(s) \in Nat /\ i \in Nat
  OBVIOUS
<1>2. /\ Len(t) = Len(s) + 1
      /\ \A k \in 1..Len(s) + 1 :
           t[k] = IF k < i + 1 THEN s[k] ELSE IF k = i + 1 THEN x ELSE s[k - 1]
  BY <1>1, InsertAtItems
<1> HIDE DEF t
<1>3. Stop(t, Len(t)) = t[Len(s) + 1]
  BY <1>1, <1>2 DEF Stop
<1>4. Len(s) + 1 \in 1..Len(s) + 1 /\ ~(Len(s) + 1 < i + 1) /\ Len(s) + 1 - 1 = Len(s)
  BY <1>1
<1>5. t[Len(s) + 1] = IF Len(s) + 1 = i + 1 THEN x ELSE s[Len(s)]
  <2>1. t[Len(s) + 1] = IF Len(s) + 1 < i + 1 THEN s[Len(s) + 1]
                        ELSE IF Len(s) + 1 = i + 1 THEN x ELSE s[Len(s) + 1 - 1]
    BY <1>2, <1>4
  <2>2. QED
    BY <1>4, <2>1
<1>6. i # Len(s) => Stop(s, Len(s)) = s[Len(s)]
  BY <1>1 DEF Stop
<1>7. Len(s) + 1 = i + 1 <=> i = Len(s)
  BY <1>1
<1>8. QED
  BY <1>3, <1>5, <1>6, <1>7 DEF t

LEMMA InsertAfterOK ==
  ASSUME NEW q, NEW s, QueueOK(q, s), NEW i \in 0..Len(s), NEW x \in Items,
         \A k \in 1..Len(s) : s[k] # x
  PROVE  LET t == InsertAt(s, i + 1, x)
             r == TailqInsertAfter(q, Stop(s, i), x)
         IN /\ QueueOK(r, t) /\ QueueOK(ListInsertAfter(q, Stop(s, i), x), t)
            /\ q.last = Stop(s, Len(s)) => r.last = Stop(t, Len(t))
<1> DEFINE t == InsertAt(s, i + 1, x)
           p == Stop(s, i)
           n == Stop(s, i + 1)
           r == TailqInsertAfter(q, p, x)
           l == ListInsertAfter(q, p, x)
<1>1. s \in Seq(Items) /\ Len(s) \in Nat /\ i \in Nat /\ q \in QueueRecords
  BY DEF QueueOK
<1>2. /\ Stop(s, 0) = HeadLink /\ \A k \in 1..Len(s) : Stop(s, k) = s[k] /\ Stop(s, k) \in Items
      /\ Stop(s, Len(s) + 1) = None
  BY Stops
<1>3. q.next[p] = n
  BY DEF QueueOK
<1>4. p \in Items \cup {HeadLink} /\ p # x
  <2>1. i = 0 \/ i \in 1..Len(s)
    BY <1>1
  <2>2. QED
    BY <1>2, <2>1, QueuesAssumption
<1>5. (n = None <=> i = Len(s)) /\ n # x /\ (i < Len(s) => n \in Items)
  <2>1. i = Len(s) \/ i + 1 \in 1..Len(s)
    BY <1>1
  <2>2. QED
    BY <1>1, <1>2, <2>1, QueuesAssumption
<1> HIDE DEF p, n, r, l, t
<1>6. /\ r \in QueueRecords /\ l \in QueueRecords
      /\ r.next[x] = n /\ r.next[p] = x /\ l.next[x] = n /\ l.next[p] = x
      /\ \A y \in Items \cup {HeadLink} : y # x /\ y # p => r.next[y] = q.next[y] /\ l.next[y] = q.next[y]
      /\ r.prev[x] = p /\ l.prev[x] = p
      /\ n # None => r.prev[n] = x /\ l.prev[n] = x
      /\ \A y \in Items : y # x /\ y # n => r.prev[y] = q.prev[y] /\ l.prev[y] = q.prev[y]
      /\ r.last = IF n = None THEN x ELSE q.last
  BY <1>1, <1>3, <1>4, <1>5, InsertAfterLinks DEF r, l
<1>7. QueueOK(r, t) /\ QueueOK(l, t)
  <2>1. i < Len(s) => n # None
    BY <1>1, <1>5
  <2>2. QueueOK(r, t)
    BY <1>6, <2>1, Spliced DEF p, n, t
  <2>3. QueueOK(l, t)
    BY <1>6, <2>1, Spliced DEF p, n, t
  <2>4. QED
    BY <2>2, <2>3
<1>8. ASSUME q.last = Stop(s, Len(s))
      PROVE  r.last = Stop(t, Len(t))
  <2>1. Stop(t, Len(t)) = IF i = Len(s) THEN x ELSE Stop(s, Len(s))
    BY <1>1, LastStopOfInsert DEF t
  <2>2. QED
    BY <1>5, <1>6, <1>8, <2>1
<1>9. QED
  BY <1>7, <1>8 DEF r, l, t, p

LEMMA InsertBeforeOK ==
  ASSUME NEW q, NEW s, QueueOK(q, s), NEW i \in 1..Len(s), NEW x \in Items,
         \A k \in 1..Len(s) : s[k] # x, q.last = Stop(s, Len(s))
  PROVE  LET t == InsertAt(s, i, x)
             r == TailqInsertBefore(q, s[i], x)
         IN QueueOK(r, t) /\ r.last = Stop(t, Len(t))
<1> DEFINE t == InsertAt(s, i, x)
           p == Stop(s, i - 1)
           r == TailqInsertBefore(q, s[i], x)
<1>1. s \in Seq(Items) /\ Len(s) \in Nat /\ i \in Nat /\ q \in QueueRecords /\ s[i] \in Items /\ s[i] # x
  BY DEF QueueOK
<1>2. /\ Stop(s, 0) = HeadLink /\ \A k \in 1..Len(s) : Stop(s, k) = s[k] /\ Stop(s, k) \in Items
      /\ Stop(s, Len(s) + 1) = None
  BY Stops
<1>3. q.prev[s[i]] = p
  <2>1. i \in 0..Len(s) /\ i > 0 /\ Stop(s, i) = s[i]
    BY <1>1, <1>2
  <2>2. QED
    BY <2>1 DEF QueueOK
<1>4. p \in Items \cup {HeadLink} /\ p # x
  <2>1. i - 1 = 0 \/ i - 1 \in 1..Len(s)
    BY <1>1
  <2>2. QED
    BY <1>2, <2>1, QueuesAssumption
<1>5. i - 1 \in 0..Len(s) /\ i - 1 + 1 = i /\ Stop(s, i) = s[i]
  BY <1>1, <1>2
<1> HIDE DEF p, r, t
<1>6. /\ r \in QueueRecords /\ r.last = q.last
      /\ r.next[x] = s[i] /\ r.next[p] = x
      /\ \A y \in Items \cup {HeadLink} : y # x /\ y # p => r.next[y] = q.next[y]
      /\ r.prev[x] = p /\ r.prev[s[i]] = x
      /\ \A y \in Items : y # x /\ y # s[i] => r.prev[y] = q.prev[y]
  BY <1>1, <1>3, <1>4, InsertBeforeLinks DEF r
<1>7. QueueOK(r, InsertAt(s, i - 1 + 1, x))
  BY <1>5, <1>6, Spliced DEF p
<1>8. Stop(t, Len(t)) = Stop(s, Len(s))
  <2>1. i - 1 \in 0..Len(s) /\ i - 1 # Len(s) /\ s \in Seq(Items)
    BY <1>1
  <2>2. Stop(InsertAt(s, i - 1 + 1, x), Len(InsertAt(s, i - 1 + 1, x))) = Stop(s, Len(s))
    BY <2>1, LastStopOfInsert
  <2>3. QED
    BY <1>5, <2>2 DEF t
<1>9. QED
  BY <1>5, <1>6, <1>7, <1>8 DEF r, t

(* The last link names the last item, after which it inserts.              *)
LEMMA InsertTailOK ==
  ASSUME NEW q, NEW s, QueueOK(q, s), NEW x \in Items,
         \A k \in 1..Len(s) : s[k] # x, q.last = Stop(s, Len(s))
  PROVE  LET t == InsertAt(s, Len(s) + 1, x)
             r == TailqInsertTail(q, x)
         IN QueueOK(r, t) /\ r.last = Stop(t, Len(t))
<1> DEFINE t == InsertAt(s, Len(s) + 1, x)
           r == TailqInsertTail(q, x)
<1>1. s \in Seq(Items) /\ Len(s) \in Nat /\ q \in QueueRecords
  BY DEF QueueOK
<1>2. /\ Stop(s, 0) = HeadLink /\ \A k \in 1..Len(s) : Stop(s, k) = s[k] /\ Stop(s, k) \in Items
      /\ Stop(s, Len(s) + 1) = None
  BY Stops
<1>3. q.last # x
  <2>1. Len(s) = 0 \/ Len(s) \in 1..Len(s)
    BY <1>1
  <2>2. QED
    BY <1>2, <2>1, QueuesAssumption
<1> HIDE DEF r, t
<1>4. /\ r \in QueueRecords /\ r.last = x
      /\ r.next[x] = None /\ r.next[q.last] = x
      /\ \A y \in Items \cup {HeadLink} : y # x /\ y # q.last => r.next[y] = q.next[y]
      /\ r.prev[x] = q.last
      /\ \A y \in Items : y # x => r.prev[y] = q.prev[y]
  BY <1>1, <1>3, InsertTailLinks DEF r
<1>5. Len(s) \in 0..Len(s) /\ ~(Len(s) < Len(s))
  BY <1>1
<1>6. QueueOK(r, t)
  BY <1>2, <1>4, <1>5, Spliced DEF t
<1>7. Stop(t, Len(t)) = x
  BY <1>1, <1>5, LastStopOfInsert DEF t
<1>8. QED
  BY <1>4, <1>6, <1>7 DEF r, t

LEMMA RemoveOK ==
  ASSUME NEW q, NEW s, QueueOK(q, s), NEW i \in 1..Len(s)
  PROVE  LET t == RemoveAt(s, i)
             r == TailqRemove(q, s[i])
         IN /\ QueueOK(r, t) /\ QueueOK(ListRemove(q, s[i]), t)
            /\ q.last = Stop(s, Len(s)) => r.last = Stop(t, Len(t))
<1> DEFINE t == RemoveAt(s, i)
           p == Stop(s, i - 1)
           n == Stop(s, i + 1)
           x == s[i]
           r == TailqRemove(q, x)
           l == ListRemove(q, x)
<1>1. s \in Seq(Items) /\ Len(s) \in Nat /\ i \in Nat /\ q \in QueueRecords /\ x \in Items
  BY DEF QueueOK
<1>2. /\ Stop(s, 0) = HeadLink /\ \A k \in 1..Len(s) : Stop(s, k) = s[k] /\ Stop(s, k) \in Items
      /\ Stop(s, Len(s) + 1) = None
      /\ \A k, m \in 0..Len(s) + 1 : Stop(s, k) = Stop(s, m) => k = m
  BY Stops
<1>3. Stop(s, i) = x /\ i \in 0..Len(s) /\ i > 0
  BY <1>1, <1>2
<1>4. q.next[x] = n /\ q.prev[x] = p
  BY <1>3 DEF QueueOK
<1>5. p # x /\ n # x
  <2>1. i - 1 \in 0..Len(s) + 1 /\ i + 1 \in 0..Len(s) + 1 /\ i \in 0..Len(s) + 1 /\ i - 1 # i /\ i + 1 # i
    BY <1>1
  <2>2. QED
    BY <1>2, <1>3, <2>1
<1>6. p \in Items \cup {HeadLink}
  <2>1. i - 1 = 0 \/ i - 1 \in 1..Len(s)
    BY <1>1
  <2>2. QED
    BY <1>2, <2>1
<1>7. n = None <=> i = Len(s)
  <2>1. i = Len(s) \/ i + 1 \in 1..Len(s)
    BY <1>1
  <2>2. QED
    BY <1>1, <1>2, <2>1, QueuesAssumption
<1> HIDE DEF p, n, x, r, l, t
<1>8. /\ r \in QueueRecords /\ l \in QueueRecords
      /\ r.next[p] = n /\ l.next[p] = n
      /\ \A y \in Items \cup {HeadLink} : y # x /\ y # p => r.next[y] = q.next[y] /\ l.next[y] = q.next[y]
      /\ n # None => r.prev[n] = p /\ l.prev[n] = p
      /\ \A y \in Items : y # x /\ y # n => r.prev[y] = q.prev[y] /\ l.prev[y] = q.prev[y]
      /\ r.last = IF n = None THEN p ELSE q.last
  BY <1>1, <1>4, <1>5, <1>6, RemoveLinks DEF r, l
<1>9. QueueOK(r, t) /\ QueueOK(l, t)
  <2>1. i < Len(s) => n # None
    BY <1>1, <1>7
  <2>2. QueueOK(r, t)
    BY <1>8, <2>1, Unspliced DEF p, n, t, x
  <2>3. QueueOK(l, t)
    BY <1>8, <2>1, Unspliced DEF p, n, t, x
  <2>4. QED
    BY <2>2, <2>3
<1>10. ASSUME q.last = Stop(s, Len(s))
       PROVE  r.last = Stop(t, Len(t))
  <2>1. Len(t) = Len(s) - 1 /\ Len(s) - 1 \in 0..Len(s)
    BY <1>1, RemoveAtItems DEF t
  <2>2. Stop(t, Len(s) - 1) = IF Len(s) - 1 < i THEN Stop(s, Len(s) - 1) ELSE Stop(s, Len(s) - 1 + 1)
    BY <1>1, <2>1, StopsOfRemove DEF t
  <2>3. (Len(s) - 1 < i <=> i = Len(s)) /\ Len(s) - 1 + 1 = Len(s)
    BY <1>1
  <2>4. QED
    BY <1>7, <1>8, <1>10, <2>1, <2>2, <2>3 DEF p
<1>11. QED
  BY <1>9, <1>10 DEF r, l, t, x

(* An item that is there has a place, and one that is absent none. *)
LEMMA Places ==
  ASSUME NEW which, NEW x
  PROVE  LET s == order[which]
         IN s \in Seq(Items) =>
              /\ Absent(which, x) => \A k \in 1..Len(s) : s[k] # x
              /\ ~Absent(which, x) => PlaceIn(which, x) \in 1..Len(s) /\ s[PlaceIn(which, x)] = x
<1> DEFINE s == order[which]
<1> SUFFICES ASSUME s \in Seq(Items)
             PROVE  /\ Absent(which, x) => \A k \in 1..Len(s) : s[k] # x
                    /\ ~Absent(which, x) => PlaceIn(which, x) \in 1..Len(s) /\ s[PlaceIn(which, x)] = x
  OBVIOUS
<1>1. DOMAIN s = 1..Len(s)
  OBVIOUS
<1>2. Absent(which, x) => \A k \in 1..Len(s) : s[k] # x
  BY <1>1 DEF Absent
<1>3. ASSUME ~Absent(which, x)
      PROVE  PlaceIn(which, x) \in 1..Len(s) /\ s[PlaceIn(which, x)] = x
  <2>1. \E k \in DOMAIN s : s[k] = x
    BY <1>3 DEF Absent
  <2>2. PlaceIn(which, x) = CHOOSE k \in DOMAIN s : s[k] = x
    BY DEF PlaceIn
  <2>3. PlaceIn(which, x) \in DOMAIN s /\ s[PlaceIn(which, x)] = x
    BY <2>1, <2>2
  <2>4. QED
    BY <1>1, <2>3
<1>4. QED
  BY <1>2, <1>3

(* What the two lists need when a step has changed one of them. *)
LEMMA OneListChanges ==
  ASSUME QueuesInv, NEW t
  PROVE  /\ order' = [order EXCEPT !.tailq = t] /\ QueueOK(tailq', t) /\ tailq'.last = Stop(t, Len(t))
            /\ UNCHANGED list => QueuesInv'
         /\ order' = [order EXCEPT !.list = t] /\ QueueOK(list', t) /\ UNCHANGED tailq => QueuesInv'
<1>1. order = [tailq |-> order.tailq, list |-> order.list]
  BY DEF QueuesInv
<1>2. ASSUME order' = [order EXCEPT !.tailq = t], QueueOK(tailq', t),
             tailq'.last = Stop(t, Len(t)), UNCHANGED list
      PROVE  QueuesInv'
  <2>1. order'.tailq = t /\ order'.list = order.list /\ t \in Seq(Items)
        /\ order' \in [tailq : Seq(Items), list : Seq(Items)]
    BY <1>1, <1>2 DEF QueuesInv, QueueOK
  <2>2. QueueOK(list, order.list)
    BY DEF QueuesInv
  <2>3. QED
    BY <1>2, <2>1, <2>2 DEF QueuesInv, QueueOK, Stop, QueueRecords
<1>3. ASSUME order' = [order EXCEPT !.list = t], QueueOK(list', t), UNCHANGED tailq
      PROVE  QueuesInv'
  <2>1. order'.list = t /\ order'.tailq = order.tailq /\ t \in Seq(Items)
        /\ order' \in [tailq : Seq(Items), list : Seq(Items)]
    BY <1>1, <1>3 DEF QueuesInv, QueueOK
  <2>2. QueueOK(tailq, order.tailq) /\ tailq.last = Stop(order.tailq, Len(order.tailq))
    BY DEF QueuesInv
  <2>3. QED
    BY <1>3, <2>1, <2>2 DEF QueuesInv, QueueOK, Stop, QueueRecords
<1>4. QED
  BY <1>2, <1>3

LEMMA QueuesTailqStep == QueuesInv /\ QueuesTailq => QueuesInv'
<1> DEFINE s == order.tailq
<1> SUFFICES ASSUME QueuesInv, NEW x \in Items, UNCHANGED list,
                    \/ /\ Absent("tailq", x)
                       /\ \/ tailq' = TailqInsertTail(tailq, x) /\ Keep("tailq", Len(s) + 1, x)
                          \/ tailq' = TailqInsertAfter(tailq, HeadLink, x) /\ Keep("tailq", 1, x)
                          \/ \E y \in Items :
                               /\ ~Absent("tailq", y)
                               /\ \/ /\ tailq' = TailqInsertAfter(tailq, y, x)
                                     /\ Keep("tailq", PlaceIn("tailq", y) + 1, x)
                                  \/ /\ tailq' = TailqInsertBefore(tailq, y, x)
                                     /\ Keep("tailq", PlaceIn("tailq", y), x)
                    \/ /\ ~Absent("tailq", x)
                       /\ tailq' = TailqRemove(tailq, x)
                       /\ order' = [order EXCEPT !.tailq = RemoveAt(@, PlaceIn("tailq", x))]
             PROVE  QueuesInv'
  BY DEF QueuesTailq
<1>1. /\ s \in Seq(Items) /\ Len(s) \in Nat /\ QueueOK(tailq, s)
      /\ tailq.last = Stop(s, Len(s))
  BY DEF QueuesInv, QueueOK
<1>2. /\ \A i : Keep("tailq", i, x) <=> order' = [order EXCEPT !.tailq = InsertAt(s, i, x)]
      /\ \A y : ~Absent("tailq", y) => PlaceIn("tailq", y) \in 1..Len(s) /\ s[PlaceIn("tailq", y)] = y
      /\ Absent("tailq", x) => \A k \in 1..Len(s) : s[k] # x
  BY <1>1, Places DEF Keep
<1>3. Stop(s, 0) = HeadLink /\ \A k \in 1..Len(s) : Stop(s, k) = s[k]
  BY <1>1, Stops
<1> HIDE DEF s
<1>4. ASSUME NEW i \in 0..Len(s), NEW p, p = Stop(s, i), Absent("tailq", x),
             tailq' = TailqInsertAfter(tailq, p, x), Keep("tailq", i + 1, x)
      PROVE  QueuesInv'
  <2> DEFINE t == InsertAt(s, i + 1, x)
  <2>1. QueueOK(tailq', t) /\ tailq'.last = Stop(t, Len(t))
    BY <1>1, <1>2, <1>4, InsertAfterOK
  <2>2. order' = [order EXCEPT !.tailq = t]
    BY <1>2, <1>4
  <2> HIDE DEF t
  <2>3. QED
    BY <2>1, <2>2, OneListChanges
<1>5. CASE /\ Absent("tailq", x)
           /\ tailq' = TailqInsertTail(tailq, x) /\ Keep("tailq", Len(s) + 1, x)
  <2> DEFINE t == InsertAt(s, Len(s) + 1, x)
  <2>1. QueueOK(tailq', t) /\ tailq'.last = Stop(t, Len(t))
    BY <1>1, <1>2, <1>5, InsertTailOK
  <2>2. order' = [order EXCEPT !.tailq = t]
    BY <1>2, <1>5
  <2> HIDE DEF t
  <2>3. QED
    BY <2>1, <2>2, OneListChanges
<1>6. CASE /\ Absent("tailq", x)
           /\ tailq' = TailqInsertAfter(tailq, HeadLink, x) /\ Keep("tailq", 1, x)
  BY <1>1, <1>3, <1>4, <1>6
<1>7. ASSUME NEW y \in Items, ~Absent("tailq", y), Absent("tailq", x),
             tailq' = TailqInsertAfter(tailq, y, x), Keep("tailq", PlaceIn("tailq", y) + 1, x)
      PROVE  QueuesInv'
  <2>1. PlaceIn("tailq", y) \in 0..Len(s) /\ y = Stop(s, PlaceIn("tailq", y))
    BY <1>1, <1>2, <1>3, <1>7
  <2>2. QED
    BY <1>4, <1>7, <2>1
<1>8. ASSUME NEW y \in Items, ~Absent("tailq", y), Absent("tailq", x),
             tailq' = TailqInsertBefore(tailq, y, x), Keep("tailq", PlaceIn("tailq", y), x)
      PROVE  QueuesInv'
  <2> DEFINE i == PlaceIn("tailq", y)
             t == InsertAt(s, i, x)
  <2>1. i \in 1..Len(s) /\ s[i] = y
    BY <1>2, <1>8
  <2>2. order' = [order EXCEPT !.tailq = t]
    BY <1>2, <1>8
  <2> HIDE DEF i
  <2>3. tailq' = TailqInsertBefore(tailq, s[i], x)
    BY <1>8, <2>1
  <2>4. QueueOK(tailq', t) /\ tailq'.last = Stop(t, Len(t))
    BY <1>1, <1>2, <1>8, <2>1, <2>3, InsertBeforeOK
  <2> HIDE DEF t
  <2>5. QED
    BY <2>2, <2>4, OneListChanges
<1>9. CASE /\ ~Absent("tailq", x)
           /\ tailq' = TailqRemove(tailq, x)
           /\ order' = [order EXCEPT !.tailq = RemoveAt(@, PlaceIn("tailq", x))]
  <2> DEFINE i == PlaceIn("tailq", x)
             t == RemoveAt(s, i)
  <2>1. i \in 1..Len(s) /\ s[i] = x
    BY <1>2, <1>9
  <2>2. order' = [order EXCEPT !.tailq = t]
    BY <1>9 DEF s
  <2> HIDE DEF i
  <2>3. tailq' = TailqRemove(tailq, s[i])
    BY <1>9, <2>1
  <2>4. QueueOK(tailq', t) /\ tailq'.last = Stop(t, Len(t))
    BY <1>1, <2>1, <2>3, RemoveOK
  <2> HIDE DEF t
  <2>5. QED
    BY <2>2, <2>4, OneListChanges
<1>10. QED
  BY <1>5, <1>6, <1>7, <1>8, <1>9 DEF s

LEMMA QueuesListStep == QueuesInv /\ QueuesList => QueuesInv'
<1> DEFINE s == order.list
<1> SUFFICES ASSUME QueuesInv, NEW x \in Items, UNCHANGED tailq,
                    \/ /\ Absent("list", x)
                       /\ \/ list' = ListInsertAfter(list, HeadLink, x) /\ Keep("list", 1, x)
                          \/ \E y \in Items :
                               /\ ~Absent("list", y)
                               /\ list' = ListInsertAfter(list, y, x)
                               /\ Keep("list", PlaceIn("list", y) + 1, x)
                    \/ /\ ~Absent("list", x)
                       /\ list' = ListRemove(list, x)
                       /\ order' = [order EXCEPT !.list = RemoveAt(@, PlaceIn("list", x))]
             PROVE  QueuesInv'
  BY DEF QueuesList
<1>1. s \in Seq(Items) /\ Len(s) \in Nat /\ QueueOK(list, s)
  BY DEF QueuesInv, QueueOK
<1>2. /\ \A i : Keep("list", i, x) <=> order' = [order EXCEPT !.list = InsertAt(s, i, x)]
      /\ \A y : ~Absent("list", y) => PlaceIn("list", y) \in 1..Len(s) /\ s[PlaceIn("list", y)] = y
      /\ Absent("list", x) => \A k \in 1..Len(s) : s[k] # x
  BY <1>1, Places DEF Keep
<1>3. Stop(s, 0) = HeadLink /\ \A k \in 1..Len(s) : Stop(s, k) = s[k]
  BY <1>1, Stops
<1> HIDE DEF s
<1>4. ASSUME NEW i \in 0..Len(s), NEW p, p = Stop(s, i), Absent("list", x),
             list' = ListInsertAfter(list, p, x), Keep("list", i + 1, x)
      PROVE  QueuesInv'
  <2> DEFINE t == InsertAt(s, i + 1, x)
  <2>1. QueueOK(list', t)
    BY <1>1, <1>2, <1>4, InsertAfterOK
  <2>2. order' = [order EXCEPT !.list = t]
    BY <1>2, <1>4
  <2> HIDE DEF t
  <2>3. QED
    BY <2>1, <2>2, OneListChanges
<1>5. CASE /\ Absent("list", x)
           /\ list' = ListInsertAfter(list, HeadLink, x) /\ Keep("list", 1, x)
  BY <1>1, <1>3, <1>4, <1>5
<1>6. ASSUME NEW y \in Items, ~Absent("list", y), Absent("list", x),
             list' = ListInsertAfter(list, y, x), Keep("list", PlaceIn("list", y) + 1, x)
      PROVE  QueuesInv'
  <2>1. PlaceIn("list", y) \in 0..Len(s) /\ y = Stop(s, PlaceIn("list", y))
    BY <1>1, <1>2, <1>3, <1>6
  <2>2. QED
    BY <1>4, <1>6, <2>1
<1>7. CASE /\ ~Absent("list", x)
           /\ list' = ListRemove(list, x)
           /\ order' = [order EXCEPT !.list = RemoveAt(@, PlaceIn("list", x))]
  <2> DEFINE i == PlaceIn("list", x)
             t == RemoveAt(s, i)
  <2>1. i \in 1..Len(s) /\ s[i] = x
    BY <1>2, <1>7
  <2>2. order' = [order EXCEPT !.list = t]
    BY <1>7 DEF s
  <2> HIDE DEF i
  <2>3. list' = ListRemove(list, s[i])
    BY <1>7, <2>1
  <2>4. QueueOK(list', t)
    BY <1>1, <2>1, <2>3, RemoveOK
  <2> HIDE DEF t
  <2>5. QED
    BY <2>2, <2>4, OneListChanges
<1>8. QED
  BY <1>5, <1>6, <1>7 DEF s

LEMMA QueuesInitInv == QueuesInit => QueuesInv
<1> SUFFICES ASSUME QueuesInit
             PROVE  QueuesInv
  OBVIOUS
<1>1. order.tailq = <<>> /\ order.list = <<>> /\ order \in [tailq : Seq(Items), list : Seq(Items)]
  BY DEF QueuesInit
<1>2. /\ Unlinked \in QueueRecords /\ Unlinked.next[HeadLink] = None /\ Unlinked.last = HeadLink
  BY DEF Unlinked, QueueRecords
<1>3. \A i \in 0..Len(<<>>) : i = 0
  OBVIOUS
<1>4. Stop(<<>>, 0) = HeadLink /\ Stop(<<>>, 0 + 1) = None /\ Len(<<>>) = 0
  BY DEF Stop
<1>5. QueueOK(Unlinked, <<>>)
  BY <1>2, <1>3, <1>4 DEF QueueOK
<1>6. QED
  BY <1>1, <1>2, <1>4, <1>5 DEF QueuesInit, QueuesInv

(* The invariant of a TAILQ and a LIST holds for any items, queues of any  *)
(* length, and any order of insertions and removals.                       *)
THEOREM QueuesInvariance == QueuesSpec => []QueuesInv
<1>1. QueuesInit => QueuesInv
  BY QueuesInitInv
<1>2. QueuesInv /\ [QueuesNext]_queuesVars => QueuesInv'
  <2>1. QueuesInv /\ UNCHANGED queuesVars => QueuesInv'
    BY DEF QueuesInv, QueueOK, QueueRecords, Stop, queuesVars
  <2>2. QED
    BY <2>1, QueuesTailqStep, QueuesListStep DEF QueuesNext
<1>3. QED
  BY <1>1, <1>2, PTL DEF QueuesSpec

(* queue.h: forward and backward links are those of the sequence that the  *)
(* insertions and removals make, and the last link of a tail queue names   *)
(* its last item, after removals at the ends and in the middle.            *)
THEOREM QueuesLinkedHolds == QueuesSpec => []QueuesLinked
<1>1. QueuesInv => QueuesLinked
  BY QueuesInvLinked
<1>2. QED
  BY <1>1, QueuesInvariance, PTL

----------------------------------------------------------------------------
(* elog.c: who owns which descriptor.                                      *)

Owners == {"std", "free", "log", "socket", "other"}

LogRecords ==
  [level : Int, fd : {STDOUT_FILENO} \cup 3..MaxFd, dst : {"console", "file", "syslog"},
   sock : {-1} \cup 3..MaxFd, facility : BOOLEAN, fds : [0..MaxFd -> Owners],
   lost : BOOLEAN]

(* The standard descriptors stay what they are; the log holds log_fd at     *)
(* most; and until it has lost it, both numbers name what it opened.        *)
FdsOK(fds, fd, sock, lost) ==
  /\ fds \in [0..MaxFd -> Owners]
  /\ fd \in {STDOUT_FILENO} \cup 3..MaxFd /\ sock \in {-1} \cup 3..MaxFd
  /\ \A d \in 0..MaxFd : fds[d] = "std" <=> d <= 2
  /\ \A d \in 0..MaxFd : fds[d] = "log" => d = fd
  /\ ~lost => /\ fd # STDOUT_FILENO => fds[fd] = "log"
              /\ sock >= 0 => fds[sock] = "socket"

LogOK(l) == l \in LogRecords /\ FdsOK(l.fds, l.fd, l.sock, l.lost)

USE DEF STDOUT_FILENO, LOG_LEVEL_DEBUG, LOG_LEVEL_INFO, LOG_LEVEL_WARN, LOG_LEVEL_ERROR

(* The number that open() gives is none of the standard ones.              *)
LEMMA LowestFree ==
  ASSUME NEW fds \in [0..MaxFd -> Owners], FreeFd(fds) # {},
         \A d \in 0..MaxFd : fds[d] = "std" <=> d <= 2
  PROVE  Min(FreeFd(fds)) \in 3..MaxFd /\ fds[Min(FreeFd(fds))] = "free"
<1>1. FreeFd(fds) \subseteq Nat /\ \A d \in FreeFd(fds) : d \in 3..MaxFd /\ fds[d] = "free"
  BY ElogAssumption DEF FreeFd
<1>2. Min(FreeFd(fds)) \in FreeFd(fds)
  BY <1>1, LeastOf
<1>3. QED
  BY <1>1, <1>2

Closed(fds, d) == [fds EXCEPT ![d] = "free"]

(* A number is closed.  If it is one that the log uses, the log either     *)
(* forgets it or has lost it.                                              *)
LEMMA Freed ==
  ASSUME NEW fds, NEW fd, NEW sock, NEW lost \in BOOLEAN, FdsOK(fds, fd, sock, lost), NEW d \in 3..MaxFd
  PROVE  LET free == Closed(fds, d)
         IN /\ d = fd => /\ FdsOK(free, STDOUT_FILENO, sock, lost)
                         /\ FdsOK(free, fd, sock, TRUE)
                         /\ \A k \in 0..MaxFd : free[k] # "log"
            /\ d = sock => FdsOK(free, fd, -1, lost)
            /\ fds[d] = "other" => FdsOK(free, fd, sock, lost)
<1> DEFINE free == Closed(fds, d)
<1>1. /\ free \in [0..MaxFd -> Owners] /\ d \in 0..MaxFd /\ free[d] = "free"
      /\ \A k \in 0..MaxFd : k # d => free[k] = fds[k]
  BY ElogAssumption DEF FdsOK, Owners, Closed
<1>2. /\ \A k \in 0..MaxFd : free[k] = "std" <=> k <= 2
      /\ \A k \in 0..MaxFd : free[k] = "log" => k = fd /\ k # d
  BY <1>1 DEF FdsOK
<1>3. fd \in 0..MaxFd /\ (sock >= 0 => sock \in 0..MaxFd)
  BY ElogAssumption DEF FdsOK
<1>4. ~lost /\ sock >= 0 => fds[sock] = "socket"
  BY DEF FdsOK
<1>5. ~lost /\ fd # STDOUT_FILENO => fds[fd] = "log"
  BY DEF FdsOK
<1> HIDE DEF free
<1>6. ASSUME d = fd
      PROVE  /\ FdsOK(free, STDOUT_FILENO, sock, lost)
             /\ FdsOK(free, fd, sock, TRUE)
             /\ \A k \in 0..MaxFd : free[k] # "log"
  <2>1. \A k \in 0..MaxFd : free[k] # "log"
    BY <1>2, <1>6
  <2>2. ~lost /\ sock >= 0 => free[sock] = "socket"
    BY <1>1, <1>3, <1>4, <1>5, <1>6
  <2>3. QED
    BY <1>1, <1>2, <2>1, <2>2 DEF FdsOK
<1>7. ASSUME d = sock
      PROVE  FdsOK(free, fd, -1, lost)
  <2>1. ~lost /\ fd # STDOUT_FILENO => free[fd] = "log"
    BY <1>1, <1>3, <1>4, <1>5, <1>7
  <2>2. QED
    BY <1>1, <1>2, <2>1 DEF FdsOK
<1>8. ASSUME fds[d] = "other"
      PROVE  FdsOK(free, fd, sock, lost)
  <2>1. /\ ~lost /\ fd # STDOUT_FILENO => free[fd] = "log"
        /\ ~lost /\ sock >= 0 => free[sock] = "socket"
    BY <1>1, <1>3, <1>4, <1>5, <1>8
  <2>2. QED
    BY <1>1, <1>2, <2>1 DEF FdsOK
<1>9. QED
  BY <1>6, <1>7, <1>8 DEF free

(* A number is opened, by the log or by the process.                       *)
LEMMA Given ==
  ASSUME NEW fds, NEW fd, NEW sock, NEW lost \in BOOLEAN, FdsOK(fds, fd, sock, lost), FreeFd(fds) # {}
  PROVE  LET m == Min(FreeFd(fds))
         IN /\ m \in 3..MaxFd
            /\ FdsOK(Opened(fds, "other"), fd, sock, lost)
            /\ FdsOK(Opened(fds, "socket"), fd, m, lost)
            /\ (\A k \in 0..MaxFd : fds[k] # "log") => FdsOK(Opened(fds, "log"), m, sock, lost)
<1> DEFINE m == Min(FreeFd(fds))
<1>1. fds \in [0..MaxFd -> Owners] /\ \A d \in 0..MaxFd : fds[d] = "std" <=> d <= 2
  BY DEF FdsOK
<1>2. m \in 3..MaxFd /\ fds[m] = "free"
  BY <1>1, LowestFree
<1> HIDE DEF m
<1>3. ASSUME NEW who \in {"other", "socket", "log"}
      PROVE  LET o == Opened(fds, who)
             IN /\ o \in [0..MaxFd -> Owners] /\ o[m] = who
                /\ \A k \in 0..MaxFd : k # m => o[k] = fds[k]
                /\ \A k \in 0..MaxFd : o[k] = "std" <=> k <= 2
  <2> DEFINE o == [fds EXCEPT ![m] = who]
  <2>1. Opened(fds, who) = o
    BY DEF Opened, m
  <2>2. /\ o \in [0..MaxFd -> Owners] /\ o[m] = who
        /\ \A k \in 0..MaxFd : k # m => o[k] = fds[k]
    BY <1>1, <1>2, ElogAssumption DEF Owners
  <2> HIDE DEF o
  <2>3. \A k \in 0..MaxFd : o[k] = "std" <=> k <= 2
    <3> TAKE k \in 0..MaxFd
    <3>1. CASE k = m
      BY <1>2, <2>2, <3>1
    <3>2. CASE k # m
      BY <1>1, <2>2, <3>2
    <3>3. QED
      BY <3>1, <3>2
  <2>4. QED
    BY <2>1, <2>2, <2>3
<1>4. /\ fd \in {STDOUT_FILENO} \cup 3..MaxFd /\ sock \in {-1} \cup 3..MaxFd
      /\ \A k \in 0..MaxFd : fds[k] = "log" => k = fd
      /\ ~lost /\ fd # STDOUT_FILENO => fds[fd] = "log"
      /\ ~lost /\ sock >= 0 => fds[sock] = "socket"
  BY DEF FdsOK
<1>5. fd \in 0..MaxFd /\ (sock >= 0 => sock \in 0..MaxFd) /\ m \in 0..MaxFd /\ m >= 0 /\ m # STDOUT_FILENO
  BY <1>2, <1>4, ElogAssumption
<1>6. FdsOK(Opened(fds, "other"), fd, sock, lost)
  <2> DEFINE o == Opened(fds, "other")
  <2>1. /\ o \in [0..MaxFd -> Owners] /\ o[m] = "other" /\ \A k \in 0..MaxFd : k # m => o[k] = fds[k]
        /\ \A k \in 0..MaxFd : o[k] = "std" <=> k <= 2
    BY <1>3
  <2> HIDE DEF o
  <2>2. \A k \in 0..MaxFd : o[k] = "log" => k = fd
    BY <1>4, <2>1
  <2>3. ~lost => (fd # STDOUT_FILENO => o[fd] = "log") /\ (sock >= 0 => o[sock] = "socket")
    BY <1>2, <1>4, <1>5, <2>1
  <2>4. FdsOK(o, fd, sock, lost)
    BY <1>4, <2>1, <2>2, <2>3 DEF FdsOK
  <2>5. QED
    BY <2>4 DEF o
<1>7. FdsOK(Opened(fds, "socket"), fd, m, lost)
  <2> DEFINE o == Opened(fds, "socket")
  <2>1. /\ o \in [0..MaxFd -> Owners] /\ o[m] = "socket" /\ \A k \in 0..MaxFd : k # m => o[k] = fds[k]
        /\ \A k \in 0..MaxFd : o[k] = "std" <=> k <= 2
    BY <1>3
  <2> HIDE DEF o
  <2>2. \A k \in 0..MaxFd : o[k] = "log" => k = fd
    BY <1>4, <2>1
  <2>3. ~lost => (fd # STDOUT_FILENO => o[fd] = "log") /\ (m >= 0 => o[m] = "socket")
    BY <1>2, <1>4, <1>5, <2>1
  <2>4. FdsOK(o, fd, m, lost)
    BY <1>2, <1>4, <2>1, <2>2, <2>3 DEF FdsOK
  <2>5. QED
    BY <2>4 DEF o
<1>8. ASSUME \A k \in 0..MaxFd : fds[k] # "log"
      PROVE  FdsOK(Opened(fds, "log"), m, sock, lost)
  <2> DEFINE o == Opened(fds, "log")
  <2>1. /\ o \in [0..MaxFd -> Owners] /\ o[m] = "log" /\ \A k \in 0..MaxFd : k # m => o[k] = fds[k]
        /\ \A k \in 0..MaxFd : o[k] = "std" <=> k <= 2
    BY <1>3
  <2> HIDE DEF o
  <2>2. \A k \in 0..MaxFd : o[k] = "log" => k = m
    BY <1>8, <2>1
  <2>3. ~lost => (m # STDOUT_FILENO => o[m] = "log") /\ (sock >= 0 => o[sock] = "socket")
    BY <1>2, <1>4, <1>5, <2>1
  <2>4. FdsOK(o, m, sock, lost)
    BY <1>2, <1>4, <2>1, <2>2, <2>3 DEF FdsOK
  <2>5. QED
    BY <2>4 DEF o
<1>9. QED
  BY <1>2, <1>6, <1>7, <1>8 DEF m

LEMMA SetFileOK ==
  ASSUME NEW l, LogOK(l), NEW ok \in BOOLEAN, ok => FreeFd(l.fds) # {}
  PROVE  LogOK(LogSetFile(l, ok))
<1> DEFINE held == l.fd # STDOUT_FILENO
           fds == IF held THEN Closed(l.fds, l.fd) ELSE l.fds
           m == Min(FreeFd(fds))
<1>1. l \in LogRecords /\ FdsOK(l.fds, l.fd, l.sock, l.lost) /\ l.lost \in BOOLEAN
  BY DEF LogOK, LogRecords
<1>2. LogSetFile(l, ok) = IF ok THEN [l EXCEPT !.fds = Opened(fds, "log"), !.fd = m, !.dst = "file"]
                          ELSE [l EXCEPT !.fds = fds, !.lost = @ \/ held]
  BY <1>1 DEF LogSetFile, LogRecords, Opened, Closed
<1>3. /\ FdsOK(fds, STDOUT_FILENO, l.sock, l.lost) /\ FdsOK(fds, l.fd, l.sock, l.lost \/ held)
      /\ \A k \in 0..MaxFd : fds[k] # "log"
  <2>1. CASE held
    <3>1. l.fd \in 3..MaxFd
      BY <1>1, <2>1 DEF FdsOK
    <3>2. (l.lost \/ held) = TRUE /\ fds = Closed(l.fds, l.fd)
      BY <2>1
    <3> DEFINE c == Closed(l.fds, l.fd)
    <3>3. /\ FdsOK(c, STDOUT_FILENO, l.sock, l.lost)
          /\ FdsOK(c, l.fd, l.sock, TRUE)
          /\ \A k \in 0..MaxFd : c[k] # "log"
      BY <1>1, <3>1, Freed
    <3>4. fds = c /\ l.fd # STDOUT_FILENO
      BY <3>1, <3>2
    <3> HIDE DEF c, fds
    <3>5. QED
      BY <3>2, <3>3, <3>4, <2>1
  <2>2. CASE ~held
    <3>1. (l.lost \/ held) = l.lost /\ fds = l.fds /\ l.fd = STDOUT_FILENO
      BY <1>1, <2>2
    <3>2. \A k \in 0..MaxFd : fds[k] # "log"
      BY <1>1, <3>1 DEF FdsOK
    <3>3. QED
      BY <1>1, <3>1, <3>2
  <2>3. QED
    BY <2>1, <2>2
<1>4. ok => FreeFd(fds) # {}
  <2>1. FreeFd(l.fds) \subseteq FreeFd(fds)
    BY <1>1 DEF FreeFd, FdsOK, Closed
  <2>2. QED
    BY <2>1
<1> HIDE DEF fds, m, held
<1>5. CASE ok
  <2>1. FdsOK(Opened(fds, "log"), m, l.sock, l.lost)
    BY <1>1, <1>3, <1>4, <1>5, Given DEF m
  <2>2. LET r == [l EXCEPT !.fds = Opened(fds, "log"), !.fd = m, !.dst = "file"]
        IN /\ r \in LogRecords /\ r.fds = Opened(fds, "log") /\ r.fd = m /\ r.sock = l.sock
           /\ r.lost = l.lost
    BY <1>1, <2>1 DEF LogRecords, FdsOK
  <2>3. QED
    BY <1>1, <1>2, <1>5, <2>1, <2>2 DEF LogOK
<1>6. CASE ~ok
  <2>1. LET r == [l EXCEPT !.fds = fds, !.lost = @ \/ held]
        IN /\ r \in LogRecords /\ r.fds = fds /\ r.fd = l.fd /\ r.sock = l.sock
           /\ r.lost = (l.lost \/ held)
    BY <1>1, <1>3 DEF LogRecords, FdsOK
  <2>2. QED
    BY <1>1, <1>2, <1>3, <1>6, <2>1 DEF LogOK
<1>7. QED
  BY <1>5, <1>6

LEMMA SetSyslogOK ==
  ASSUME NEW l, LogOK(l), NEW how \in SyslogOutcomes,
         how \in {"facility", "ok"} => FreeFd(l.fds) # {}
  PROVE  LogOK(LogSetSyslog(l, how))
<1>1. l \in LogRecords /\ FdsOK(l.fds, l.fd, l.sock, l.lost) /\ l.lost \in BOOLEAN
  BY DEF LogOK, LogRecords
<1>2. CASE how = "arguments"
  BY <1>2 DEF LogSetSyslog, SyslogOpen
<1>3. CASE how = "socket"
  <2>1. LogSetSyslog(l, how) = [l EXCEPT !.sock = -1, !.dst = "syslog"]
    BY <1>1, <1>3 DEF LogSetSyslog, SyslogOpen, LogRecords
  <2>2. LET r == [l EXCEPT !.sock = -1, !.dst = "syslog"]
        IN /\ r \in LogRecords /\ r.fds = l.fds /\ r.fd = l.fd /\ r.sock = -1
           /\ r.lost = l.lost
    BY <1>1 DEF LogRecords
  <2>3. FdsOK(l.fds, l.fd, -1, l.lost)
    BY <1>1 DEF FdsOK
  <2>4. QED
    BY <1>1, <2>1, <2>2, <2>3 DEF LogOK
<1>4. CASE how \in {"facility", "ok"}
  <2> DEFINE m == Min(FreeFd(l.fds))
             fac == l.facility \/ how = "ok"
  <2>1. m \in 3..MaxFd /\ FdsOK(Opened(l.fds, "socket"), l.fd, m, l.lost)
    BY <1>1, <1>4, Given
  <2>2. LogSetSyslog(l, how)
          = [l EXCEPT !.sock = m, !.fds = Opened(l.fds, "socket"), !.facility = fac, !.dst = "syslog"]
    BY <1>1, <1>4 DEF LogSetSyslog, SyslogOpen, LogRecords
  <2>3. fac \in BOOLEAN
    OBVIOUS
  <2> HIDE DEF m, fac
  <2>4. LET r == [l EXCEPT !.sock = m, !.fds = Opened(l.fds, "socket"), !.facility = fac, !.dst = "syslog"]
        IN /\ r \in LogRecords /\ r.fds = Opened(l.fds, "socket") /\ r.fd = l.fd /\ r.sock = m
           /\ r.lost = l.lost
    BY <1>1, <2>1, <2>3 DEF LogRecords, FdsOK
  <2>5. QED
    BY <1>1, <2>1, <2>2, <2>4 DEF LogOK
<1>5. QED
  BY <1>2, <1>3, <1>4 DEF SyslogOutcomes

LEMMA CloseOK ==
  ASSUME NEW l, LogOK(l)
  PROVE  LogOK(LogClose(l))
<1>1. l \in LogRecords /\ FdsOK(l.fds, l.fd, l.sock, l.lost) /\ l.lost \in BOOLEAN
  BY DEF LogOK, LogRecords
<1>2. CASE l.dst = "syslog" /\ ~(l.sock < 0)
  <2> DEFINE fds == Closed(l.fds, l.sock)
  <2>1. LogClose(l) = [l EXCEPT !.fds = fds, !.sock = -1]
    BY <1>1, <1>2 DEF LogClose, SyslogClose, LogRecords, Closed
  <2>2. l.sock \in 3..MaxFd
    BY <1>1, <1>2 DEF FdsOK
  <2>3. FdsOK(fds, l.fd, -1, l.lost)
    BY <1>1, <2>2, Freed
  <2> HIDE DEF fds
  <2>4. LET r == [l EXCEPT !.fds = fds, !.sock = -1]
        IN /\ r \in LogRecords /\ r.fds = fds /\ r.fd = l.fd /\ r.sock = -1
           /\ r.lost = l.lost
    BY <1>1, <2>3 DEF LogRecords, FdsOK
  <2>5. QED
    BY <1>1, <2>1, <2>3, <2>4 DEF LogOK
<1>3. CASE l.dst # "syslog" /\ ~(l.fd < 3)
  <2> DEFINE fds == Closed(l.fds, l.fd)
  <2>1. LogClose(l) = [l EXCEPT !.fds = fds, !.fd = STDOUT_FILENO]
    BY <1>1, <1>3 DEF LogClose, LogRecords, Closed
  <2>2. l.fd \in 3..MaxFd
    BY <1>1, <1>3 DEF FdsOK
  <2>3. FdsOK(fds, STDOUT_FILENO, l.sock, l.lost)
    BY <1>1, <2>2, Freed
  <2> HIDE DEF fds
  <2>4. LET r == [l EXCEPT !.fds = fds, !.fd = STDOUT_FILENO]
        IN /\ r \in LogRecords /\ r.fds = fds /\ r.fd = STDOUT_FILENO /\ r.sock = l.sock
           /\ r.lost = l.lost
    BY <1>1, <2>3 DEF LogRecords, FdsOK
  <2>5. QED
    BY <1>1, <2>1, <2>3, <2>4 DEF LogOK
<1>4. CASE LogClose(l) = l
  BY <1>4
<1>5. QED
  BY <1>2, <1>3, <1>4 DEF LogClose, SyslogClose

LEMMA SetLevelOK ==
  ASSUME NEW l, LogOK(l), NEW n \in LevelArgs
  PROVE  LogOK(LogSetLevel(l, n))
<1>1. l \in LogRecords /\ FdsOK(l.fds, l.fd, l.sock, l.lost) /\ n \in Int
  BY ElogAssumption DEF LogOK
<1> DEFINE v == IF l.level < LOG_LEVEL_DEBUG THEN LOG_LEVEL_DEBUG
                ELSE IF l.level > LOG_LEVEL_ERROR THEN LOG_LEVEL_ERROR ELSE n
           r == [l EXCEPT !.level = v]
<1>2. LogSetLevel(l, n) = r
  BY <1>1 DEF LogSetLevel, LogRecords
<1>3. v \in Int
  BY <1>1
<1> HIDE DEF v
<1>4. r \in LogRecords /\ r.fds = l.fds /\ r.fd = l.fd /\ r.sock = l.sock /\ r.lost = l.lost
  BY <1>1, <1>3 DEF LogRecords
<1>5. QED
  BY <1>1, <1>2, <1>4 DEF LogOK

(* What the rest of the process opens and closes.                          *)
LEMMA OthersOK ==
  ASSUME NEW l, LogOK(l), NEW fds, FdsOK(fds, l.fd, l.sock, l.lost)
  PROVE  LogOK([l EXCEPT !.fds = fds])
<1>1. LET r == [l EXCEPT !.fds = fds]
      IN /\ r \in LogRecords /\ r.fds = fds /\ r.fd = l.fd /\ r.sock = l.sock
         /\ r.lost = l.lost
  BY DEF LogOK, LogRecords, FdsOK
<1>2. QED
  BY <1>1 DEF LogOK

LogInv == LogOK(lg)

(* Where a line of the four calls goes.                                    *)
LEMMA LogInvProperty == LogInv => LogKeepsItsDescriptors
<1> SUFFICES ASSUME LogInv
             PROVE  LogKeepsItsDescriptors
  OBVIOUS
<1> USE DEF LogInv
<1>1. /\ lg.fd \in 0..MaxFd /\ lg.fds[lg.fd] \in Owners
      /\ ~lg.lost => lg.fds[lg.fd] \in {"std", "log"} /\ (lg.sock >= 0 => lg.fds[lg.sock] = "socket")
  BY ElogAssumption DEF LogOK, LogRecords, FdsOK, Owners
<1> DEFINE Kept(w) == w.to \in {"std", "log", "socket", "dropped"} /\ (w.ret = 0 => w.to = "dropped")
<1>2. ASSUME ~lg.lost, NEW sent \in BOOLEAN, NEW n \in Int
      PROVE  Kept(LogByLevel(lg, n, sent))
  <2>1. lg.level \in Int /\ lg.sock \in Int
    BY ElogAssumption DEF LogOK, LogRecords
  <2>2. CASE n < lg.level
    <3>1. LogByLevel(lg, n, sent) = [to |-> "dropped", ret |-> 1]
      BY <2>1, <2>2 DEF LogByLevel
    <3>2. QED
      BY <3>1
  <2>3. CASE ~(n < lg.level) /\ lg.dst = "syslog"
    BY <1>1, <1>2, <2>1, <2>3 DEF LogByLevel, SyslogWrite
  <2>4. CASE ~(n < lg.level) /\ lg.dst # "syslog"
    BY <1>1, <1>2, <2>1, <2>4 DEF LogByLevel
  <2>5. QED
    BY <2>2, <2>3, <2>4
<1>3. ASSUME ~lg.lost, NEW sent \in BOOLEAN
      PROVE  /\ Kept(log_debug(lg, sent)) /\ Kept(log_info(lg, sent))
             /\ Kept(log_warn(lg, sent)) /\ Kept(log_error(lg, sent))
  <2> HIDE DEF Kept
  <2>1. QED
    BY <1>2, <1>3 DEF log_debug, log_info, log_warn, log_error
<1>4. QED
  BY <1>1, <1>3 DEF LogKeepsItsDescriptors, LogOK, FdsOK

(* The invariant of the log holds for any number of descriptors and any    *)
(* arguments of log_set_level().                                           *)
THEOREM LogInvariance == ElogSpec => []LogInv
<1>1. ElogInit => LogInv
  <2> SUFFICES ASSUME ElogInit
               PROVE  LogInv
    OBVIOUS
  <2> DEFINE fds == [d \in 0..MaxFd |-> IF d <= 2 THEN "std" ELSE "free"]
  <2>1. /\ lg.fds = fds /\ lg.fd = STDOUT_FILENO /\ lg.sock = -1 /\ lg.lost = FALSE
    BY DEF ElogInit, ElogStart
  <2>2. /\ fds \in [0..MaxFd -> Owners]
        /\ \A d \in 0..MaxFd : fds[d] = "std" <=> d <= 2
        /\ \A d \in 0..MaxFd : fds[d] # "log"
    BY DEF Owners
  <2>3. lg \in LogRecords
    BY <2>2 DEF ElogInit, ElogStart, LogRecords
  <2> HIDE DEF fds
  <2>4. FdsOK(fds, STDOUT_FILENO, -1, FALSE)
    BY <2>2 DEF FdsOK
  <2>5. FdsOK(lg.fds, lg.fd, lg.sock, lg.lost)
    BY <2>1, <2>4
  <2>6. QED
    BY <2>3, <2>5 DEF LogInv, LogOK
<1>2. LogInv /\ [ElogNext]_lg => LogInv'
  <2> SUFFICES ASSUME LogInv, [ElogNext]_lg
               PROVE  LogInv'
    OBVIOUS
  <2> USE DEF LogInv
  <2>1. CASE ElogSetFile
    BY <2>1, SetFileOK DEF ElogSetFile
  <2>2. CASE ElogSetSyslog
    BY <2>2, SetSyslogOK DEF ElogSetSyslog
  <2>3. CASE ElogClose
    BY <2>3, CloseOK DEF ElogClose
  <2>4. CASE ElogSetLevel
    BY <2>4, SetLevelOK DEF ElogSetLevel
  <2>5. CASE OtherOpens
    <3>1. FdsOK(Opened(lg.fds, "other"), lg.fd, lg.sock, lg.lost)
      BY <2>5, Given DEF OtherOpens, LogOK, LogRecords
    <3>2. lg' = [lg EXCEPT !.fds = Opened(lg.fds, "other")]
      BY <2>5 DEF OtherOpens, LogOK, LogRecords
    <3>3. QED
      BY <3>1, <3>2, OthersOK
  <2>6. CASE OtherCloses
    <3>1. PICK d \in 0..MaxFd : lg.fds[d] = "other" /\ lg' = [lg EXCEPT !.fds[d] = "free"]
      BY <2>6 DEF OtherCloses
    <3>2. d \in 3..MaxFd
      <4>1. ~(d <= 2)
        BY <3>1 DEF LogOK, FdsOK
      <4>2. QED
        BY <4>1, ElogAssumption
    <3>3. FdsOK(Closed(lg.fds, d), lg.fd, lg.sock, lg.lost)
      <4>1. FdsOK(lg.fds, lg.fd, lg.sock, lg.lost) /\ lg.lost \in BOOLEAN
        BY DEF LogOK, LogRecords
      <4>2. QED
        BY <3>1, <3>2, <4>1, Freed
    <3>4. lg' = [lg EXCEPT !.fds = Closed(lg.fds, d)]
      BY <3>1 DEF LogOK, LogRecords, Closed
    <3>5. QED
      BY <3>3, <3>4, OthersOK
  <2>7. CASE UNCHANGED lg
    BY <2>7
  <2>8. QED
    BY <2>1, <2>2, <2>3, <2>4, <2>5, <2>6, <2>7 DEF ElogNext
<1>3. QED
  BY <1>1, <1>2, PTL DEF ElogSpec

(* elog.c: the log holds one file at most; unless an open() failed after   *)
(* the old descriptor was closed, it closes none but its own, and a line   *)
(* goes to standard output, its file, its socket or nowhere; with result 0 *)
(* it went nowhere.                                                        *)
THEOREM LogKeepsItsDescriptorsHolds == ElogSpec => []LogKeepsItsDescriptors
<1>1. LogInv => LogKeepsItsDescriptors
  BY LogInvProperty
<1>2. QED
  BY <1>1, LogInvariance, PTL

----------------------------------------------------------------------------
(* eproperty.c: what the handler gets of a line.                           *)

(* A non-empty set of natural numbers up to b has a greatest one. *)
LEMMA GreatestOf ==
  ASSUME NEW b \in Nat, NEW S, S \subseteq 0..b, S # {}
  PROVE  Max(S) \in S /\ \A n \in S : Max(S) >= n
<1> DEFINE T == {b - n : n \in S}
<1>1. T \subseteq Nat /\ T # {}
  <2>1. \A n \in S : n \in 0..b
    OBVIOUS
  <2>2. \A n \in 0..b : b - n \in Nat
    OBVIOUS
  <2>3. QED
    BY <2>1, <2>2
<1>2. Min(T) \in T /\ \A t \in T : Min(T) <= t
  BY <1>1, LeastOf
<1>3. PICK m \in S : Min(T) = b - m
  BY <1>2
<1>4. \A n \in S : b - m <= b - n
  BY <1>2, <1>3
<1>5. \A n \in S : m >= n
  BY <1>4
<1>6. QED
  BY <1>5 DEF Max

(* What a part of a line is, and a part of a part. *)
LEMMA PartOf ==
  ASSUME NEW s \in Seq(Chars), NEW i \in 1..Len(s) + 1, NEW j \in i - 1..Len(s)
  PROVE  /\ SubSeq(s, i, j) \in Seq(Chars)
         /\ Len(SubSeq(s, i, j)) = j - i + 1
         /\ \A k \in 1..j - i + 1 : SubSeq(s, i, j)[k] = s[i + k - 1]
<1>1. Len(s) \in Nat /\ i \in Int /\ j \in Int
  OBVIOUS
<1>2. \A k \in i..j : s[k] \in Chars
  BY <1>1
<1>3. /\ SubSeq(s, i, j) \in Seq(Chars)
      /\ Len(SubSeq(s, i, j)) = IF i <= j THEN j - i + 1 ELSE 0
      /\ \A k \in 1..j - i + 1 : SubSeq(s, i, j)[k] = s[i + k - 1]
  BY <1>1, <1>2, SubSeqProperties
<1>4. QED
  BY <1>1, <1>3

LEMMA PartOfPart ==
  ASSUME NEW s \in Seq(Chars), NEW i \in 1..Len(s) + 1, NEW j \in i - 1..Len(s),
         NEW k \in 1..j - i + 2, NEW l \in k - 1..j - i + 1
  PROVE  SubSeq(SubSeq(s, i, j), k, l) = SubSeq(s, i + k - 1, i + l - 1)
<1> DEFINE a == SubSeq(s, i, j)
           b == SubSeq(a, k, l)
           c == SubSeq(s, i + k - 1, i + l - 1)
<1>1. Len(s) \in Nat /\ i \in Int /\ j \in Int /\ k \in Int /\ l \in Int
  OBVIOUS
<1>2. a \in Seq(Chars) /\ Len(a) = j - i + 1 /\ \A m \in 1..j - i + 1 : a[m] = s[i + m - 1]
  BY PartOf
<1>3. k \in 1..Len(a) + 1 /\ l \in k - 1..Len(a)
  BY <1>1, <1>2
<1>4. i + k - 1 \in 1..Len(s) + 1 /\ i + l - 1 \in (i + k - 1) - 1..Len(s)
  BY <1>1
<1> HIDE DEF a
<1>5. b \in Seq(Chars) /\ Len(b) = l - k + 1 /\ \A m \in 1..l - k + 1 : b[m] = a[k + m - 1]
  BY <1>2, <1>3, PartOf
<1>6. /\ c \in Seq(Chars) /\ Len(c) = (i + l - 1) - (i + k - 1) + 1
      /\ \A m \in 1..(i + l - 1) - (i + k - 1) + 1 : c[m] = s[(i + k - 1) + m - 1]
  BY <1>4, PartOf
<1> HIDE DEF b, c
<1>7. (i + l - 1) - (i + k - 1) + 1 = l - k + 1
  BY <1>1
<1>8. \A m \in 1..l - k + 1 : b[m] = c[m]
  <2> TAKE m \in 1..l - k + 1
  <2>1. k + m - 1 \in 1..j - i + 1 /\ i + (k + m - 1) - 1 = (i + k - 1) + m - 1
    BY <1>1
  <2>2. a[k + m - 1] = s[(i + k - 1) + m - 1]
    BY <1>2, <2>1
  <2>3. QED
    BY <1>5, <1>6, <1>7, <2>2
<1>9. b = c
  BY <1>5, <1>6, <1>7, <1>8, SeqEqual
<1>10. QED
  BY <1>9 DEF a, b, c

(* strspn(): the length of the longest prefix of the characters cs.        *)
LEMMA Leading ==
  ASSUME NEW s \in Seq(Chars), NEW cs
  PROVE  \E p \in 1..Len(s) + 1 :
           /\ DropLeading(s, cs) = SubSeq(s, p, Len(s))
           /\ \A n \in 1..p - 1 : s[n] \in cs
           /\ p <= Len(s) => s[p] \notin cs
<1> DEFINE S == {i \in DOMAIN s : s[i] \notin cs} \cup {Len(s) + 1}
<1>1. Len(s) \in Nat /\ DOMAIN s = 1..Len(s)
  OBVIOUS
<1>2. S \subseteq Nat /\ S # {} /\ S \subseteq 1..Len(s) + 1
  BY <1>1
<1>3. Min(S) \in S /\ \A n \in S : Min(S) <= n
  BY <1>2, LeastOf
<1>4. DropLeading(s, cs) = SubSeq(s, Min(S), Len(s))
  BY DEF DropLeading
<1> DEFINE p == Min(S)
<1> HIDE DEF p
<1>5. p \in S /\ (\A n \in S : p <= n) /\ DropLeading(s, cs) = SubSeq(s, p, Len(s))
  BY <1>3, <1>4 DEF p
<1>6. p \in 1..Len(s) + 1
  BY <1>2, <1>5
<1>7. \A n \in 1..p - 1 : s[n] \in cs
  BY <1>1, <1>5, <1>6
<1>8. p <= Len(s) => s[p] \notin cs
  BY <1>1, <1>5
<1>9. QED
  BY <1>5, <1>6, <1>7, <1>8

(* ... and of the longest suffix.                                          *)
LEMMA Trailing ==
  ASSUME NEW s \in Seq(Chars), NEW cs
  PROVE  \E q \in 0..Len(s) :
           /\ DropTrailing(s, cs) = SubSeq(s, 1, q)
           /\ \A n \in q + 1..Len(s) : s[n] \in cs
           /\ q >= 1 => s[q] \notin cs
<1> DEFINE S == {i \in DOMAIN s : s[i] \notin cs} \cup {0}
<1>1. Len(s) \in Nat /\ DOMAIN s = 1..Len(s)
  OBVIOUS
<1>2. S # {} /\ S \subseteq 0..Len(s)
  BY <1>1
<1>3. Max(S) \in S /\ \A n \in S : Max(S) >= n
  BY <1>1, <1>2, GreatestOf
<1>4. DropTrailing(s, cs) = SubSeq(s, 1, Max(S))
  BY DEF DropTrailing
<1> DEFINE q == Max(S)
<1> HIDE DEF q
<1>5. q \in S /\ (\A n \in S : q >= n) /\ DropTrailing(s, cs) = SubSeq(s, 1, q)
  BY <1>3, <1>4 DEF q
<1>6. q \in 0..Len(s)
  BY <1>2, <1>5
<1>7. \A n \in q + 1..Len(s) : s[n] \in cs
  BY <1>1, <1>5, <1>6
<1>8. q >= 1 => s[q] \notin cs
  BY <1>1, <1>5, <1>6
<1>9. QED
  BY <1>5, <1>6, <1>7, <1>8

(* trim_str() gives the part from the first character that is no space to  *)
(* the last that is no white space, or nothing.                             *)
LEMMA TrimPart ==
  ASSUME NEW s \in Seq(Chars)
  PROVE  \E p \in 1..Len(s) + 1 : \E q \in p - 1..Len(s) :
           /\ TrimStr(s) = SubSeq(s, p, q)
           /\ \A n \in 1..p - 1 : s[n] = "space"
           /\ \A n \in q + 1..Len(s) : s[n] \in Whites
           /\ p <= Len(s) => s[p] # "space"
           /\ p <= q => s[q] \notin Whites
<1>1. Len(s) \in Nat
  OBVIOUS
<1>2. PICK p \in 1..Len(s) + 1 :
           /\ DropLeading(s, {"space"}) = SubSeq(s, p, Len(s))
           /\ \A n \in 1..p - 1 : s[n] \in {"space"}
           /\ p <= Len(s) => s[p] \notin {"space"}
  BY Leading
<1> DEFINE d == SubSeq(s, p, Len(s))
<1>3. Len(s) \in p - 1..Len(s)
  BY <1>1
<1>4. /\ d \in Seq(Chars) /\ Len(d) = Len(s) - p + 1
      /\ \A k \in 1..Len(s) - p + 1 : d[k] = s[p + k - 1]
  BY <1>3, PartOf
<1> HIDE DEF d
<1>5. PICK m \in 0..Len(d) :
           /\ DropTrailing(d, Whites) = SubSeq(d, 1, m)
           /\ \A n \in m + 1..Len(d) : d[n] \in Whites
           /\ m >= 1 => d[m] \notin Whites
  BY <1>4, Trailing
<1> DEFINE q == p + m - 1
<1>6. q \in p - 1..Len(s) /\ m \in 1 - 1..Len(s) - p + 1 /\ 1 \in 1..Len(s) - p + 2
  BY <1>1, <1>4
<1>7. SubSeq(d, 1, m) = SubSeq(s, p + 1 - 1, p + m - 1)
  BY <1>3, <1>6, PartOfPart DEF d
<1>8. p + 1 - 1 = p
  OBVIOUS
<1>9. TrimStr(s) = SubSeq(s, p, q)
  BY <1>2, <1>5, <1>7, <1>8 DEF TrimStr, d
<1>10. \A n \in q + 1..Len(s) : s[n] \in Whites
  <2> TAKE n \in q + 1..Len(s)
  <2>1. n - p + 1 \in m + 1..Len(d) /\ n - p + 1 \in 1..Len(s) - p + 1 /\ p + (n - p + 1) - 1 = n
    BY <1>1, <1>4
  <2>2. QED
    BY <1>4, <1>5, <2>1
<1>11. p <= q => s[q] \notin Whites
  <2>1. p <= q => m >= 1 /\ m \in 1..Len(s) - p + 1
    BY <1>1, <1>4
  <2>2. QED
    BY <1>4, <1>5, <2>1
<1> HIDE DEF q
<1>12. QED
  BY <1>2, <1>6, <1>9, <1>10, <1>11

LEMMA PartWithin ==
  ASSUME NEW s \in Seq(Chars), NEW p \in 1..Len(s) + 1, NEW q \in p - 1..Len(s)
  PROVE  /\ \A n \in 1..p - 1 : s[n] = "space"
         /\ \A n \in q + 1..Len(s) : s[n] \in Whites
         /\ p <= q => s[p] # "space" /\ s[q] \notin Whites
         => Within(SubSeq(s, p, q), s)
<1> DEFINE w == SubSeq(s, p, q)
<1>1. Len(s) \in Nat /\ p \in Int /\ q \in Int
  OBVIOUS
<1>2. w \in Seq(Chars) /\ Len(w) = q - p + 1 /\ \A k \in 1..q - p + 1 : w[k] = s[p + k - 1]
  BY PartOf
<1> HIDE DEF w
<1> SUFFICES ASSUME \A n \in 1..p - 1 : s[n] = "space",
                    \A n \in q + 1..Len(s) : s[n] \in Whites,
                    p <= q => s[p] # "space" /\ s[q] \notin Whites
             PROVE  Within(w, s)
  BY DEF w
<1>3. w # <<>> => Head(w) # "space" /\ Last(w) \notin Whites
  <2> SUFFICES ASSUME w # <<>>
               PROVE  Head(w) # "space" /\ Last(w) \notin Whites
    OBVIOUS
  <2>1. Len(w) # 0 /\ Head(w) = w[1]
    BY <1>2
  <2>2. p <= q /\ 1 \in 1..q - p + 1 /\ q - p + 1 \in 1..q - p + 1
    BY <1>1, <1>2, <2>1
  <2>3. w[1] = s[p] /\ w[Len(w)] = s[q]
    <3>1. p + 1 - 1 = p /\ p + (q - p + 1) - 1 = q
      BY <1>1
    <3>2. QED
      BY <1>2, <2>2, <3>1
  <2>4. QED
    BY <2>1, <2>2, <2>3 DEF Last
<1>4. QED
  BY <1>3 DEF Within, w

LEMMA TrimWithin ==
  ASSUME NEW s \in Seq(Chars)
  PROVE  Within(TrimStr(s), s)
<1>1. PICK p \in 1..Len(s) + 1 : \E q \in p - 1..Len(s) :
           /\ TrimStr(s) = SubSeq(s, p, q)
           /\ \A n \in 1..p - 1 : s[n] = "space"
           /\ \A n \in q + 1..Len(s) : s[n] \in Whites
           /\ p <= Len(s) => s[p] # "space"
           /\ p <= q => s[q] \notin Whites
  BY TrimPart
<1>2. PICK q \in p - 1..Len(s) :
           /\ TrimStr(s) = SubSeq(s, p, q)
           /\ \A n \in 1..p - 1 : s[n] = "space"
           /\ \A n \in q + 1..Len(s) : s[n] \in Whites
           /\ p <= Len(s) => s[p] # "space"
           /\ p <= q => s[q] \notin Whites
  BY <1>1
<1>3. p <= q => s[p] # "space"
  BY <1>2
<1>4. QED
  BY <1>2, <1>3, PartWithin

(* trim_str() of a part, when what the part leaves out would go anyhow:     *)
(* white space after it, or spaces before it.                               *)
LEMMA TrimOfLeft ==
  ASSUME NEW s \in Seq(Chars), NEW m \in 0..Len(s), \A k \in m + 1..Len(s) : s[k] \in Whites
  PROVE  Within(TrimStr(SubSeq(s, 1, m)), s)
<1> DEFINE a == SubSeq(s, 1, m)
<1>0. Len(s) \in Nat
  OBVIOUS
<1>1. 1 \in 1..Len(s) + 1 /\ m \in 1 - 1..Len(s) /\ m - 1 + 1 = m /\ m - 1 + 2 = m + 1
  BY <1>0
<1>2. a \in Seq(Chars) /\ Len(a) = m /\ \A k \in 1..m : a[k] = s[k]
  <2>1. /\ a \in Seq(Chars) /\ Len(a) = m - 1 + 1
        /\ \A k \in 1..m - 1 + 1 : a[k] = s[1 + k - 1]
    BY <1>1, PartOf
  <2>2. \A k \in 1..m : 1 + k - 1 = k
    BY <1>0
  <2> HIDE DEF a
  <2>3. QED
    BY <1>1, <2>1, <2>2
<1>3. PICK p \in 1..m + 1 : \E q \in p - 1..m :
           /\ TrimStr(a) = SubSeq(a, p, q)
           /\ \A k \in 1..p - 1 : a[k] = "space"
           /\ \A k \in q + 1..m : a[k] \in Whites
           /\ p <= m => a[p] # "space"
           /\ p <= q => a[q] \notin Whites
  BY <1>2, TrimPart
<1>4. PICK q \in p - 1..m :
           /\ TrimStr(a) = SubSeq(a, p, q)
           /\ \A k \in 1..p - 1 : a[k] = "space"
           /\ \A k \in q + 1..m : a[k] \in Whites
           /\ p <= m => a[p] # "space"
           /\ p <= q => a[q] \notin Whites
  BY <1>3
<1>5. p \in 1..Len(s) + 1 /\ q \in p - 1..Len(s)
  BY <1>0
<1>6. SubSeq(a, p, q) = SubSeq(s, p, q)
  <2>1. p \in 1..m - 1 + 2 /\ q \in p - 1..m - 1 + 1 /\ 1 + p - 1 = p /\ 1 + q - 1 = q
    BY <1>0
  <2>2. SubSeq(SubSeq(s, 1, m), p, q) = SubSeq(s, 1 + p - 1, 1 + q - 1)
    BY <1>1, <2>1, PartOfPart
  <2>3. QED
    BY <2>1, <2>2
<1> HIDE DEF a
<1>7. \A k \in 1..p - 1 : s[k] = "space"
  <2>1. \A k \in 1..p - 1 : k \in 1..m
    BY <1>0
  <2>2. QED
    BY <1>2, <1>4, <2>1
<1>8. \A k \in q + 1..Len(s) : s[k] \in Whites
  <2> TAKE k \in q + 1..Len(s)
  <2>1. CASE k <= m
    <3>1. k \in q + 1..m /\ k \in 1..m
      BY <1>0, <2>1
    <3>2. QED
      BY <1>2, <1>4, <3>1
  <2>2. CASE ~(k <= m)
    <3>1. k \in m + 1..Len(s)
      BY <1>0, <2>2
    <3>2. QED
      BY <3>1
  <2>3. QED
    BY <2>1, <2>2
<1>9. p <= q => s[p] # "space" /\ s[q] \notin Whites
  <2>1. p <= q => p \in 1..m /\ q \in 1..m /\ p <= m
    BY <1>0
  <2>2. QED
    BY <1>2, <1>4, <2>1
<1>10. Within(SubSeq(s, p, q), s)
  BY <1>5, <1>7, <1>8, <1>9, PartWithin
<1>11. QED
  BY <1>4, <1>6, <1>10 DEF a

LEMMA TrimOfRight ==
  ASSUME NEW s \in Seq(Chars), NEW p \in 1..Len(s), \A k \in 1..p - 1 : s[k] = "space",
         s[p] # "space"
  PROVE  Within(TrimStr(SubSeq(s, p, Len(s))), s)
<1> DEFINE n == Len(s)
           a == SubSeq(s, p, n)
<1>0. n \in Nat
  OBVIOUS
<1>1. p \in 1..n + 1 /\ n \in p - 1..n
  BY <1>0
<1>2. /\ a \in Seq(Chars) /\ Len(a) = n - p + 1
      /\ \A k \in 1..n - p + 1 : a[k] = s[p + k - 1]
  BY <1>1, PartOf
<1> HIDE DEF n, a
<1>3. PICK u \in 1..Len(a) + 1 : \E q \in u - 1..Len(a) :
           /\ TrimStr(a) = SubSeq(a, u, q)
           /\ \A k \in 1..u - 1 : a[k] = "space"
           /\ \A k \in q + 1..Len(a) : a[k] \in Whites
           /\ u <= Len(a) => a[u] # "space"
           /\ u <= q => a[q] \notin Whites
  BY <1>2, TrimPart
<1>4. PICK q \in u - 1..Len(a) :
           /\ TrimStr(a) = SubSeq(a, u, q)
           /\ \A k \in 1..u - 1 : a[k] = "space"
           /\ \A k \in q + 1..Len(a) : a[k] \in Whites
           /\ u <= Len(a) => a[u] # "space"
           /\ u <= q => a[q] \notin Whites
  BY <1>3
<1>5. u = 1
  <2>1. 1 \in 1..n - p + 1 /\ p + 1 - 1 = p
    BY <1>0, <1>1 DEF n
  <2>2. a[1] # "space"
    BY <1>2, <2>1
  <2>3. 1 \notin 1..u - 1
    BY <1>4, <2>2
  <2>4. u \in Int /\ u >= 1
    BY <1>0, <1>2
  <2>5. QED
    BY <2>3, <2>4
<1> DEFINE r == p + q - 1
<1>6. p \in 1..n /\ q \in 0..n - p + 1
  BY <1>0, <1>2, <1>5 DEF n
<1>7. r \in p - 1..n
  BY <1>0, <1>6
<1>8. SubSeq(a, u, q) = SubSeq(s, p, r)
  <2>1. 1 \in 1..n - p + 2 /\ q \in 1 - 1..n - p + 1 /\ p + 1 - 1 = p
    BY <1>0, <1>6
  <2>2. SubSeq(SubSeq(s, p, n), 1, q) = SubSeq(s, p + 1 - 1, p + q - 1)
    BY <1>1, <2>1, PartOfPart DEF n
  <2>3. QED
    BY <1>5, <2>1, <2>2 DEF a
<1>9. \A k \in r + 1..n : s[k] \in Whites
  <2> TAKE k \in r + 1..n
  <2>1. k - p + 1 \in q + 1..n - p + 1 /\ k - p + 1 \in 1..n - p + 1 /\ p + (k - p + 1) - 1 = k
    BY <1>0, <1>6
  <2>2. QED
    BY <1>2, <1>4, <2>1
<1>10. p <= r => s[r] \notin Whites
  <2>1. p <= r => q \in 1..n - p + 1 /\ 1 <= q
    BY <1>0, <1>6
  <2>2. QED
    BY <1>2, <1>4, <1>5, <2>1
<1> HIDE DEF r
<1>11. Within(SubSeq(s, p, r), s)
  BY <1>1, <1>7, <1>9, <1>10, PartWithin DEF n
<1>12. QED
  BY <1>4, <1>8, <1>11 DEF a, n

(* trim_str() leaves a character that is no white space.                    *)
LEMMA TrimKeeps ==
  ASSUME NEW s \in Seq(Chars), NEW j \in 1..Len(s), s[j] \notin Whites
  PROVE  TrimStr(s) # <<>>
<1>0. Len(s) \in Nat
  OBVIOUS
<1>1. PICK p \in 1..Len(s) + 1 : \E q \in p - 1..Len(s) :
           /\ TrimStr(s) = SubSeq(s, p, q)
           /\ \A n \in 1..p - 1 : s[n] = "space"
           /\ \A n \in q + 1..Len(s) : s[n] \in Whites
           /\ p <= Len(s) => s[p] # "space"
           /\ p <= q => s[q] \notin Whites
  BY TrimPart
<1>2. PICK q \in p - 1..Len(s) :
           /\ TrimStr(s) = SubSeq(s, p, q)
           /\ \A n \in 1..p - 1 : s[n] = "space"
           /\ \A n \in q + 1..Len(s) : s[n] \in Whites
  BY <1>1
<1>3. j \notin 1..p - 1 /\ j \notin q + 1..Len(s)
  BY <1>2 DEF Whites
<1>4. q - p + 1 # 0
  BY <1>0, <1>3
<1>5. Len(SubSeq(s, p, q)) = q - p + 1
  BY PartOf
<1>6. SubSeq(s, p, q) # <<>>
  BY <1>4, <1>5
<1>7. QED
  BY <1>2, <1>6

(* The characters of a line before its first '#'. *)
Said(s) == CHOOSE n \in 0..Len(s) : /\ n = Len(s) \/ s[n + 1] = "hash"
                                    /\ \A i \in 1..n : s[i] # "hash"

LEMMA SaidPart ==
  ASSUME NEW s \in Seq(Chars)
  PROVE  /\ Said(s) \in 0..Len(s)
         /\ Said(s) = Len(s) \/ s[Said(s) + 1] = "hash"
         /\ \A i \in 1..Said(s) : s[i] # "hash"
         /\ DeleteComment(s) = SubSeq(s, 1, Said(s))
<1> DEFINE H == {i \in DOMAIN s : s[i] = "hash"} \cup {Len(s) + 1}
           P(n) == (n = Len(s) \/ s[n + 1] = "hash") /\ \A i \in 1..n : s[i] # "hash"
           m == Min(H) - 1
<1>0. Len(s) \in Nat
  OBVIOUS
<1>1. Len(s) \in Nat /\ DOMAIN s = 1..Len(s)
  OBVIOUS
<1>2. H \subseteq Nat /\ H # {} /\ H \subseteq 1..Len(s) + 1
  BY <1>1
<1>3. Min(H) \in H /\ \A h \in H : Min(H) <= h
  BY <1>2, LeastOf
<1>4. Min(H) \in Nat
  BY <1>2, <1>3
<1>5. m \in 0..Len(s) /\ m + 1 = Min(H)
  BY <1>1, <1>2, <1>3, <1>4
<1>6. DeleteComment(s) = SubSeq(s, 1, m)
  BY DEF DeleteComment
<1> DEFINE h == Min(H)
<1> HIDE DEF h
<1>7. h \in H /\ (\A k \in H : h <= k) /\ h \in Nat /\ m + 1 = h /\ m \in 0..Len(s)
  BY <1>3, <1>4, <1>5 DEF h
<1> HIDE DEF m
<1>8. P(m)
  <2>1. m = Len(s) \/ s[m + 1] = "hash"
    BY <1>0, <1>7
  <2>2. \A i \in 1..m : s[i] # "hash"
    <3> SUFFICES ASSUME NEW i \in 1..m, s[i] = "hash"
                 PROVE  FALSE
      OBVIOUS
    <3>1. i \in H /\ i < h
      BY <1>1, <1>7
    <3>2. QED
      BY <1>7, <3>1
  <2>3. QED
    BY <2>1, <2>2
<1>9. ASSUME NEW n \in 0..Len(s), P(n)
      PROVE  n = m
  <2>1. n + 1 \in H
    BY <1>0, <1>9
  <2>2. m <= n
    BY <1>1, <1>7, <2>1
  <2>3. ~(m < n)
    <3> SUFFICES ASSUME m < n
                 PROVE  FALSE
      OBVIOUS
    <3>1. m + 1 \in 1..n /\ m # Len(s)
      BY <1>0, <1>7
    <3>2. s[m + 1] = "hash"
      BY <1>8, <3>1
    <3>3. QED
      BY <1>9, <3>1, <3>2
  <2>4. QED
    BY <1>1, <1>7, <2>2, <2>3
<1>10. Said(s) = CHOOSE n \in 0..Len(s) : P(n)
  BY DEF Said
<1>11. Said(s) \in 0..Len(s) /\ P(Said(s))
  BY <1>7, <1>8, <1>10
<1>12. Said(s) = m
  BY <1>9, <1>11
<1>13. QED
  BY <1>6, <1>11, <1>12

(* The first '=' of a line, and that there is none. *)
LEMMA FirstEquals ==
  ASSUME NEW s \in Seq(Chars)
  PROVE  /\ \A e \in 1..Len(s) :
              s[e] = "equals" /\ (\A i \in 1..e - 1 : s[i] # "equals") => CharAt(s, "equals") = e - 1
         /\ (\A i \in 1..Len(s) : s[i] # "equals") => CharAt(s, "equals") = -1
<1> DEFINE at == {i \in DOMAIN s : s[i] = "equals"}
<1>0. Len(s) \in Nat
  OBVIOUS
<1>1. Len(s) \in Nat /\ DOMAIN s = 1..Len(s)
  OBVIOUS
<1>2. CharAt(s, "equals") = IF at = {} THEN -1 ELSE Min(at) - 1
  BY DEF CharAt
<1>3. ASSUME NEW e \in 1..Len(s), s[e] = "equals", \A i \in 1..e - 1 : s[i] # "equals"
      PROVE  CharAt(s, "equals") = e - 1
  <2>1. e \in at /\ at \subseteq Nat /\ at # {} /\ at \subseteq 1..Len(s)
    BY <1>1, <1>3
  <2>2. Min(at) \in at /\ \A i \in at : Min(at) <= i
    BY <2>1, LeastOf
  <2> DEFINE m == Min(at)
  <2> HIDE DEF m
  <2>3. m \in 1..Len(s) /\ s[m] = "equals" /\ m <= e
    BY <2>1, <2>2 DEF m
  <2>4. ~(m < e)
    <3> SUFFICES ASSUME m < e
                 PROVE  FALSE
      OBVIOUS
    <3>1. m \in 1..e - 1
      BY <1>1, <2>3
    <3>2. QED
      BY <1>3, <2>3, <3>1
  <2>5. m = e
    BY <2>3, <2>4
  <2>6. QED
    BY <1>2, <2>1, <2>5 DEF m
<1>4. ASSUME \A i \in 1..Len(s) : s[i] # "equals"
      PROVE  CharAt(s, "equals") = -1
  <2>1. at = {}
    BY <1>1, <1>4
  <2>2. QED
    BY <1>2, <2>1
<1>5. QED
  BY <1>3, <1>4

(* is_comment() sees the first character that is no space. *)
LEMMA CommentLine ==
  ASSUME NEW s \in Seq(Chars)
  PROVE  /\ (\E i \in 1..Said(s) : s[i] # "space") => ~IsComment(s)
         /\ (\A i \in 1..Said(s) : s[i] = "space") => IsComment(s) \/ IsBlank(s)
<1> DEFINE n == Said(s)
<1>0. Len(s) \in Nat
  OBVIOUS
<1>1. Len(s) \in Nat /\ DOMAIN s = 1..Len(s)
  OBVIOUS
<1>2. n \in 0..Len(s) /\ (n = Len(s) \/ s[n + 1] = "hash") /\ \A i \in 1..n : s[i] # "hash"
  BY SaidPart
<1> HIDE DEF n
<1>3. PICK p \in 1..Len(s) + 1 :
           /\ DropLeading(s, {"space"}) = SubSeq(s, p, Len(s))
           /\ \A i \in 1..p - 1 : s[i] \in {"space"}
           /\ p <= Len(s) => s[p] \notin {"space"}
  BY Leading
<1> DEFINE d == SubSeq(s, p, Len(s))
<1>4. /\ d \in Seq(Chars) /\ Len(d) = Len(s) - p + 1
      /\ \A k \in 1..Len(s) - p + 1 : d[k] = s[p + k - 1]
  <2>1. Len(s) \in p - 1..Len(s)
    BY <1>1
  <2>2. QED
    BY <2>1, PartOf
<1> HIDE DEF d
<1>5. IsComment(s) <=> d # <<>> /\ Head(d) = "hash"
  BY <1>3 DEF IsComment, d
<1>6. p <= Len(s) => d # <<>> /\ Head(d) = s[p]
  <2> SUFFICES ASSUME p <= Len(s)
               PROVE  d # <<>> /\ Head(d) = s[p]
    OBVIOUS
  <2>1. Len(d) # 0 /\ 1 \in 1..Len(s) - p + 1 /\ p + 1 - 1 = p
    BY <1>1, <1>4
  <2>2. d[1] = s[p]
    BY <1>4, <2>1
  <2>3. QED
    BY <1>4, <2>1, <2>2
<1>7. ASSUME NEW i \in 1..n, s[i] # "space"
      PROVE  ~IsComment(s)
  <2>1. p <= i
    <3>1. i \in 1..p - 1 => s[i] = "space"
      BY <1>3
    <3>2. QED
      BY <1>0, <1>2, <1>7, <3>1
  <2>2. p \in 1..n /\ p <= Len(s)
    BY <1>0, <1>2, <2>1
  <2>3. s[p] # "hash"
    BY <1>2, <2>2
  <2>4. QED
    BY <1>5, <1>6, <2>2, <2>3
<1>8. ASSUME \A i \in 1..n : s[i] = "space"
      PROVE  IsComment(s) \/ IsBlank(s)
  <2>1. CASE n = Len(s)
    <3>1. \A i \in DOMAIN s : s[i] \in Whites
      BY <1>1, <1>8, <2>1 DEF Whites
    <3>2. IsBlank(s)
      BY <3>1 DEF IsBlank, Range
    <3>3. QED
      BY <3>2
  <2>2. CASE n # Len(s)
    <3>1. n + 1 \in 1..Len(s) /\ s[n + 1] = "hash"
      BY <1>0, <1>2, <2>2
    <3>2. p <= n + 1
      <4>1. n + 1 \in 1..p - 1 => s[n + 1] = "space"
        BY <1>3
      <4>2. n + 1 \notin 1..p - 1
        BY <3>1, <4>1
      <4>3. QED
        BY <1>0, <1>2, <4>2
    <3>3. p \notin 1..n
      <4>1. p <= Len(s) => s[p] # "space"
        BY <1>3
      <4>2. QED
        BY <1>0, <1>2, <1>8, <4>1
    <3>4. p = n + 1
      BY <1>0, <1>2, <3>2, <3>3
    <3>5. QED
      BY <1>5, <1>6, <3>1, <3>4
  <2>3. QED
    BY <2>1, <2>2
<1>9. QED
  BY <1>7, <1>8 DEF n

(* A line with an item: the key and the value are parts of what it says     *)
(* before its first '#'.                                                    *)
LEMMA ItemOf ==
  ASSUME NEW s \in Seq(Chars), ~IsBlank(s), ~IsComment(s)
  PROVE  LET before == SubSeq(s, 1, Said(s))
             line == TrimStr(before)
             offset == CharAt(line, "equals")
         IN /\ PropertyItem(s).item
            /\ PropertyItem(s).key = TrimStr(IF offset = -1 THEN line ELSE SubSeq(line, 1, offset))
            /\ PropertyItem(s).value = TrimStr(SubSeq(line, offset + 2, Len(line)))
            /\ PropertyItem(s).inside
                 = (PropertyItem(s).key # <<>> /\ (offset # -1 \/ s[1] = "space"))
<1> DEFINE before == SubSeq(s, 1, Said(s))
           line == TrimStr(before)
           offset == CharAt(line, "equals")
           key == TrimStr(IF offset = -1 THEN line ELSE SubSeq(line, 1, offset))
           value == TrimStr(SubSeq(line, offset + 2, Len(line)))
           inside == key # <<>> /\ (offset # -1 \/ s[1] = "space")
<1>1. DeleteComment(s) = before
  BY SaidPart
<1>2. PropertyItem(s) = [key |-> key, value |-> value, item |-> TRUE, inside |-> inside]
  BY <1>1 DEF PropertyItem
<1> HIDE DEF key, value, inside
<1>3. /\ PropertyItem(s).item /\ PropertyItem(s).key = key /\ PropertyItem(s).value = value
      /\ PropertyItem(s).inside = inside
  BY <1>2
<1>4. QED
  BY <1>3 DEF key, value, inside

(* A line with '=' after a key.                                             *)
LEMMA ItemSplit ==
  ASSUME NEW s \in Seq(Chars), ~IsBlank(s), ~IsComment(s),
         NEW e \in 1..Said(s), s[e] = "equals", \A i \in 1..e - 1 : s[i] # "equals",
         \E i \in 1..e - 1 : s[i] \notin Whites
  PROVE  LET before == SubSeq(s, 1, Said(s))
         IN /\ PropertyItem(s).inside
            /\ Within(PropertyItem(s).key, SubSeq(before, 1, e - 1))
            /\ Within(PropertyItem(s).value, SubSeq(before, e + 1, Said(s)))
<1> DEFINE n == Said(s)
           before == SubSeq(s, 1, n)
<1>0. Len(s) \in Nat
  OBVIOUS
<1>1. n \in 0..Len(s)
  BY SaidPart
<1>2. before \in Seq(Chars) /\ Len(before) = n /\ \A k \in 1..n : before[k] = s[k]
  <2>1. 1 \in 1..Len(s) + 1 /\ n \in 1 - 1..Len(s)
    BY <1>0, <1>1
  <2>2. \A k \in 1..n : 1 + k - 1 = k /\ k \in 1..n - 1 + 1
    BY <1>0, <1>1
  <2>3. /\ before \in Seq(Chars) /\ Len(before) = n - 1 + 1
        /\ \A k \in 1..n - 1 + 1 : before[k] = s[1 + k - 1]
    BY <2>1, PartOf
  <2>4. QED
    BY <1>0, <1>1, <2>2, <2>3
<1>3. /\ e \in 1..n /\ before[e] = "equals"
      /\ \A i \in 1..e - 1 : before[i] # "equals"
      /\ \E i \in 1..e - 1 : before[i] \notin Whites
  <2>1. e \in 1..n /\ \A i \in 1..e - 1 : i \in 1..n
    BY <1>0, <1>1
  <2>2. QED
    BY <1>2, <2>1
<1> DEFINE line == TrimStr(before)
           offset == CharAt(line, "equals")
<1>4. /\ PropertyItem(s).key = TrimStr(IF offset = -1 THEN line ELSE SubSeq(line, 1, offset))
      /\ PropertyItem(s).value = TrimStr(SubSeq(line, offset + 2, Len(line)))
      /\ PropertyItem(s).inside
                 = (PropertyItem(s).key # <<>> /\ (offset # -1 \/ s[1] = "space"))
  BY ItemOf
<1> HIDE DEF n, before, line, offset
<1>5. PICK p \in 1..n + 1 : \E q \in p - 1..n :
           /\ line = SubSeq(before, p, q)
           /\ \A k \in 1..p - 1 : before[k] = "space"
           /\ \A k \in q + 1..n : before[k] \in Whites
           /\ p <= n => before[p] # "space"
           /\ p <= q => before[q] \notin Whites
  BY <1>2, TrimPart DEF line
<1>6. PICK q \in p - 1..n :
           /\ line = SubSeq(before, p, q)
           /\ \A k \in 1..p - 1 : before[k] = "space"
           /\ \A k \in q + 1..n : before[k] \in Whites
           /\ p <= n => before[p] # "space"
           /\ p <= q => before[q] \notin Whites
  BY <1>5
<1>7. "space" \in Whites /\ "equals" \notin Whites
  BY DEF Whites
<1>8. PICK j \in 1..e - 1 : before[j] \notin Whites
  BY <1>3
<1>9. p <= j
  <2>1. j \notin 1..p - 1
    BY <1>6, <1>7, <1>8
  <2>2. QED
    BY <1>0, <1>1, <1>3, <2>1
<1>10. e <= q
  <2>1. e \notin q + 1..n
    BY <1>3, <1>6, <1>7
  <2>2. QED
    BY <1>0, <1>1, <1>3, <2>1
<1>11. n \in Nat /\ e \in 1..n /\ p \in 1..n /\ q \in 1..n /\ j \in 1..n /\ p <= j /\ j < e /\ e <= q
  BY <1>0, <1>1, <1>3, <1>9, <1>10
<1>12. line \in Seq(Chars) /\ Len(line) = q - p + 1 /\ \A k \in 1..q - p + 1 : line[k] = before[p + k - 1]
  <2>1. p \in 1..Len(before) + 1 /\ q \in p - 1..Len(before)
    BY <1>2, <1>11
  <2>2. QED
    BY <1>2, <1>6, <2>1, PartOf
<1>13. offset = e - p
  <2> DEFINE f == e - p + 1
  <2>1. f \in 1..Len(line) /\ f \in 1..q - p + 1 /\ p + f - 1 = e
    <3>1. p \in Nat /\ q \in Nat /\ e \in Nat /\ p <= e /\ e <= q
      BY <1>11
    <3>2. f \in 1..q - p + 1 /\ p + f - 1 = e
      BY <3>1
    <3>3. QED
      BY <1>12, <3>2
  <2>2. line[f] = "equals"
    BY <1>3, <1>12, <2>1
  <2>3. ASSUME NEW i \in 1..f - 1
        PROVE  line[i] # "equals"
    <3>1. i \in 1..q - p + 1 /\ p + i - 1 \in 1..e - 1
      BY <1>11
    <3>2. QED
      BY <1>3, <1>12, <3>1
  <2>4. f - 1 = e - p
    BY <1>11
  <2> HIDE DEF f
  <2>5. QED
    BY <1>12, <2>1, <2>2, <2>3, <2>4, FirstEquals DEF offset
<1>14. offset # -1
  BY <1>11, <1>13
<1>15. SubSeq(line, 1, offset) = SubSeq(before, p, e - 1)
  <2>1. p \in 1..Len(before) + 1 /\ q \in p - 1..Len(before) /\ 1 \in 1..q - p + 2
        /\ e - p \in 1 - 1..q - p + 1
    BY <1>2, <1>11
  <2>2. SubSeq(SubSeq(before, p, q), 1, e - p) = SubSeq(before, p + 1 - 1, p + (e - p) - 1)
    BY <1>2, <2>1, PartOfPart
  <2>3. p + 1 - 1 = p /\ p + (e - p) - 1 = e - 1
    BY <1>11
  <2>4. QED
    BY <1>6, <1>13, <2>2, <2>3
<1>16. SubSeq(line, offset + 2, Len(line)) = SubSeq(before, e + 1, q)
  <2>1. p \in 1..Len(before) + 1 /\ q \in p - 1..Len(before) /\ (e - p) + 2 \in 1..q - p + 2
        /\ q - p + 1 \in ((e - p) + 2) - 1..q - p + 1
    BY <1>2, <1>11
  <2>2. SubSeq(SubSeq(before, p, q), (e - p) + 2, q - p + 1)
          = SubSeq(before, p + ((e - p) + 2) - 1, p + (q - p + 1) - 1)
    BY <1>2, <2>1, PartOfPart
  <2>3. p + ((e - p) + 2) - 1 = e + 1 /\ p + (q - p + 1) - 1 = q
    BY <1>11
  <2>4. QED
    BY <1>6, <1>12, <1>13, <2>2, <2>3
<1> DEFINE front == SubSeq(before, 1, e - 1)
           rest == SubSeq(before, e + 1, n)
           k0 == SubSeq(before, p, e - 1)
           v0 == SubSeq(before, e + 1, q)
<1>17. PropertyItem(s).key = TrimStr(k0) /\ PropertyItem(s).value = TrimStr(v0)
  BY <1>4, <1>14, <1>15, <1>16
<1>18. /\ front \in Seq(Chars) /\ Len(front) = e - 1
       /\ \A k \in 1..e - 1 : front[k] = before[k]
       /\ k0 = SubSeq(front, p, e - 1)
  <2>1. 1 \in 1..Len(before) + 1 /\ e - 1 \in 1 - 1..Len(before) /\ (e - 1) - 1 + 1 = e - 1
        /\ p \in 1..(e - 1) - 1 + 2 /\ e - 1 \in p - 1..(e - 1) - 1 + 1
        /\ 1 + p - 1 = p /\ 1 + (e - 1) - 1 = e - 1
    BY <1>2, <1>11
  <2>2. /\ front \in Seq(Chars) /\ Len(front) = (e - 1) - 1 + 1
        /\ \A k \in 1..(e - 1) - 1 + 1 : front[k] = before[1 + k - 1]
    BY <1>2, <2>1, PartOf
  <2>3. SubSeq(front, p, e - 1) = SubSeq(before, 1 + p - 1, 1 + (e - 1) - 1)
    BY <1>2, <2>1, PartOfPart
  <2>4. \A k \in 1..e - 1 : 1 + k - 1 = k
    BY <1>11
  <2> HIDE DEF front
  <2>5. QED
    BY <2>1, <2>2, <2>3, <2>4
<1>19. /\ rest \in Seq(Chars) /\ Len(rest) = n - e
       /\ \A k \in 1..n - e : rest[k] = before[e + k]
       /\ v0 = SubSeq(rest, 1, q - e)
  <2>1. e + 1 \in 1..Len(before) + 1 /\ n \in (e + 1) - 1..Len(before) /\ n - (e + 1) + 1 = n - e
        /\ 1 \in 1..n - (e + 1) + 2 /\ q - e \in 1 - 1..n - (e + 1) + 1
        /\ (e + 1) + 1 - 1 = e + 1 /\ (e + 1) + (q - e) - 1 = q
    BY <1>2, <1>11
  <2>2. /\ rest \in Seq(Chars) /\ Len(rest) = n - (e + 1) + 1
        /\ \A k \in 1..n - (e + 1) + 1 : rest[k] = before[(e + 1) + k - 1]
    BY <1>2, <2>1, PartOf
  <2>3. SubSeq(rest, 1, q - e) = SubSeq(before, (e + 1) + 1 - 1, (e + 1) + (q - e) - 1)
    BY <1>2, <2>1, PartOfPart
  <2>4. \A k \in 1..n - e : (e + 1) + k - 1 = e + k
    BY <1>11
  <2> HIDE DEF rest
  <2>5. QED
    BY <2>1, <2>2, <2>3, <2>4
<1> HIDE DEF front, rest, k0, v0
<1>20. Within(TrimStr(k0), front)
  <2>1. p \in 1..Len(front) + 1 /\ e - 1 \in p - 1..Len(front)
    BY <1>11, <1>18
  <2>2. \A k \in 1..p - 1 : front[k] = "space"
    <3>1. \A k \in 1..p - 1 : k \in 1..e - 1
      BY <1>11
    <3>2. QED
      BY <1>6, <1>18, <3>1
  <2>3. front[p] # "space"
    <3>1. p \in 1..e - 1 /\ p <= n
      BY <1>11
    <3>2. QED
      BY <1>6, <1>18, <3>1
  <2>4. Within(TrimStr(SubSeq(front, p, Len(front))), front)
    <3>1. p \in 1..Len(front)
      BY <1>11, <1>18
    <3>2. QED
      BY <1>18, <2>2, <2>3, <3>1, TrimOfRight
  <2>5. QED
    BY <1>18, <2>4
<1>21. Within(TrimStr(v0), rest)
  <2>1. q - e \in 0..Len(rest)
    BY <1>11, <1>19
  <2>2. \A k \in (q - e) + 1..Len(rest) : rest[k] \in Whites
    <3>1. \A k \in (q - e) + 1..Len(rest) : k \in 1..n - e /\ e + k \in q + 1..n
      BY <1>11, <1>19
    <3>2. QED
      BY <1>6, <1>19, <3>1
  <2>3. QED
    BY <1>19, <2>1, <2>2, TrimOfLeft
<1>22. TrimStr(k0) # <<>>
  <2>1. p \in 1..Len(front) + 1 /\ e - 1 \in p - 1..Len(front) /\ j \in 1..e - 1
        /\ j - p + 1 \in 1..(e - 1) - p + 1 /\ p + (j - p + 1) - 1 = j
    BY <1>11, <1>18
  <2>2. front[j] \notin Whites
    BY <1>8, <1>18, <2>1
  <2>3. /\ k0 \in Seq(Chars) /\ Len(k0) = (e - 1) - p + 1
        /\ \A k \in 1..(e - 1) - p + 1 : k0[k] = front[p + k - 1]
    BY <1>18, <2>1, PartOf
  <2>4. j - p + 1 \in 1..Len(k0) /\ k0[j - p + 1] \notin Whites
    BY <2>1, <2>2, <2>3
  <2>5. QED
    BY <2>3, <2>4, TrimKeeps
<1>23. PropertyItem(s).inside
  BY <1>4, <1>14, <1>17, <1>22
<1>24. QED
  BY <1>17, <1>20, <1>21, <1>23 DEF front, rest, before, n

LEMMA WholePart ==
  ASSUME NEW s \in Seq(Chars)
  PROVE  SubSeq(s, 1, Len(s)) = s
<1> DEFINE a == SubSeq(s, 1, Len(s))
           n == Len(s)
<1>0. n \in Nat /\ 1 \in 1..n + 1 /\ n \in 1 - 1..n /\ n - 1 + 1 = n
  OBVIOUS
<1>1. a \in Seq(Chars) /\ Len(a) = n - 1 + 1 /\ \A k \in 1..n - 1 + 1 : a[k] = s[1 + k - 1]
  BY <1>0, PartOf
<1>2. \A k \in 1..n : 1 + k - 1 = k
  BY <1>0
<1> HIDE DEF a
<1>3. Len(a) = Len(s) /\ \A k \in 1..Len(a) : a[k] = s[k]
  BY <1>0, <1>1, <1>2 DEF n
<1>4. QED
  BY <1>1, <1>3, SeqEqual DEF a

(* To trim twice is to trim once.                                           *)
LEMMA TrimTwice ==
  ASSUME NEW s \in Seq(Chars)
  PROVE  TrimStr(s) \in Seq(Chars) /\ TrimStr(TrimStr(s)) = TrimStr(s)
<1> DEFINE line == TrimStr(s)
<1>0. Len(s) \in Nat
  OBVIOUS
<1>1. PICK p \in 1..Len(s) + 1 : \E q \in p - 1..Len(s) :
           /\ TrimStr(s) = SubSeq(s, p, q)
           /\ \A n \in 1..p - 1 : s[n] = "space"
           /\ \A n \in q + 1..Len(s) : s[n] \in Whites
           /\ p <= Len(s) => s[p] # "space"
           /\ p <= q => s[q] \notin Whites
  BY TrimPart
<1>2. PICK q \in p - 1..Len(s) :
           /\ TrimStr(s) = SubSeq(s, p, q)
           /\ p <= Len(s) => s[p] # "space"
           /\ p <= q => s[q] \notin Whites
  BY <1>1
<1>3. line \in Seq(Chars) /\ Len(line) = q - p + 1 /\ \A k \in 1..q - p + 1 : line[k] = s[p + k - 1]
  BY <1>2, PartOf
<1> HIDE DEF line
<1>4. p <= q => line[1] # "space" /\ line[Len(line)] \notin Whites
  <2>1. p <= q => 1 \in 1..q - p + 1 /\ q - p + 1 \in 1..q - p + 1 /\ p + 1 - 1 = p
                  /\ p + (q - p + 1) - 1 = q /\ p <= Len(s)
    BY <1>0
  <2>2. QED
    BY <1>2, <1>3, <2>1
<1>5. PICK u \in 1..Len(line) + 1 : \E v \in u - 1..Len(line) :
           /\ TrimStr(line) = SubSeq(line, u, v)
           /\ \A n \in 1..u - 1 : line[n] = "space"
           /\ \A n \in v + 1..Len(line) : line[n] \in Whites
           /\ u <= Len(line) => line[u] # "space"
           /\ u <= v => line[v] \notin Whites
  BY <1>3, TrimPart
<1>6. PICK v \in u - 1..Len(line) :
           /\ TrimStr(line) = SubSeq(line, u, v)
           /\ \A n \in 1..u - 1 : line[n] = "space"
           /\ \A n \in v + 1..Len(line) : line[n] \in Whites
  BY <1>5
<1>7. Len(line) \in Nat /\ Len(line) = q - p + 1 /\ (p <= q <=> Len(line) >= 1)
  BY <1>0, <1>3
<1>8. CASE p <= q
  <2>1. 1 \notin 1..u - 1 /\ Len(line) \notin v + 1..Len(line)
    BY <1>4, <1>6, <1>8
  <2>2. u = 1 /\ v = Len(line)
    BY <1>7, <1>8, <2>1
  <2>3. QED
    BY <1>3, <1>6, <2>2, WholePart DEF line
<1>9. CASE ~(p <= q)
  <2>1. Len(line) = 0 /\ u = 1 /\ v = 0
    BY <1>7, <1>9
  <2>2. QED
    BY <1>3, <1>6, <2>1, WholePart DEF line
<1>10. QED
  BY <1>3, <1>8, <1>9 DEF line

(* A line without '=': key and value at once.                               *)
LEMMA ItemWhole ==
  ASSUME NEW s \in Seq(Chars), ~IsBlank(s), ~IsComment(s),
         "equals" \notin Range(SubSeq(s, 1, Said(s)))
  PROVE  /\ Within(PropertyItem(s).key, SubSeq(s, 1, Said(s)))
         /\ PropertyItem(s).value = PropertyItem(s).key
<1> DEFINE before == SubSeq(s, 1, Said(s))
           line == TrimStr(before)
           offset == CharAt(line, "equals")
<1>0. Len(s) \in Nat
  OBVIOUS
<1>1. before \in Seq(Chars)
  <2>1. 1 \in 1..Len(s) + 1 /\ Said(s) \in 1 - 1..Len(s)
    BY <1>0, SaidPart
  <2>2. QED
    BY <2>1, PartOf
<1>2. /\ PropertyItem(s).key = TrimStr(IF offset = -1 THEN line ELSE SubSeq(line, 1, offset))
      /\ PropertyItem(s).value = TrimStr(SubSeq(line, offset + 2, Len(line)))
  BY ItemOf
<1>3. \A i \in DOMAIN before : before[i] # "equals"
  BY DEF Range
<1> HIDE DEF before
<1>4. line \in Seq(Chars) /\ TrimStr(line) = line /\ Within(line, before)
  BY <1>1, TrimTwice, TrimWithin
<1>5. PICK p \in 1..Len(before) + 1 : \E q \in p - 1..Len(before) : line = SubSeq(before, p, q)
  BY <1>1, TrimPart
<1>6. PICK q \in p - 1..Len(before) : line = SubSeq(before, p, q)
  BY <1>5
<1>7. Len(line) = q - p + 1 /\ \A k \in 1..q - p + 1 : line[k] = before[p + k - 1]
  BY <1>1, <1>6, PartOf
<1>8. \A i \in 1..Len(line) : line[i] # "equals"
  <2> TAKE i \in 1..Len(line)
  <2>1. Len(before) \in Nat
    BY <1>1
  <2>2. i \in 1..q - p + 1 /\ p + i - 1 \in 1..Len(before)
    BY <1>7, <2>1
  <2>3. p + i - 1 \in DOMAIN before
    BY <1>1, <2>2
  <2>4. QED
    BY <1>3, <1>7, <2>2, <2>3
<1> HIDE DEF line
<1>9. offset = -1
  BY <1>4, <1>8, FirstEquals
<1>10. SubSeq(line, offset + 2, Len(line)) = line
  <2>1. -1 + 2 = 1
    OBVIOUS
  <2>2. QED
    BY <1>4, <1>9, <2>1, WholePart
<1>11. QED
  BY <1>2, <1>4, <1>9, <1>10 DEF before

LEMMA LineSplits == text \in Seq(Chars) => LinesSplit
<1> SUFFICES ASSUME text \in Seq(Chars)
             PROVE  LinesSplit
  OBVIOUS
<1> DEFINE r == PropertyItem(text)
           said == Said(text)
           before == SubSeq(text, 1, said)
<1>1. Len(text) \in Nat /\ said \in 0..Len(text)
  BY SaidPart
<1>2. IsBlank(text) \/ IsComment(text) <=> ~r.item
  <2>1. IsBlank(text) \/ IsComment(text) => ~r.item
    BY DEF PropertyItem, Skipped
  <2>2. QED
    BY <2>1, ItemOf
<1>3. \A i \in 1..said : text[i] # "space" => (r.item \/ IsBlank(text))
  BY <1>2, CommentLine
<1>4. (\A i \in 1..said : text[i] = "space") => ~r.item
  BY <1>2, CommentLine
<1>5. ASSUME NEW e \in 1..said, text[e] = "equals", \A i \in 1..e - 1 : text[i] # "equals",
             \E i \in 1..e - 1 : text[i] \notin Whites
      PROVE  /\ r.item /\ r.inside
             /\ Within(r.key, SubSeq(before, 1, e - 1))
             /\ Within(r.value, SubSeq(before, e + 1, said))
  <2>1. e \in 1..Len(text) /\ text[e] \notin Whites
    BY <1>1, <1>5 DEF Whites
  <2>2. ~IsBlank(text)
    BY <2>1 DEF IsBlank, Range
  <2>3. ~IsComment(text)
    <3>1. text[e] # "space"
      BY <1>5
    <3>2. QED
      BY <3>1, CommentLine
  <2>4. QED
    BY <1>2, <1>5, <2>2, <2>3, ItemSplit
<1>6. r.item /\ "equals" \notin Range(before) => Within(r.key, before) /\ r.value = r.key
  BY <1>2, ItemWhole
<1>7. QED
  BY <1>3, <1>4, <1>5, <1>6 DEF LinesSplit, Said

LineInv == text \in Seq(Chars)

(* Between fgets() and the handler a line is a sequence of characters.     *)
THEOREM LineInvariance == LineSpec => []LineInv
<1>1. LineInit => LineInv
  BY DEF LineInit, LineInv
<1>2. LineInv /\ [LineNext]_text => LineInv'
  BY DEF LineNext, LineInv
<1>3. QED
  BY <1>1, <1>2, PTL DEF LineSpec

(* eproperty.c: what a line says before its first '#', a key, the first '=' *)
(* and a value, is what the handler gets, without the white space round it, *)
(* and nothing outside the buffer is touched; a line that says nothing is   *)
(* skipped; without '=' the line is key and value at once.                  *)
THEOREM LinesSplitHolds == LineSpec => []LinesSplit
<1>1. LineInv => LinesSplit
  BY LineSplits DEF LineInv
<1>2. QED
  BY <1>1, LineInvariance, PTL

----------------------------------------------------------------------------
(* hashmap.c: what the links of the rows lead to, and what is ahead of the *)
(* cursor.                                                                 *)

(* The nodes and NULL. *)
Points == Keys \cup {NoKey}

(* Links from some of the nodes. *)
LinksOf(V) == UNION {[N -> V] : N \in SUBSET Keys}

HmRecords ==
  [nrows : Nat \ {0}, table : UNION {[0..n - 1 -> Points] : n \in Nat},
   next : LinksOf(Points), prev : LinksOf(Points), data : LinksOf(Data), count : Int,
   crow : Nat, cnode : Points]

-----------------------------------------------------------------------------
(* What a walk meets. *)

(* A walk meets the place it starts from, ...                              *)
LEMMA MeetsStart == \A after, from : Meets(after, from, from)
BY DEF Meets

(* ... with each node the one after it, ...                                *)
LEMMA MeetsOn ==
  ASSUME NEW after, NEW from, NEW k \in DOMAIN after, Meets(after, from, k)
  PROVE  Meets(after, from, after[k])
BY DEF Meets

(* ... and nothing outside a set that the links do not leave.              *)
LEMMA MeetsWithin ==
  ASSUME NEW after, NEW from, NEW S \in SUBSET Points, from \in S,
         \A n \in S \cap DOMAIN after : after[n] \in S
  PROVE  \A k : Meets(after, from, k) => k \in S
BY DEF Meets, Points

(* The next step of a walk: what it meets but where it stands.              *)
LEMMA MeetsNext ==
  ASSUME NEW after \in LinksOf(Points), NEW c \in DOMAIN after, NEW k \in Points
  PROVE  /\ Meets(after, c, k) => k = c \/ Meets(after, after[c], k)
         /\ Meets(after, after[c], k) => Meets(after, c, k)
<1>1. c \in Points
  BY DEF LinksOf, Points
<1>2. ASSUME Meets(after, c, k), k # c,
             NEW S \in SUBSET Points, after[c] \in S, \A n \in S \cap DOMAIN after : after[n] \in S
      PROVE  k \in S
  <2>1. /\ S \cup {c} \in SUBSET Points
        /\ \A n \in (S \cup {c}) \cap DOMAIN after : after[n] \in S \cup {c}
    BY <1>1, <1>2
  <2>2. k \in S \cup {c}
    BY <1>2, <2>1, MeetsWithin
  <2>3. QED
    BY <1>2, <2>2
<1>3. Meets(after, c, k) => k = c \/ Meets(after, after[c], k)
  BY <1>2 DEF Meets, Points
<1>4. Meets(after, after[c], k) => Meets(after, c, k)
  BY DEF Meets
<1>5. QED
  BY <1>3, <1>4

(* A walk that ends does not come back to where it stood.                   *)
LEMMA NoWayBack ==
  ASSUME NEW after \in LinksOf(Points), NEW c \in DOMAIN after, Meets(after, c, NoKey)
  PROVE  ~Meets(after, after[c], c)
<1> SUFFICES ASSUME Meets(after, after[c], c)
             PROVE  FALSE
  OBVIOUS
<1> DEFINE R == {n \in Points : Meets(after, n, c)}
<1>1. /\ DOMAIN after \subseteq Keys /\ NoKey \notin DOMAIN after
      /\ \A n \in DOMAIN after : after[n] \in Points
  BY KeysAssumption DEF LinksOf
<1>2. c \in R
  BY <1>1, MeetsStart DEF Points
<1>3. ASSUME NEW n \in R \cap DOMAIN after
      PROVE  after[n] \in R
  <2>1. CASE n = c
    BY <1>1, <2>1
  <2>2. CASE n # c
    <3>1. c \in Points
      BY <1>2
    <3>2. Meets(after, after[n], c)
      BY <2>2, <3>1, MeetsNext
    <3>3. QED
      BY <1>1, <3>2
  <2>3. QED
    BY <2>1, <2>2
<1>4. R \in SUBSET Points
  OBVIOUS
<1> HIDE DEF R
<1>5. NoKey \in R
  BY <1>2, <1>3, <1>4, MeetsWithin
<1>6. Meets(after, NoKey, c)
  BY <1>5 DEF R
<1>7. c \in {NoKey}
  <2>1. /\ {NoKey} \in SUBSET Points
        /\ \A n \in {NoKey} \cap DOMAIN after : after[n] \in {NoKey}
    BY <1>1 DEF Points
  <2>2. QED
    BY <1>6, <2>1, MeetsWithin
<1>8. QED
  BY <1>1, <1>7

(* Two walks that agree on what one of them meets meet the same.            *)
LEMMA SameMeets ==
  ASSUME NEW one \in LinksOf(Points), NEW two \in LinksOf(Points), NEW from \in Points,
         NEW V \in SUBSET Points, \A k \in Points : Meets(one, from, k) <=> k \in V,
         V \cap DOMAIN one = V \cap DOMAIN two,
         \A n \in V \cap DOMAIN one : two[n] = one[n]
  PROVE  \A k \in Points : Meets(two, from, k) <=> k \in V
<1>1. from \in V
  BY MeetsStart
<1>2. \A n \in V \cap DOMAIN one : one[n] \in V
  <2> TAKE n \in V \cap DOMAIN one
  <2>1. one[n] \in Points
    BY DEF LinksOf
  <2>2. QED
    BY <2>1, MeetsOn
<1>3. ASSUME NEW k \in Points, Meets(two, from, k)
      PROVE  k \in V
  BY <1>1, <1>2, <1>3, MeetsWithin
<1>4. ASSUME NEW k \in V
      PROVE  Meets(two, from, k)
  <2> SUFFICES ASSUME NEW S \in SUBSET Points, from \in S, \A n \in S \cap DOMAIN two : two[n] \in S
               PROVE  k \in S
    BY DEF Meets, Points
  <2>1. S \cap V \in SUBSET Points /\ from \in S \cap V
    BY <1>1
  <2>2. \A n \in (S \cap V) \cap DOMAIN one : one[n] \in S \cap V
    BY <1>2
  <2>3. QED
    BY <2>1, <2>2, MeetsWithin
<1>5. QED
  BY <1>3, <1>4

-----------------------------------------------------------------------------
(* The rows. *)

(* The links of the rows.                                                   *)
Linked(t) ==
  /\ DOMAIN t.prev = Nodes(t) /\ DOMAIN t.data = Nodes(t)
  /\ DOMAIN t.table = 0..t.nrows - 1
  /\ \A r \in 0..t.nrows - 1 : t.table[r] # NoKey =>
       t.table[r] \in Nodes(t) /\ Row(t, t.table[r]) = r /\ t.prev[t.table[r]] = NoKey
  /\ \A k \in Nodes(t) : t.next[k] # NoKey =>
       t.next[k] \in Nodes(t) /\ Row(t, t.next[k]) = Row(t, k) /\ t.prev[t.next[k]] = k
  /\ \A k \in Nodes(t) :
       IF t.prev[k] = NoKey THEN t.table[Row(t, k)] = k
       ELSE t.prev[k] \in Nodes(t) /\ t.next[t.prev[k]] = k
  /\ \A k \in Nodes(t) : Meets(t.next, t.table[Row(t, k)], k)
  /\ \A r \in 0..t.nrows - 1 : Meets(t.next, t.table[r], NoKey)
  /\ t.count = Cardinality(Nodes(t))

TableInv(t) == t \in HmRecords /\ Linked(t)

LEMMA RowOf ==
  ASSUME NEW t \in HmRecords
  PROVE  \A k \in Keys : Row(t, k) \in 0..t.nrows - 1
<1> TAKE k \in Keys
<1>1. KeyHash[k] \in Nat
  BY KeysAssumption
<1>2. t.nrows \in Nat \ {0}
  BY DEF HmRecords
<1>3. QED
  BY <1>1, <1>2 DEF Row

LEMMA LinkTypes ==
  ASSUME NEW t, TableInv(t)
  PROVE  /\ t.next \in LinksOf(Points) /\ t.prev \in LinksOf(Points) /\ t.data \in LinksOf(Data)
         /\ Nodes(t) \subseteq Keys /\ NoKey \notin Nodes(t) /\ Nodes(t) = DOMAIN t.next
         /\ \A k \in Nodes(t) : t.next[k] \in Points /\ t.prev[k] \in Points
         /\ t.nrows \in Nat \ {0}
         /\ \A r \in 0..t.nrows - 1 : t.table[r] \in Points
         /\ t.table \in [0..t.nrows - 1 -> Points]
<1>1. /\ t.next \in LinksOf(Points) /\ t.prev \in LinksOf(Points) /\ t.data \in LinksOf(Data)
      /\ t.nrows \in Nat \ {0} /\ t.table \in UNION {[0..n - 1 -> Points] : n \in Nat}
  BY DEF TableInv, HmRecords
<1>2. Nodes(t) \subseteq Keys /\ \A k \in Nodes(t) : t.next[k] \in Points
  BY <1>1 DEF LinksOf, Nodes
<1>3. \A k \in Nodes(t) : t.prev[k] \in Points
  BY <1>1 DEF LinksOf, TableInv, Linked
<1>4. t.table \in [0..t.nrows - 1 -> Points]
  <2>1. DOMAIN t.table = 0..t.nrows - 1
    BY DEF TableInv, Linked
  <2>2. PICK n \in Nat : t.table \in [0..n - 1 -> Points]
    BY <1>1
  <2>3. QED
    BY <2>1, <2>2
<1>5. QED
  BY <1>1, <1>2, <1>3, <1>4, KeysAssumption DEF Nodes

(* A row is walked through its own nodes, all of them.                      *)
LEMMA RowMeets ==
  ASSUME NEW t, TableInv(t), NEW r \in 0..t.nrows - 1
  PROVE  \A k \in Points :
           Meets(t.next, t.table[r], k) <=> k = NoKey \/ (k \in Nodes(t) /\ Row(t, k) = r)
<1> DEFINE S == {n \in Nodes(t) : Row(t, n) = r} \cup {NoKey}
<1>1. S \in SUBSET Points /\ t.table[r] \in S
  BY LinkTypes DEF TableInv, Linked, Points
<1>2. \A n \in S \cap DOMAIN t.next : t.next[n] \in S
  BY LinkTypes DEF TableInv, Linked
<1>3. \A k : Meets(t.next, t.table[r], k) => k \in S
  BY <1>1, <1>2, MeetsWithin
<1>4. \A k \in S : Meets(t.next, t.table[r], k)
  BY DEF TableInv, Linked
<1>5. QED
  BY <1>3, <1>4

(* A lookup finds the keys of the table.                                   *)
LEMMA FoundIsNode ==
  ASSUME NEW t, TableInv(t), NEW k \in Keys
  PROVE  Found(t, k) <=> k \in Nodes(t)
<1>1. Row(t, k) \in 0..t.nrows - 1 /\ k \in Points /\ k # NoKey
  BY RowOf, KeysAssumption DEF TableInv, Points
<1>2. QED
  BY <1>1, RowMeets DEF Found

(* The properties of hashmap.c from the links.                              *)
LEMMA ChainsFromInv == TableInv(hm) => HashmapChains
<1> SUFFICES ASSUME TableInv(hm)
             PROVE  HashmapChains
  OBVIOUS
<1>1. DOMAIN hm.table = 0..hm.nrows - 1
  BY DEF TableInv, Linked
<1>2. QED
  BY <1>1, RowMeets DEF HashmapChains, TableInv, Linked, Points

-----------------------------------------------------------------------------
(* The links that an add and a removal change. *)

LEMMA LinksWith ==
  ASSUME NEW V, NEW f \in LinksOf(V), NEW k \in Keys, NEW v \in V
  PROVE  With(f, k, v) \in LinksOf(V)
<1>1. DOMAIN f \in SUBSET Keys /\ f \in [DOMAIN f -> V]
  BY DEF LinksOf
<1>2. DOMAIN f \cup {k} \in SUBSET Keys
  BY <1>1
<1>3. With(f, k, v) \in [DOMAIN f \cup {k} -> V]
  BY <1>1 DEF With
<1>4. QED
  BY <1>2, <1>3 DEF LinksOf

LEMMA WithDomain == \A f, k, v : DOMAIN With(f, k, v) = DOMAIN f \cup {k}
BY DEF With

LEMMA WithAt ==
  ASSUME NEW f, NEW k, NEW v
  PROVE  With(f, k, v)[k] = v /\ \A n \in DOMAIN f : n # k => With(f, k, v)[n] = f[n]
BY DEF With

LEMMA LinksWithout ==
  ASSUME NEW V, NEW f \in LinksOf(V), NEW k \in Keys
  PROVE  Without(f, k) \in LinksOf(V)
<1>1. DOMAIN f \in SUBSET Keys /\ f \in [DOMAIN f -> V]
  BY DEF LinksOf
<1>2. DOMAIN f \ {k} \in SUBSET Keys
  BY <1>1
<1>3. Without(f, k) \in [DOMAIN f \ {k} -> V]
  BY <1>1 DEF Without
<1>4. QED
  BY <1>2, <1>3 DEF LinksOf

LEMMA WithoutDomain == \A f, k : DOMAIN Without(f, k) = DOMAIN f \ {k}
BY DEF Without

LEMMA WithoutAt ==
  ASSUME NEW f, NEW k
  PROVE  \A n \in DOMAIN f : n # k => Without(f, k)[n] = f[n]
BY DEF Without

LEMMA LinksRelink ==
  ASSUME NEW V, NEW f \in LinksOf(V), NEW from, NEW to \in V
  PROVE  Relink(f, from, to) \in LinksOf(V) /\ DOMAIN Relink(f, from, to) = DOMAIN f
<1>1. DOMAIN f \in SUBSET Keys /\ f \in [DOMAIN f -> V]
  BY DEF LinksOf
<1>3. Relink(f, from, to) \in [DOMAIN f -> V]
  BY <1>1 DEF Relink
<1>4. Relink(f, from, to) \in LinksOf(V)
  BY <1>1, <1>3 DEF LinksOf
<1>5. QED
  BY <1>1, <1>4 DEF Relink

LEMMA RelinkAt ==
  ASSUME NEW f, NEW from, NEW to
  PROVE  /\ from # NoKey /\ from \in DOMAIN f => Relink(f, from, to)[from] = to
         /\ \A n \in DOMAIN f : n # from => Relink(f, from, to)[n] = f[n]
BY DEF Relink

(* What a head that is added does to each field.                            *)
LEMMA AddHeadIs ==
  ASSUME NEW t, TableInv(t), NEW k \in Keys, NEW d \in Data
  PROVE  AddHead(t, k, d) =
           [nrows |-> t.nrows, table |-> [t.table EXCEPT ![Row(t, k)] = k],
            next |-> With(t.next, k, t.table[Row(t, k)]),
            prev |-> With(Relink(t.prev, t.table[Row(t, k)], k), k, NoKey),
            data |-> With(t.data, k, d), count |-> t.count + 1, crow |-> t.crow, cnode |-> t.cnode]
<1>1. t = [nrows |-> t.nrows, table |-> t.table, next |-> t.next, prev |-> t.prev,
           data |-> t.data, count |-> t.count, crow |-> t.crow, cnode |-> t.cnode]
  BY DEF TableInv, HmRecords
<1> DEFINE h == t.table[Row(t, k)]
           n1 == With(t.next, k, h)
           p1 == With(Relink(t.prev, h, k), k, NoKey)
           d1 == With(t.data, k, d)
           r == Row(t, k)
<1>2. AddHead(t, k, d) =
        [nrows |-> t.nrows, table |-> [t.table EXCEPT ![r] = k], next |-> n1, prev |-> p1,
         data |-> d1, count |-> t.count + 1, crow |-> t.crow, cnode |-> t.cnode]
  <2>1. AddHead(t, k, d) = [t EXCEPT !.next = n1, !.prev = p1, !.data = d1,
                              !.table[r] = k, !.count = t.count + 1]
    BY <1>1 DEF AddHead
  <2> HIDE DEF n1, p1, d1, r, h
  <2>2. QED
    BY <1>1, <2>1
<1>3. QED
  BY <1>2

(* What a removal does to each field.                                       *)
LEMMA FreeNodeIs ==
  ASSUME NEW t, TableInv(t), NEW k \in Nodes(t)
  PROVE  FreeNode(t, k) =
           [nrows |-> t.nrows,
            table |-> [t.table EXCEPT ![Row(t, k)] =
                         IF t.prev[k] = NoKey THEN t.next[k] ELSE t.table[Row(t, k)]],
            next |-> Without(Relink(t.next, t.prev[k], t.next[k]), k),
            prev |-> Without(Relink(t.prev, t.next[k], t.prev[k]), k),
            data |-> Without(t.data, k), count |-> t.count - 1, crow |-> t.crow, cnode |-> t.cnode]
<1>1. t = [nrows |-> t.nrows, table |-> t.table, next |-> t.next, prev |-> t.prev,
           data |-> t.data, count |-> t.count, crow |-> t.crow, cnode |-> t.cnode]
  BY DEF TableInv, HmRecords
<1>2. Successor(t, k) = t.next[k]
  BY DEF Successor, TableInv, Linked
<1> DEFINE x == t.next[k]
           p == t.prev[k]
           n1 == Without(Relink(t.next, p, x), k)
           p1 == Without(Relink(t.prev, x, p), k)
           d1 == Without(t.data, k)
           r == Row(t, k)
           h == t.table[r]
           h1 == IF p = NoKey THEN x ELSE h
<1>3. FreeNode(t, k) =
        [nrows |-> t.nrows, table |-> [t.table EXCEPT ![r] = h1], next |-> n1, prev |-> p1,
         data |-> d1, count |-> t.count - 1, crow |-> t.crow, cnode |-> t.cnode]
  <2>1. FreeNode(t, k) = [t EXCEPT !.next = n1, !.prev = p1, !.data = d1,
                              !.table[r] = h1, !.count = t.count - 1]
    BY <1>1, <1>2 DEF FreeNode
  <2> HIDE DEF n1, p1, d1, r, h, h1, x, p
  <2>2. QED
    BY <1>1, <2>1
<1>4. QED
  BY <1>3

(* A lookup, an add and a removal do to the contents what they say.         *)
LEMMA CallsFromInv == ~Splay /\ TableInv(hm) => HashmapCalls
<1> SUFFICES ASSUME ~Splay, TableInv(hm), NEW k \in Keys
             PROVE  LET f == HashmapFind(hm, k)
                        r == HashmapRemove(hm, k)
                    IN /\ (f.node = k) <=> k \in Nodes(hm)
                       /\ f.t.data = hm.data
                       /\ r.t.data = Without(hm.data, k)
                       /\ (r.ret = "OK") <=> k \in Nodes(hm)
                       /\ \A d \in Data :
                            LET a == HashmapAdd(hm, k, d, FALSE)
                            IN a.t.data = IF k \in Nodes(hm) THEN hm.data ELSE With(hm.data, k, d)
  BY DEF HashmapCalls
<1>1. /\ Found(hm, k) <=> k \in Nodes(hm)
      /\ DOMAIN hm.data = Nodes(hm) /\ k # NoKey
  BY FoundIsNode, KeysAssumption DEF TableInv, Linked
<1>2. HashmapFind(hm, k) = [t |-> hm, node |-> IF k \in Nodes(hm) THEN k ELSE NoKey]
  BY <1>1 DEF HashmapFind
<1>3. HashmapRemove(hm, k).t.data = Without(hm.data, k)
  <2>1. CASE k \in Nodes(hm)
    <3>1. HashmapRemove(hm, k).t = FreeNode(hm, k)
      BY <1>1, <2>1 DEF HashmapRemove
    <3>2. FreeNode(hm, k).data = Without(hm.data, k)
      BY <2>1, FreeNodeIs
    <3>3. QED
      BY <3>1, <3>2
  <2>2. CASE k \notin Nodes(hm)
    <3>1. HashmapRemove(hm, k).t.data = hm.data
      BY <1>1, <2>2 DEF HashmapRemove
    <3>2. hm.data = [n \in DOMAIN hm.data \ {k} |-> hm.data[n]]
      <4>1. hm.data \in LinksOf(Data)
        BY DEF TableInv, HmRecords
      <4>2. hm.data = [n \in DOMAIN hm.data |-> hm.data[n]]
        BY <4>1 DEF LinksOf
      <4>3. DOMAIN hm.data \ {k} = DOMAIN hm.data
        BY <1>1, <2>2
      <4>4. QED
        BY <4>2, <4>3
    <3>3. QED
      BY <3>1, <3>2 DEF Without
  <2>3. QED
    BY <2>1, <2>2
<1>4. (HashmapRemove(hm, k).ret = "OK") <=> k \in Nodes(hm)
  BY <1>1 DEF HashmapRemove
<1>5. ASSUME NEW d \in Data
      PROVE  HashmapAdd(hm, k, d, FALSE).t.data
               = IF k \in Nodes(hm) THEN hm.data ELSE With(hm.data, k, d)
  <2>1. CASE k \in Nodes(hm)
    <3>1. HashmapAdd(hm, k, d, FALSE).t = [hm EXCEPT !.cnode = k]
      BY <1>1, <2>1 DEF HashmapAdd
    <3>2. [hm EXCEPT !.cnode = k].data = hm.data
      BY DEF TableInv, HmRecords
    <3>3. QED
      BY <3>1, <3>2, <2>1
  <2>2. CASE k \notin Nodes(hm)
    <3>1. HashmapAdd(hm, k, d, FALSE).t = AddHead(hm, k, d)
      BY <1>1, <2>2 DEF HashmapAdd
    <3>2. AddHead(hm, k, d).data = With(hm.data, k, d)
      BY AddHeadIs
    <3>3. QED
      BY <3>1, <3>2, <2>2
  <2>3. QED
    BY <2>1, <2>2
<1>6. /\ (HashmapFind(hm, k).node = k) <=> k \in Nodes(hm)
      /\ HashmapFind(hm, k).t.data = hm.data
  BY <1>1, <1>2
<1>7. QED
  BY <1>3, <1>4, <1>5, <1>6

-----------------------------------------------------------------------------
(* An add keeps the links. *)

(* The new node is met first, and leads to all that the row had; prev of   *)
(* the old head is the new one.                                            *)
LEMMA AddKeepsLinks ==
  ASSUME NEW t, TableInv(t), NEW k \in Keys, k \notin Nodes(t), NEW d \in Data
  PROVE  TableInv(AddHead(t, k, d))
<1> DEFINE u == AddHead(t, k, d)
           r == Row(t, k)
           h == t.table[r]
<1>1. /\ u.nrows = t.nrows /\ u.table = [t.table EXCEPT ![r] = k]
      /\ u.next = With(t.next, k, h) /\ u.prev = With(Relink(t.prev, h, k), k, NoKey)
      /\ u.data = With(t.data, k, d) /\ u.count = t.count + 1
      /\ u.crow = t.crow /\ u.cnode = t.cnode
      /\ u = [nrows |-> u.nrows, table |-> u.table, next |-> u.next, prev |-> u.prev,
              data |-> u.data, count |-> u.count, crow |-> u.crow, cnode |-> u.cnode]
  BY AddHeadIs
<1>2. /\ r \in 0..t.nrows - 1 /\ h \in Points /\ k # NoKey /\ k \in Points /\ NoKey \in Points
      /\ DOMAIN t.next = Nodes(t) /\ DOMAIN t.prev = Nodes(t) /\ DOMAIN t.data = Nodes(t)
      /\ DOMAIN t.table = 0..t.nrows - 1 /\ NoKey \notin Nodes(t) /\ Nodes(t) \subseteq Keys
  BY RowOf, LinkTypes, KeysAssumption DEF TableInv, Linked, Points
<1>3. /\ t.next \in LinksOf(Points) /\ t.prev \in LinksOf(Points) /\ t.data \in LinksOf(Data)
      /\ t.table \in [0..t.nrows - 1 -> Points]
      /\ t.nrows \in Nat \ {0} /\ t.count \in Int /\ t.crow \in Nat /\ t.cnode \in Points
  BY LinkTypes DEF TableInv, HmRecords
<1> HIDE DEF u, h
<1>4. /\ u.next \in LinksOf(Points) /\ DOMAIN u.next = Nodes(t) \cup {k}
      /\ u.next[k] = h /\ \A n \in Nodes(t) : u.next[n] = t.next[n]
  <2>1. With(t.next, k, h) \in LinksOf(Points) /\ DOMAIN With(t.next, k, h) = DOMAIN t.next \cup {k}
    BY <1>2, <1>3, LinksWith, WithDomain
  <2>2. \A n \in Nodes(t) : n # k
    OBVIOUS
  <2>3. QED
    BY <1>1, <1>2, <2>1, <2>2, WithAt
<1>5. /\ u.prev \in LinksOf(Points) /\ DOMAIN u.prev = Nodes(t) \cup {k}
      /\ u.prev[k] = NoKey
      /\ h \in Nodes(t) => u.prev[h] = k
      /\ \A n \in Nodes(t) : n # h => u.prev[n] = t.prev[n]
  <2> DEFINE q == Relink(t.prev, h, k)
  <2>1. q \in LinksOf(Points) /\ DOMAIN q = Nodes(t)
    BY <1>2, <1>3, LinksRelink
  <2>2. /\ h \in Nodes(t) => q[h] = k
        /\ \A n \in Nodes(t) : n # h => q[n] = t.prev[n]
    BY <1>2, RelinkAt
  <2> HIDE DEF q
  <2>3. With(q, k, NoKey) \in LinksOf(Points) /\ DOMAIN With(q, k, NoKey) = DOMAIN q \cup {k}
    BY <1>2, <2>1, LinksWith, WithDomain
  <2>4. u.prev = With(q, k, NoKey)
    BY <1>1 DEF q
  <2>5. \A n \in Nodes(t) : n # k
    OBVIOUS
  <2>6. u.prev[k] = NoKey /\ \A n \in Nodes(t) : u.prev[n] = q[n]
    BY <2>1, <2>4, <2>5, WithAt
  <2>7. QED
    BY <2>1, <2>2, <2>3, <2>4, <2>6
<1>6. u.data \in LinksOf(Data) /\ DOMAIN u.data = Nodes(t) \cup {k}
  <2>1. /\ With(t.data, k, d) \in LinksOf(Data)
        /\ DOMAIN With(t.data, k, d) = DOMAIN t.data \cup {k}
    BY <1>3, LinksWith, WithDomain
  <2>2. QED
    BY <1>1, <1>2, <2>1
<1>7. /\ u.table \in [0..t.nrows - 1 -> Points] /\ u.table[r] = k
      /\ \A q \in 0..t.nrows - 1 : q # r => u.table[q] = t.table[q]
  BY <1>1, <1>2, <1>3
<1>8. u \in HmRecords
  <2>1. u.table \in UNION {[0..n - 1 -> Points] : n \in Nat}
    BY <1>3, <1>7
  <2>2. u.nrows \in Nat \ {0} /\ u.count \in Int /\ u.crow \in Nat /\ u.cnode \in Points
    BY <1>1, <1>3
  <2>3. QED
    BY <1>1, <1>4, <1>5, <1>6, <2>1, <2>2 DEF HmRecords
<1>9. Nodes(u) = Nodes(t) \cup {k} /\ \A n \in Keys : Row(u, n) = Row(t, n)
  BY <1>1, <1>4 DEF Nodes, Row
<1>10. h # NoKey => h \in Nodes(t) /\ Row(t, h) = r /\ t.prev[h] = NoKey
  BY <1>2 DEF TableInv, Linked, h
<1>11. ASSUME NEW q \in 0..u.nrows - 1, u.table[q] # NoKey
       PROVE  u.table[q] \in Nodes(u) /\ Row(u, u.table[q]) = q /\ u.prev[u.table[q]] = NoKey
  <2>1. CASE q = r
    BY <1>2, <1>5, <1>7, <1>9, <2>1
  <2>2. CASE q # r
    <3>1. u.table[q] = t.table[q] /\ q \in 0..t.nrows - 1
      BY <1>1, <1>7, <2>2
    <3>2. t.table[q] \in Nodes(t) /\ Row(t, t.table[q]) = q /\ t.prev[t.table[q]] = NoKey
      BY <1>11, <3>1 DEF TableInv, Linked
    <3>3. t.table[q] # h
      BY <1>10, <2>2, <3>2, <1>2
    <3>4. QED
      BY <1>2, <1>5, <1>9, <3>1, <3>2, <3>3
  <2>3. QED
    BY <2>1, <2>2
<1>12. ASSUME NEW n \in Nodes(u), u.next[n] # NoKey
       PROVE  u.next[n] \in Nodes(u) /\ Row(u, u.next[n]) = Row(u, n) /\ u.prev[u.next[n]] = n
  <2>1. CASE n = k
    BY <1>2, <1>4, <1>5, <1>9, <1>10, <1>12, <2>1
  <2>2. CASE n # k
    <3>1. n \in Nodes(t) /\ u.next[n] = t.next[n]
      BY <1>4, <1>9, <2>2
    <3>2. t.next[n] \in Nodes(t) /\ Row(t, t.next[n]) = Row(t, n) /\ t.prev[t.next[n]] = n
      BY <1>12, <3>1 DEF TableInv, Linked
    <3>3. t.next[n] # h
      BY <1>2, <1>10, <3>1, <3>2
    <3>4. QED
      BY <1>2, <1>5, <1>9, <3>1, <3>2, <3>3
  <2>3. QED
    BY <2>1, <2>2
<1>13. ASSUME NEW n \in Nodes(u)
       PROVE  IF u.prev[n] = NoKey THEN u.table[Row(u, n)] = n
              ELSE u.prev[n] \in Nodes(u) /\ u.next[u.prev[n]] = n
  <2>1. CASE n = k
    BY <1>2, <1>5, <1>7, <1>9, <2>1
  <2>2. CASE n # k /\ n = h
    <3>1. n \in Nodes(t)
      BY <1>9, <2>2
    <3>2. u.prev[n] = k /\ u.next[k] = n
      BY <1>4, <1>5, <2>2, <3>1
    <3>3. QED
      BY <1>2, <1>9, <3>2
  <2>3. CASE n # k /\ n # h
    <3>1. n \in Nodes(t) /\ u.prev[n] = t.prev[n] /\ n \in Keys
      BY <1>2, <1>5, <1>9, <2>3
    <3>2. IF t.prev[n] = NoKey THEN t.table[Row(t, n)] = n
          ELSE t.prev[n] \in Nodes(t) /\ t.next[t.prev[n]] = n
      BY <3>1 DEF TableInv, Linked
    <3>3. CASE t.prev[n] = NoKey
      <4>1. Row(t, n) # r
        BY <2>3, <3>2, <3>3 DEF h
      <4>2. Row(t, n) \in 0..t.nrows - 1
        BY <3>1, RowOf DEF TableInv
      <4>3. QED
        BY <1>7, <1>9, <3>1, <3>2, <3>3, <4>1, <4>2
    <3>4. CASE t.prev[n] # NoKey
      BY <1>4, <1>9, <3>1, <3>2, <3>4
    <3>5. QED
      BY <3>3, <3>4
  <2>4. QED
    BY <2>1, <2>2, <2>3
<1>14. \A from, m : Meets(t.next, from, m) => Meets(u.next, from, m)
  <2> TAKE from, m
  <2> SUFFICES ASSUME Meets(t.next, from, m), NEW S \in SUBSET Points, from \in S,
                      \A n \in S \cap DOMAIN u.next : u.next[n] \in S
               PROVE  m \in S
    BY DEF Meets, Points
  <2>1. \A n \in S \cap DOMAIN t.next : t.next[n] \in S
    BY <1>2, <1>4
  <2>2. QED
    BY <2>1, MeetsWithin
<1>15. ASSUME NEW q \in 0..t.nrows - 1, NEW m \in Points, Meets(t.next, t.table[q], m)
       PROVE  Meets(u.next, u.table[q], m)
  <2>1. CASE q = r
    <3>1. Meets(u.next, u.next[k], m)
      BY <1>4, <1>14, <1>15, <2>1 DEF h
    <3>2. Meets(u.next, k, m)
      BY <1>4, <3>1, MeetsNext
    <3>3. QED
      BY <1>7, <2>1, <3>2
  <2>2. CASE q # r
    BY <1>7, <1>14, <1>15, <2>2
  <2>3. QED
    BY <2>1, <2>2
<1>16. ASSUME NEW n \in Nodes(u)
       PROVE  Meets(u.next, u.table[Row(u, n)], n)
  <2>1. CASE n = k
    BY <1>7, <1>9, <2>1, MeetsStart
  <2>2. CASE n # k
    <3>1. n \in Nodes(t) /\ n \in Keys /\ n \in Points
      BY <1>2, <1>9, <2>2 DEF Points
    <3>2. Meets(t.next, t.table[Row(t, n)], n) /\ Row(t, n) \in 0..t.nrows - 1
      BY <3>1, RowOf DEF TableInv, Linked
    <3>3. QED
      BY <1>9, <1>15, <3>1, <3>2
  <2>3. QED
    BY <2>1, <2>2
<1>17. \A q \in 0..u.nrows - 1 : Meets(u.next, u.table[q], NoKey)
  <2> TAKE q \in 0..u.nrows - 1
  <2>1. q \in 0..t.nrows - 1 /\ Meets(t.next, t.table[q], NoKey)
    BY <1>1 DEF TableInv, Linked
  <2>2. QED
    BY <1>2, <1>15, <2>1
<1>18. u.count = Cardinality(Nodes(u))
  <2>1. IsFiniteSet(Nodes(t))
    BY <1>2, KeysAssumption, FS_Subset
  <2>2. Cardinality(Nodes(t) \cup {k}) = Cardinality(Nodes(t)) + 1
    BY <2>1, FS_AddElement
  <2>3. t.count = Cardinality(Nodes(t))
    BY DEF TableInv, Linked
  <2>4. QED
    BY <1>1, <1>9, <2>2, <2>3
<1>19. DOMAIN u.prev = Nodes(u) /\ DOMAIN u.data = Nodes(u) /\ DOMAIN u.table = 0..u.nrows - 1
  BY <1>1, <1>5, <1>6, <1>7, <1>9
<1>20. Linked(u)
  BY <1>11, <1>12, <1>13, <1>16, <1>17, <1>18, <1>19 DEF Linked
<1>21. QED
  BY <1>8, <1>20 DEF TableInv, u

-----------------------------------------------------------------------------
(* A removal keeps the links. *)

(* The fields of the table that a removal leaves. *)
LEMMA FreeNodeFields ==
  ASSUME NEW t, TableInv(t), NEW k \in Nodes(t), NEW u, u = FreeNode(t, k)
  PROVE  /\ u \in HmRecords
         /\ u.nrows = t.nrows /\ u.count = t.count - 1 /\ u.crow = t.crow /\ u.cnode = t.cnode
         /\ u.table \in [0..t.nrows - 1 -> Points]
         /\ t.prev[k] = NoKey => u.table[Row(t, k)] = t.next[k]
         /\ \A q \in 0..t.nrows - 1 :
              q # Row(t, k) \/ t.prev[k] # NoKey => u.table[q] = t.table[q]
         /\ Nodes(u) = Nodes(t) \ {k}
         /\ \A n \in Keys : Row(u, n) = Row(t, n)
<1> DEFINE r == Row(t, k)
           x == t.next[k]
           p == t.prev[k]
<1>1. /\ u.nrows = t.nrows /\ u.table = [t.table EXCEPT ![r] = IF p = NoKey THEN x ELSE t.table[r]]
      /\ u.next = Without(Relink(t.next, p, x), k) /\ u.prev = Without(Relink(t.prev, x, p), k)
      /\ u.data = Without(t.data, k) /\ u.count = t.count - 1
      /\ u.crow = t.crow /\ u.cnode = t.cnode
      /\ u = [nrows |-> u.nrows, table |-> u.table, next |-> u.next, prev |-> u.prev,
              data |-> u.data, count |-> u.count, crow |-> u.crow, cnode |-> u.cnode]
  BY FreeNodeIs
<1>2. /\ t.next \in LinksOf(Points) /\ t.prev \in LinksOf(Points) /\ t.data \in LinksOf(Data)
      /\ t.table \in [0..t.nrows - 1 -> Points] /\ Nodes(t) = DOMAIN t.next
      /\ t.nrows \in Nat \ {0} /\ t.count \in Int /\ t.crow \in Nat /\ t.cnode \in Points
  BY LinkTypes DEF TableInv, HmRecords
<1>3. /\ k \in Keys /\ r \in 0..t.nrows - 1 /\ x \in Points /\ p \in Points
  BY RowOf, LinkTypes DEF TableInv
<1> HIDE DEF r, x, p
<1>4. /\ u.next \in LinksOf(Points) /\ DOMAIN u.next = Nodes(t) \ {k}
  <2>1. Relink(t.next, p, x) \in LinksOf(Points) /\ DOMAIN Relink(t.next, p, x) = DOMAIN t.next
    BY <1>2, <1>3, LinksRelink
  <2>2. u.next \in LinksOf(Points)
    BY <1>1, <1>3, <2>1, LinksWithout
  <2>3. DOMAIN u.next = DOMAIN Relink(t.next, p, x) \ {k}
    BY <1>1, WithoutDomain
  <2>4. QED
    BY <1>2, <2>1, <2>2, <2>3
<1>5. u.prev \in LinksOf(Points)
  <2>1. Relink(t.prev, x, p) \in LinksOf(Points)
    BY <1>2, <1>3, LinksRelink
  <2>2. QED
    BY <1>1, <1>3, <2>1, LinksWithout
<1>6. u.data \in LinksOf(Data)
  BY <1>1, <1>2, <1>3, LinksWithout
<1>7. /\ u.table \in [0..t.nrows - 1 -> Points]
      /\ p = NoKey => u.table[r] = x
      /\ \A q \in 0..t.nrows - 1 : q # r \/ p # NoKey => u.table[q] = t.table[q]
  BY <1>1, <1>2, <1>3
<1>8. u \in HmRecords
  <2>1. u.table \in UNION {[0..n - 1 -> Points] : n \in Nat}
    BY <1>2, <1>7
  <2>2. u.nrows \in Nat \ {0} /\ u.count \in Int /\ u.crow \in Nat /\ u.cnode \in Points
    BY <1>1, <1>2
  <2>3. QED
    BY <1>1, <1>4, <1>5, <1>6, <2>1, <2>2 DEF HmRecords
<1>9. Nodes(u) = Nodes(t) \ {k} /\ \A n \in Keys : Row(u, n) = Row(t, n)
  BY <1>1, <1>4 DEF Nodes, Row
<1>10. QED
  BY <1>1, <1>7, <1>8, <1>9 DEF r, x, p

(* The links of the nodes that a removal leaves. *)
LEMMA FreeNodeLinks ==
  ASSUME NEW t, TableInv(t), NEW k \in Nodes(t), NEW u, u = FreeNode(t, k),
         NEW n \in Nodes(t), n # k
  PROVE  /\ u.next[n] = IF n = t.prev[k] THEN t.next[k] ELSE t.next[n]
         /\ u.prev[n] = IF n = t.next[k] THEN t.prev[k] ELSE t.prev[n]
<1>1. DOMAIN t.next = Nodes(t) /\ DOMAIN t.prev = Nodes(t) /\ n # NoKey
  BY LinkTypes DEF TableInv, Linked
<1>2. /\ u.next = Without(Relink(t.next, t.prev[k], t.next[k]), k)
      /\ u.prev = Without(Relink(t.prev, t.next[k], t.prev[k]), k)
  BY FreeNodeIs
<1>3. ASSUME NEW f, n \in DOMAIN f, NEW from, NEW to
      PROVE  Without(Relink(f, from, to), k)[n] = IF n = from THEN to ELSE f[n]
  BY <1>1, <1>3 DEF Without, Relink
<1>4. QED
  BY <1>1, <1>2, <1>3

(* A node is not its own neighbour. *)
LEMMA NotItsOwnNext ==
  ASSUME NEW t, TableInv(t), NEW k \in Nodes(t)
  PROVE  t.next[k] # k
<1> SUFFICES ASSUME t.next[k] = k
             PROVE  FALSE
  OBVIOUS
<1> DEFINE S == Points \ {k}
           h == t.table[Row(t, k)]
<1>1. /\ k \in Keys /\ k # NoKey /\ NoKey \notin Nodes(t) /\ t.next \in LinksOf(Points)
      /\ Nodes(t) = DOMAIN t.next
  BY LinkTypes
<1>2. t.prev[k] = k
  BY <1>1 DEF TableInv, Linked
<1>3. Row(t, k) \in 0..t.nrows - 1 /\ h \in Points
  BY <1>1, RowOf, LinkTypes DEF TableInv
<1>4. h \in S
  <2>1. h # NoKey => t.prev[h] = NoKey
    BY <1>3 DEF TableInv, Linked
  <2>2. QED
    BY <1>1, <1>2, <1>3, <2>1
<1>5. \A n \in S \cap DOMAIN t.next : t.next[n] \in S
  <2> TAKE n \in S \cap DOMAIN t.next
  <2>1. t.next[n] \in Points
    BY <1>1, LinkTypes
  <2>2. t.next[n] # k
    BY <1>1, <1>2 DEF TableInv, Linked
  <2>3. QED
    BY <2>1, <2>2
<1>6. Meets(t.next, h, k)
  BY DEF TableInv, Linked
<1>7. S \in SUBSET Points
  OBVIOUS
<1> HIDE DEF S, h
<1>8. k \in S
  BY <1>4, <1>5, <1>6, <1>7, MeetsWithin
<1>9. QED
  BY <1>8 DEF S

(* A walk that met the node goes on over it: what it meets without the     *)
(* node, together with the node if it came to its predecessor, is what it  *)
(* met before.                                                             *)
LEMMA FreeKeepsLinks ==
  ASSUME NEW t, TableInv(t), NEW k \in Nodes(t)
  PROVE  TableInv(FreeNode(t, k))
<1> DEFINE u == FreeNode(t, k)
           r == Row(t, k)
           x == t.next[k]
           p == t.prev[k]
<1>1. /\ u \in HmRecords /\ u.nrows = t.nrows /\ u.count = t.count - 1
      /\ u.table \in [0..t.nrows - 1 -> Points]
      /\ p = NoKey => u.table[r] = x
      /\ \A q \in 0..t.nrows - 1 : q # r \/ p # NoKey => u.table[q] = t.table[q]
      /\ Nodes(u) = Nodes(t) \ {k}
      /\ \A n \in Keys : Row(u, n) = Row(t, n)
  BY FreeNodeFields
<1>2. \A n \in Nodes(t) : n # k =>
        /\ u.next[n] = IF n = p THEN x ELSE t.next[n]
        /\ u.prev[n] = IF n = x THEN p ELSE t.prev[n]
  BY FreeNodeLinks
<1>3. /\ k \in Keys /\ k # NoKey /\ NoKey \notin Nodes(t) /\ Nodes(t) \subseteq Keys
      /\ Nodes(t) = DOMAIN t.next /\ r \in 0..t.nrows - 1 /\ x \in Points /\ p \in Points
      /\ t.nrows \in Nat \ {0}
  BY RowOf, LinkTypes DEF TableInv
<1>4. /\ x # k
      /\ x # NoKey => x \in Nodes(t) /\ Row(t, x) = r /\ t.prev[x] = k
      /\ p # NoKey => p \in Nodes(t) /\ t.next[p] = k
      /\ p = NoKey => t.table[r] = k
  BY NotItsOwnNext DEF TableInv, Linked
<1>5. p # k
  BY <1>3, <1>4
<1>6. DOMAIN u.next = Nodes(u)
  BY DEF Nodes
<1>7. p # NoKey => Row(t, p) = r
  BY <1>3, <1>4 DEF TableInv, Linked
<1>8. \A q \in 0..t.nrows - 1 : t.table[q] # NoKey =>
        t.table[q] \in Nodes(t) /\ Row(t, t.table[q]) = q /\ t.prev[t.table[q]] = NoKey
  BY DEF TableInv, Linked
<1>9. \A n \in Nodes(t) : t.next[n] # NoKey =>
        t.next[n] \in Nodes(t) /\ Row(t, t.next[n]) = Row(t, n) /\ t.prev[t.next[n]] = n
  BY DEF TableInv, Linked
<1>10. \A n \in Nodes(t) : IF t.prev[n] = NoKey THEN t.table[Row(t, n)] = n
                            ELSE t.prev[n] \in Nodes(t) /\ t.next[t.prev[n]] = n
  BY DEF TableInv, Linked
<1>11. \A n \in Nodes(t) : Row(t, n) \in 0..t.nrows - 1
  BY <1>3, RowOf DEF TableInv
<1> HIDE DEF u, r, x, p
<1>12. ASSUME NEW q \in 0..t.nrows - 1, u.table[q] # NoKey
       PROVE  u.table[q] \in Nodes(u) /\ Row(u, u.table[q]) = q /\ u.prev[u.table[q]] = NoKey
  <2>1. CASE p = NoKey /\ q = r
    BY <1>1, <1>2, <1>3, <1>4, <1>12, <2>1
  <2>2. CASE p # NoKey \/ q # r
    <3>1. u.table[q] = t.table[q]
      BY <1>1, <2>2
    <3>2. t.table[q] \in Nodes(t) /\ Row(t, t.table[q]) = q /\ t.prev[t.table[q]] = NoKey
      BY <1>8, <1>12, <3>1
    <3>3. t.table[q] # x
      BY <1>3, <1>4, <3>2
    <3>4. t.table[q] # k
      BY <2>2, <3>2 DEF p, r
    <3>5. QED
      BY <1>1, <1>2, <1>3, <3>1, <3>2, <3>3, <3>4
  <2>3. QED
    BY <2>1, <2>2
<1>13. ASSUME NEW n \in Nodes(u), u.next[n] # NoKey
       PROVE  u.next[n] \in Nodes(u) /\ Row(u, u.next[n]) = Row(u, n) /\ u.prev[u.next[n]] = n
  <2>1. n \in Nodes(t) /\ n # k /\ n \in Keys
    BY <1>1, <1>3
  <2>2. CASE n = p
    <3>1. p # NoKey /\ u.next[n] = x
      BY <1>2, <1>3, <2>1, <2>2
    <3>2. x \in Nodes(t) /\ Row(t, x) = r /\ x \in Keys
      BY <1>3, <1>4, <1>13, <3>1
    <3>3. u.prev[x] = p
      BY <1>2, <1>4, <3>2
    <3>4. QED
      BY <1>1, <1>4, <1>7, <2>1, <2>2, <3>1, <3>2, <3>3
  <2>3. CASE n # p
    <3>1. u.next[n] = t.next[n]
      BY <1>2, <2>1, <2>3
    <3>2. t.next[n] \in Nodes(t) /\ Row(t, t.next[n]) = Row(t, n) /\ t.prev[t.next[n]] = n
      BY <1>9, <1>13, <2>1, <3>1
    <3>3. t.next[n] # k
      BY <2>3, <3>2 DEF p
    <3>4. t.next[n] # x
      BY <1>3, <1>4, <2>1, <3>2
    <3>5. QED
      BY <1>1, <1>2, <1>3, <2>1, <3>1, <3>2, <3>3, <3>4
  <2>4. QED
    BY <2>2, <2>3
<1>14. ASSUME NEW n \in Nodes(u)
       PROVE  IF u.prev[n] = NoKey THEN u.table[Row(u, n)] = n
              ELSE u.prev[n] \in Nodes(u) /\ u.next[u.prev[n]] = n
  <2>1. n \in Nodes(t) /\ n # k /\ n \in Keys /\ n # NoKey
    BY <1>1, <1>3
  <2>2. CASE n = x
    <3>1. u.prev[n] = p
      BY <1>2, <2>1, <2>2
    <3>2. p # NoKey => p \in Nodes(u) /\ u.next[p] = x
      BY <1>1, <1>2, <1>4, <1>5
    <3>3. p = NoKey => u.table[Row(u, n)] = n
      BY <1>1, <1>4, <2>1, <2>2
    <3>4. QED
      BY <2>2, <3>1, <3>2, <3>3
  <2>3. CASE n # x
    <3>1. u.prev[n] = t.prev[n]
      BY <1>2, <2>1, <2>3
    <3>2. CASE t.prev[n] = NoKey
      <4>1. t.table[Row(t, n)] = n
        BY <1>10, <2>1, <3>2
      <4>2. p = NoKey => Row(t, n) # r
        BY <1>4, <2>1, <4>1
      <4>3. QED
        BY <1>1, <1>11, <2>1, <3>1, <3>2, <4>1, <4>2
    <3>3. CASE t.prev[n] # NoKey
      <4>1. t.prev[n] \in Nodes(t) /\ t.next[t.prev[n]] = n
        BY <1>10, <2>1, <3>3
      <4>2. t.prev[n] # k
        BY <2>3, <4>1 DEF x
      <4>3. t.prev[n] # p
        BY <1>4, <2>1, <3>3, <4>1
      <4>4. QED
        BY <1>1, <1>2, <3>1, <3>3, <4>1, <4>2, <4>3
    <3>4. QED
      BY <3>2, <3>3
  <2>4. QED
    BY <2>2, <2>3
<1>15. ASSUME NEW q \in 0..t.nrows - 1, NEW m \in Points, m # k, Meets(t.next, t.table[q], m)
       PROVE  Meets(u.next, u.table[q], m)
  <2> SUFFICES ASSUME NEW S \in SUBSET Points, u.table[q] \in S,
                      \A n \in S \cap DOMAIN u.next : u.next[n] \in S
               PROVE  m \in S
    BY DEF Meets, Points
  <2> DEFINE In == (p # NoKey /\ p \in S) \/ (p = NoKey /\ q = r)
             T == IF In THEN S \cup {k} ELSE S \ {k}
  <2>1. T \in SUBSET Points
    BY <1>3 DEF Points
  <2>2. t.table[q] \in T
    <3>1. CASE p = NoKey /\ q = r
      BY <1>4, <3>1
    <3>2. CASE p # NoKey \/ q # r
      <4>1. u.table[q] = t.table[q]
        BY <1>1, <3>2
      <4>2. t.table[q] # k
        BY <1>3, <1>8, <3>2 DEF p, r
      <4>3. QED
        BY <4>1, <4>2
    <3>3. QED
      BY <3>1, <3>2
  <2>3. \A n \in T \cap DOMAIN t.next : t.next[n] \in T
    <3> TAKE n \in T \cap DOMAIN t.next
    <3>1. CASE n = k
      <4>1. In
        BY <3>1
      <4>2. x \in S
        BY <1>1, <1>2, <1>4, <1>5, <1>6, <4>1
      <4>3. QED
        BY <3>1, <4>1, <4>2 DEF x
    <3>2. CASE n # k /\ n = p
      <4>1. In
        BY <1>3, <3>2
      <4>2. QED
        BY <1>3, <1>4, <3>2, <4>1
    <3>3. CASE n # k /\ n # p
      <4>1. n \in S /\ n \in Nodes(t) /\ n \in Nodes(u)
        BY <1>1, <1>3, <3>3
      <4>2. u.next[n] = t.next[n] /\ u.next[n] \in S
        BY <1>2, <1>6, <3>3, <4>1
      <4>3. t.next[n] # k
        BY <1>3, <1>9, <3>3, <4>1 DEF p
      <4>4. QED
        BY <4>2, <4>3
    <3>4. QED
      BY <3>1, <3>2, <3>3
  <2> HIDE DEF T
  <2>4. m \in T
    BY <1>15, <2>1, <2>2, <2>3, MeetsWithin
  <2>5. QED
    BY <1>15, <2>4 DEF T
<1>16. ASSUME NEW n \in Nodes(u)
       PROVE  Meets(u.next, u.table[Row(u, n)], n)
  <2>1. n \in Nodes(t) /\ n # k /\ n \in Keys /\ n \in Points
    BY <1>1, <1>3 DEF Points
  <2>2. Meets(t.next, t.table[Row(t, n)], n) /\ Row(t, n) \in 0..t.nrows - 1
    BY <1>11, <2>1 DEF TableInv, Linked
  <2>3. QED
    BY <1>1, <1>15, <2>1, <2>2
<1>17. \A q \in 0..t.nrows - 1 : Meets(u.next, u.table[q], NoKey)
  <2> TAKE q \in 0..t.nrows - 1
  <2>1. Meets(t.next, t.table[q], NoKey) /\ NoKey \in Points
    BY DEF TableInv, Linked, Points
  <2>2. QED
    BY <1>3, <1>15, <2>1
<1>18. u.count = Cardinality(Nodes(u))
  <2>1. IsFiniteSet(Nodes(t))
    BY <1>3, KeysAssumption, FS_Subset
  <2>2. Cardinality(Nodes(t) \ {k}) = Cardinality(Nodes(t)) - 1
    BY <2>1, FS_RemoveElement
  <2>3. t.count = Cardinality(Nodes(t))
    BY DEF TableInv, Linked
  <2>4. QED
    BY <1>1, <2>2, <2>3
<1>19. DOMAIN u.prev = Nodes(u) /\ DOMAIN u.data = Nodes(u) /\ DOMAIN u.table = 0..u.nrows - 1
  <2>1. DOMAIN t.prev = Nodes(t) /\ DOMAIN t.data = Nodes(t)
    BY DEF TableInv, Linked
  <2>2. u.prev = Without(Relink(t.prev, x, p), k) /\ u.data = Without(t.data, k)
    BY FreeNodeIs DEF u, x, p
  <2>3. DOMAIN Relink(t.prev, x, p) = DOMAIN t.prev
    BY DEF Relink
  <2>4. DOMAIN u.table = 0..t.nrows - 1
    BY <1>1
  <2>5. DOMAIN u.prev = DOMAIN Relink(t.prev, x, p) \ {k} /\ DOMAIN u.data = DOMAIN t.data \ {k}
    BY <2>2, WithoutDomain
  <2>6. QED
    BY <1>1, <2>1, <2>3, <2>4, <2>5
<1>20. Linked(u)
  BY <1>1, <1>12, <1>13, <1>14, <1>16, <1>17, <1>18, <1>19 DEF Linked
<1>21. QED
  BY <1>1, <1>20 DEF TableInv, u

-----------------------------------------------------------------------------
(* The cursor. *)

CursorAt(t, e, c) == [t EXCEPT !.crow = e, !.cnode = c]

(* The first node of the rows from r on, or NULL.                           *)
FirstFrom(t, r) == FromRow(t, r).cnode

(* That node is the head of the first row that has one.                     *)
FirstIn(t, r, c) ==
  \/ c = NoKey /\ \A q \in r..t.nrows - 1 : t.table[q] = NoKey
  \/ \E q \in r..t.nrows - 1 :
       c = t.table[q] /\ c # NoKey /\ \A o \in r..q - 1 : t.table[o] = NoKey

LEMMA FromRowIs ==
  ASSUME NEW t, TableInv(t), NEW r \in Nat
  PROVE  /\ FirstIn(t, r, FirstFrom(t, r))
         /\ FirstFrom(t, r) \in Points
         /\ \E e \in Nat, z \in Points : /\ FromRow(t, r) = CursorAt(t, e, z)
                                         /\ z # NoKey => e = Row(t, z)
<1> DEFINE full == {q \in r..t.nrows - 1 : t.table[q] # NoKey}
<1>1. /\ t.nrows \in Nat \ {0} /\ \A q \in 0..t.nrows - 1 : t.table[q] \in Points
      /\ \A q \in 0..t.nrows - 1 : t.table[q] # NoKey => Row(t, t.table[q]) = q
  BY LinkTypes DEF TableInv, Linked
<1>2. \A c \in Points, e \in Nat : CursorAt(t, e, c).cnode = c
  BY DEF TableInv, HmRecords, CursorAt
<1>3. CASE full = {}
  <2>1. FromRow(t, r) = CursorAt(t, t.nrows, NoKey)
    BY <1>3 DEF FromRow, CursorAt
  <2>2. FirstFrom(t, r) = NoKey
    BY <1>1, <1>2, <2>1 DEF FirstFrom, Points
  <2>3. \A q \in r..t.nrows - 1 : t.table[q] = NoKey
    BY <1>3
  <2>4. QED
    BY <1>1, <2>1, <2>2, <2>3 DEF FirstIn, Points
<1>4. CASE full # {}
  <2>1. full \subseteq Nat
    OBVIOUS
  <2>2. Min(full) \in full /\ \A q \in full : Min(full) <= q
    BY <1>4, <2>1, LeastOf
  <2> DEFINE m == Min(full)
  <2>3. FromRow(t, r) = CursorAt(t, m, t.table[m])
    BY <1>4 DEF FromRow, CursorAt
  <2> HIDE DEF m
  <2>4. /\ m \in r..t.nrows - 1 /\ m \in Nat /\ m \in 0..t.nrows - 1
        /\ t.table[m] # NoKey /\ t.table[m] \in Points /\ Row(t, t.table[m]) = m
    BY <1>1, <2>2 DEF m
  <2>5. FirstFrom(t, r) = t.table[m]
    BY <1>2, <2>3, <2>4 DEF FirstFrom
  <2>6. \A o \in r..m - 1 : t.table[o] = NoKey
    <3> TAKE o \in r..m - 1
    <3>1. o \in r..t.nrows - 1 /\ ~(m <= o)
      BY <1>1, <2>4
    <3>2. QED
      BY <2>2, <3>1 DEF m
  <2>7. FirstIn(t, r, t.table[m])
    BY <2>4, <2>6 DEF FirstIn
  <2>8. QED
    BY <2>3, <2>4, <2>5, <2>7
<1>5. QED
  BY <1>3, <1>4

LEMMA FirstIsOne ==
  ASSUME NEW t, TableInv(t), NEW r \in Nat, NEW c, FirstIn(t, r, c), NEW e, FirstIn(t, r, e)
  PROVE  c = e
<1>1. t.nrows \in Nat
  BY LinkTypes
<1>2. ASSUME NEW q \in r..t.nrows - 1, t.table[q] # NoKey, \A o \in r..q - 1 : t.table[o] = NoKey,
             NEW s \in r..t.nrows - 1, t.table[s] # NoKey, \A o \in r..s - 1 : t.table[o] = NoKey
      PROVE  q = s
  <2>1. ~(q < s) /\ ~(s < q)
    BY <1>1, <1>2
  <2>2. QED
    BY <1>1, <2>1
<1>3. CASE c = NoKey
  BY <1>3 DEF FirstIn
<1>4. CASE e = NoKey
  BY <1>4 DEF FirstIn
<1>5. CASE c # NoKey /\ e # NoKey
  BY <1>2, <1>5 DEF FirstIn
<1>6. QED
  BY <1>3, <1>4, <1>5

(* The table does not depend on its cursor. *)
LEMMA CursorMoves ==
  ASSUME NEW t, TableInv(t), NEW e \in Nat, NEW c \in Points,
         NEW u, u = CursorAt(t, e, c)
  PROVE  /\ TableInv(u) /\ u.crow = e /\ u.cnode = c
         /\ u.next = t.next /\ u.table = t.table /\ u.nrows = t.nrows /\ u.data = t.data
         /\ Nodes(u) = Nodes(t) /\ \A k \in Keys : Row(u, k) = Row(t, k)
<1>1. /\ u \in HmRecords /\ u.crow = e /\ u.cnode = c /\ u.next = t.next /\ u.table = t.table
      /\ u.nrows = t.nrows /\ u.data = t.data /\ u.prev = t.prev /\ u.count = t.count
  BY DEF TableInv, HmRecords, CursorAt
<1>2. Nodes(u) = Nodes(t) /\ \A k \in Keys \cup Points : Row(u, k) = Row(t, k)
  BY <1>1 DEF Nodes, Row
<1>3. Linked(u)
  <2>1. /\ Nodes(t) \subseteq Keys /\ \A q \in 0..t.nrows - 1 : t.table[q] \in Points
        /\ \A n \in Nodes(t) : t.next[n] \in Points
    BY LinkTypes
  <2>2. QED
    BY <1>1, <1>2, <2>1 DEF TableInv, Linked
<1>4. QED
  BY <1>1, <1>2, <1>3 DEF TableInv

LEMMA FirstInSame ==
  ASSUME NEW t, NEW u, u.table = t.table, u.nrows = t.nrows, NEW r, NEW c
  PROVE  FirstIn(u, r, c) <=> FirstIn(t, r, c)
BY DEF FirstIn

(* Where the cursor goes from each node.                                    *)
LEMMA AfterIs ==
  ASSUME NEW t, TableInv(t)
  PROVE  /\ After(t) \in LinksOf(Points) /\ DOMAIN After(t) = Nodes(t)
         /\ \A k \in Nodes(t) :
              /\ t.next[k] # NoKey => After(t)[k] = t.next[k]
              /\ t.next[k] = NoKey => FirstIn(t, Row(t, k) + 1, After(t)[k])
<1> DEFINE N(k) == HashmapNext(CursorAt(t, Row(t, k), k)).cnode
<1>1. Nodes(t) \subseteq Keys /\ NoKey \notin Nodes(t) /\ t.nrows \in Nat \ {0}
  BY LinkTypes
<1>2. ASSUME NEW k \in Nodes(t)
      PROVE  /\ N(k) \in Points
             /\ t.next[k] # NoKey => N(k) = t.next[k]
             /\ t.next[k] = NoKey => FirstIn(t, Row(t, k) + 1, N(k))
  <2> DEFINE u == CursorAt(t, Row(t, k), k)
  <2>1. k \in Keys /\ k \in Points /\ k # NoKey /\ Row(t, k) \in 0..t.nrows - 1
    BY <1>1, RowOf DEF TableInv, Points
  <2>2. Row(t, k) \in Nat /\ Row(t, k) + 1 \in Nat
    BY <1>1, <2>1
  <2>3. /\ TableInv(u) /\ u.crow = Row(t, k) /\ u.cnode = k
        /\ u.next = t.next /\ u.table = t.table /\ u.nrows = t.nrows
    BY <2>1, <2>2, CursorMoves
  <2>4. N(k) = HashmapNext(u).cnode
    OBVIOUS
  <2> HIDE DEF u, N
  <2>5. CASE t.next[k] # NoKey
    <3>1. HashmapNext(u) = [u EXCEPT !.cnode = t.next[k]]
      BY <2>1, <2>3, <2>5 DEF HashmapNext
    <3>2. [u EXCEPT !.cnode = t.next[k]].cnode = t.next[k]
      BY <2>3 DEF TableInv, HmRecords
    <3>3. t.next[k] \in Points
      BY LinkTypes
    <3>4. QED
      BY <2>4, <2>5, <3>1, <3>2, <3>3
  <2>6. CASE t.next[k] = NoKey
    <3>1. HashmapNext(u) = FromRow(u, Row(t, k) + 1)
      BY <2>1, <2>3, <2>6 DEF HashmapNext
    <3>2. N(k) = FirstFrom(u, Row(t, k) + 1)
      BY <2>4, <3>1 DEF FirstFrom
    <3>3. FirstIn(u, Row(t, k) + 1, N(k)) /\ N(k) \in Points
      BY <2>2, <2>3, <3>2, FromRowIs
    <3>4. FirstIn(t, Row(t, k) + 1, N(k))
      BY <2>3, <3>3, FirstInSame
    <3>5. QED
      BY <2>6, <3>3, <3>4
  <2>7. QED
    BY <2>5, <2>6
<1>3. After(t) = [k \in Nodes(t) |-> N(k)]
  BY DEF After, CursorAt
<1> HIDE DEF N
<1>4. After(t) \in [Nodes(t) -> Points]
  BY <1>2, <1>3
<1>5. After(t) \in LinksOf(Points)
  BY <1>1, <1>4 DEF LinksOf
<1>6. QED
  BY <1>2, <1>3, <1>4, <1>5

(* hashmap_next() takes the cursor on along After.                          *)
LEMMA NextIsAfter ==
  ASSUME NEW t, TableInv(t), t.cnode \in Nodes(t), t.crow = Row(t, t.cnode)
  PROVE  /\ TableInv(HashmapNext(t))
         /\ HashmapNext(t).cnode = After(t)[t.cnode]
         /\ HashmapNext(t).cnode # NoKey => HashmapNext(t).crow = Row(t, HashmapNext(t).cnode)
         /\ HashmapNext(t).next = t.next /\ HashmapNext(t).table = t.table
         /\ HashmapNext(t).nrows = t.nrows
<1> DEFINE c == t.cnode
<1>1. CursorAt(t, Row(t, c), c) = t
  BY DEF TableInv, HmRecords, CursorAt
<1>2. After(t)[c] = HashmapNext(t).cnode
  BY <1>1 DEF After, CursorAt
<1>3. c # NoKey /\ c \in Keys /\ t.nrows \in Nat \ {0} /\ t.crow \in Nat
  BY LinkTypes DEF TableInv, HmRecords
<1>4. \E e \in Nat, z \in Points :
        /\ HashmapNext(t) = CursorAt(t, e, z)
        /\ z # NoKey => e = Row(t, z)
  <2>1. CASE t.next[c] # NoKey
    <3>1. HashmapNext(t) = [t EXCEPT !.cnode = t.next[c]]
      BY <1>3, <2>1 DEF HashmapNext
    <3>2. [t EXCEPT !.cnode = t.next[c]] = CursorAt(t, t.crow, t.next[c])
      BY DEF TableInv, HmRecords, CursorAt
    <3>3. t.next[c] \in Points /\ Row(t, t.next[c]) = t.crow
      BY <2>1, LinkTypes DEF TableInv, Linked
    <3>4. QED
      BY <1>3, <3>1, <3>2, <3>3
  <2>2. CASE t.next[c] = NoKey
    <3>1. HashmapNext(t) = FromRow(t, t.crow + 1) /\ t.crow + 1 \in Nat
      BY <1>3, <2>2 DEF HashmapNext
    <3>2. QED
      BY <3>1, FromRowIs
  <2>3. QED
    BY <2>1, <2>2
<1>5. QED
  BY <1>2, <1>4, CursorMoves

LEMMA AfterSame ==
  ASSUME NEW t, TableInv(t), NEW u, TableInv(u),
         u.next = t.next, u.table = t.table, u.nrows = t.nrows
  PROVE  After(u) = After(t)
<1>1. Nodes(u) = Nodes(t) /\ \A k \in Keys : Row(u, k) = Row(t, k)
  BY DEF Nodes, Row
<1>2. ASSUME NEW k \in Nodes(t)
      PROVE  After(u)[k] = After(t)[k]
  <2>1. CASE t.next[k] # NoKey
    BY <1>1, <2>1, AfterIs
  <2>2. CASE t.next[k] = NoKey
    <3>1. k \in Keys /\ Row(t, k) \in 0..t.nrows - 1 /\ t.nrows \in Nat
      BY LinkTypes, RowOf DEF TableInv
    <3>2. Row(t, k) + 1 \in Nat
      BY <3>1
    <3>3. FirstIn(t, Row(t, k) + 1, After(t)[k]) /\ FirstIn(u, Row(t, k) + 1, After(u)[k])
      BY <1>1, <2>2, <3>1, AfterIs
    <3>4. FirstIn(t, Row(t, k) + 1, After(u)[k])
      BY <3>3, FirstInSame
    <3>5. QED
      BY <3>2, <3>3, <3>4, FirstIsOne
  <2>3. QED
    BY <2>1, <2>2
<1>3. /\ After(u) \in LinksOf(Points) /\ After(t) \in LinksOf(Points)
      /\ DOMAIN After(t) = Nodes(t) /\ DOMAIN After(u) = Nodes(t)
  BY <1>1, AfterIs
<1>4. After(u) \in [Nodes(t) -> Points] /\ After(t) \in [Nodes(t) -> Points]
  BY <1>3 DEF LinksOf
<1>5. QED
  BY <1>2, <1>4

(* A row that has a node has one with no next.                              *)
LEMMA LastOfRow ==
  ASSUME NEW t, TableInv(t), NEW q \in 0..t.nrows - 1, t.table[q] # NoKey
  PROVE  \E z \in Nodes(t) : Row(t, z) = q /\ t.next[z] = NoKey
<1> SUFFICES ASSUME \A z \in Nodes(t) : Row(t, z) = q => t.next[z] # NoKey
             PROVE  FALSE
  OBVIOUS
<1> DEFINE S == {z \in Nodes(t) : Row(t, z) = q}
<1>1. S \in SUBSET Points /\ NoKey \notin S
  BY LinkTypes DEF Points
<1>2. t.table[q] \in S
  BY DEF TableInv, Linked
<1>3. \A n \in S \cap DOMAIN t.next : t.next[n] \in S
  BY DEF TableInv, Linked
<1>4. Meets(t.next, t.table[q], NoKey)
  BY DEF TableInv, Linked
<1> HIDE DEF S
<1>5. NoKey \in S
  BY <1>1, <1>2, <1>3, <1>4, MeetsWithin
<1>6. QED
  BY <1>1, <1>5

(* From the first node the cursor meets every node, and comes to an end.    *)
LEMMA WholeWalk ==
  ASSUME NEW t, TableInv(t), NEW c, FirstIn(t, 0, c), c # NoKey, NEW k \in Points
  PROVE  Meets(After(t), c, k) <=> k \in Nodes(t) \cup {NoKey}
<1> DEFINE A == After(t)
           full == {q \in 0..t.nrows - 1 : t.table[q] # NoKey}
<1>1. /\ Nodes(t) \subseteq Keys /\ Nodes(t) = DOMAIN t.next /\ t.nrows \in Nat \ {0}
      /\ NoKey \notin Nodes(t)
  BY LinkTypes
<1>2. /\ A \in LinksOf(Points) /\ DOMAIN A = Nodes(t)
      /\ \A n \in Nodes(t) : t.next[n] # NoKey => A[n] = t.next[n]
      /\ \A n \in Nodes(t) : t.next[n] = NoKey => FirstIn(t, Row(t, n) + 1, A[n])
  BY AfterIs
<1>3. \A q \in 0..t.nrows - 1 : t.table[q] # NoKey => t.table[q] \in Nodes(t)
  BY DEF TableInv, Linked
<1>4. /\ full \subseteq 0..t.nrows - 1 /\ full \subseteq Nat
      /\ \A q \in 0..t.nrows - 1 : q \in full <=> t.table[q] # NoKey
  BY <1>1
<1> HIDE DEF A, full
<1>5. ASSUME NEW r \in Nat, NEW e, FirstIn(t, r, e)
      PROVE  e \in Nodes(t) \cup {NoKey}
  BY <1>3, <1>5 DEF FirstIn
<1>6. Meets(A, c, k) => k \in Nodes(t) \cup {NoKey}
  <2>1. Nodes(t) \cup {NoKey} \in SUBSET Points /\ c \in Nodes(t) \cup {NoKey}
    BY <1>1, <1>5 DEF Points
  <2>2. ASSUME NEW n \in Nodes(t)
        PROVE  A[n] \in Nodes(t) \cup {NoKey}
    <3>1. CASE t.next[n] # NoKey
      BY <1>2, <3>1 DEF TableInv, Linked
    <3>2. CASE t.next[n] = NoKey
      <4>1. Row(t, n) + 1 \in Nat
        <5>1. Row(t, n) \in 0..t.nrows - 1
          BY <1>1, RowOf DEF TableInv
        <5>2. QED
          BY <1>1, <5>1
      <4>2. QED
        BY <1>2, <1>5, <3>2, <4>1
    <3>3. QED
      BY <3>1, <3>2
  <2>3. \A n \in (Nodes(t) \cup {NoKey}) \cap DOMAIN A : A[n] \in Nodes(t) \cup {NoKey}
    BY <1>1, <1>2, <2>2
  <2>4. QED
    BY <2>1, <2>3, MeetsWithin
<1>7. ASSUME k \in Nodes(t) \cup {NoKey}
      PROVE  Meets(A, c, k)
  <2> SUFFICES ASSUME NEW S \in SUBSET Points, c \in S, \A n \in S \cap DOMAIN A : A[n] \in S
               PROVE  k \in S
    BY DEF Meets, Points
  <2>1. ASSUME NEW q \in full, t.table[q] \in S, NEW m \in Nodes(t), Row(t, m) = q
        PROVE  m \in S
    <3>1. /\ S \cup {NoKey} \in SUBSET Points /\ t.table[q] \in S \cup {NoKey}
          /\ \A n \in (S \cup {NoKey}) \cap DOMAIN t.next : t.next[n] \in S \cup {NoKey}
      BY <1>1, <1>2, <2>1 DEF Points
    <3>2. Meets(t.next, t.table[q], m)
      BY <2>1 DEF TableInv, Linked
    <3>3. m \in S \cup {NoKey}
      BY <3>1, <3>2, MeetsWithin
    <3>4. QED
      BY <1>1, <3>3
  <2>2. ASSUME NEW q \in full, t.table[q] \in S
        PROVE  \E e \in S : FirstIn(t, q + 1, e)
    <3>1. PICK z \in Nodes(t) : Row(t, z) = q /\ t.next[z] = NoKey
      BY <1>4, LastOfRow
    <3>2. z \in S
      BY <2>1, <2>2, <3>1
    <3>3. A[z] \in S /\ FirstIn(t, q + 1, A[z])
      BY <1>1, <1>2, <3>1, <3>2
    <3>4. QED
      BY <3>3
  <2>3. \A q \in full : t.table[q] \in S
    <3> DEFINE bad == {q \in full : t.table[q] \notin S}
    <3> SUFFICES ASSUME bad # {}
                 PROVE  FALSE
      OBVIOUS
    <3> DEFINE m == Min(bad)
    <3>1. bad \subseteq Nat
      BY <1>4
    <3>2. m \in bad /\ \A q \in bad : m <= q
      BY <3>1, LeastOf
    <3> HIDE DEF m
    <3>3. m \in full /\ t.table[m] \notin S /\ m \in 0..t.nrows - 1 /\ m \in Nat /\ t.table[m] # NoKey
      BY <1>4, <3>2
    <3>4. \A q \in full : q < m => t.table[q] \in S
      <4> TAKE q \in full
      <4>1. q \in Nat
        BY <1>4
      <4>2. q < m => ~(m <= q)
        BY <3>3, <4>1
      <4>3. QED
        BY <3>2, <4>2
    <3> HIDE DEF bad
    <3>5. ASSUME NEW p \in 0..m, \A o \in p..m - 1 : t.table[o] = NoKey, NEW e, FirstIn(t, p, e)
          PROVE  e = t.table[m]
      <4>1. m \in p..t.nrows - 1 /\ p \in Nat
        BY <1>1, <3>3
      <4>2. FirstIn(t, p, t.table[m])
        BY <3>3, <3>5, <4>1 DEF FirstIn
      <4>3. QED
        BY <3>5, <4>1, <4>2, FirstIsOne
    <3> DEFINE before == {q \in full : q < m}
    <3>6. CASE before = {}
      <4>1. \A o \in 0..m - 1 : t.table[o] = NoKey
        <5> TAKE o \in 0..m - 1
        <5>1. o \in 0..t.nrows - 1 /\ o < m
          BY <1>1, <3>3
        <5>2. QED
          BY <1>4, <3>6, <5>1
      <4>2. 0 \in 0..m
        BY <3>3
      <4>3. c = t.table[m]
        BY <3>5, <4>1, <4>2
      <4>4. QED
        BY <3>3, <4>3
    <3>7. CASE before # {}
      <4> DEFINE p == Max(before)
      <4>1. before \subseteq 0..m
        <5>1. \A q \in before : q \in Nat /\ q < m
          BY <1>4
        <5>2. \A q \in Nat : q < m => q \in 0..m
          BY <3>3
        <5> HIDE DEF before
        <5>3. QED
          BY <5>1, <5>2
      <4>2. p \in before /\ \A q \in before : p >= q
        BY <3>3, <3>7, <4>1, GreatestOf
      <4> HIDE DEF p
      <4>3. p \in full /\ p < m /\ p \in Nat /\ t.table[p] \in S
        BY <1>4, <3>4, <4>2
      <4>4. \A o \in p + 1..m - 1 : t.table[o] = NoKey
        <5> TAKE o \in p + 1..m - 1
        <5>1. o \in 0..t.nrows - 1 /\ o < m /\ ~(p >= o)
          BY <1>1, <3>3, <4>3
        <5>2. o \notin full
          BY <4>2, <5>1
        <5>3. QED
          BY <1>4, <5>1, <5>2
      <4>5. PICK e \in S : FirstIn(t, p + 1, e)
        BY <2>2, <4>3
      <4>6. p + 1 \in 0..m
        BY <3>3, <4>3
      <4>7. e = t.table[m]
        BY <3>5, <4>4, <4>5, <4>6
      <4>8. QED
        BY <3>3, <4>7
    <3>8. QED
      BY <3>6, <3>7
  <2>4. \A m \in Nodes(t) : m \in S
    <3> TAKE m \in Nodes(t)
    <3>1. Row(t, m) \in 0..t.nrows - 1 /\ m \in Keys
      BY <1>1, RowOf DEF TableInv
    <3>2. t.table[Row(t, m)] # NoKey
      <4>1. Meets(t.next, t.table[Row(t, m)], m)
        BY DEF TableInv, Linked
      <4>2. {NoKey} \in SUBSET Points /\ \A n \in {NoKey} \cap DOMAIN t.next : t.next[n] \in {NoKey}
        BY <1>1 DEF Points
      <4>3. t.table[Row(t, m)] = NoKey => m \in {NoKey}
        BY <4>1, <4>2, MeetsWithin
      <4>4. QED
        BY <1>1, <4>3
    <3>3. Row(t, m) \in full
      BY <1>4, <3>1, <3>2
    <3>4. QED
      BY <2>1, <2>3, <3>3
  <2>5. NoKey \in S
    <3>1. full # {}
      <4>1. \E q \in 0..t.nrows - 1 : c = t.table[q]
        BY DEF FirstIn
      <4>2. QED
        BY <1>4, <4>1
    <3> DEFINE p == Max(full)
    <3>2. full \subseteq 0..t.nrows
      BY <1>1, <1>4
    <3>3. p \in full /\ \A q \in full : p >= q
      BY <1>1, <3>1, <3>2, GreatestOf
    <3> HIDE DEF p
    <3>4. PICK e \in S : FirstIn(t, p + 1, e)
      BY <2>2, <2>3, <3>3
    <3>5. \A q \in p + 1..t.nrows - 1 : t.table[q] = NoKey
      <4> TAKE q \in p + 1..t.nrows - 1
      <4>1. p \in Nat
        BY <1>4, <3>3
      <4>2. q \in 0..t.nrows - 1 /\ ~(p >= q)
        BY <1>1, <4>1
      <4>3. QED
        BY <1>4, <3>3, <4>2
    <3>6. e = NoKey
      BY <3>4, <3>5 DEF FirstIn
    <3>7. QED
      BY <3>6
  <2>6. QED
    BY <1>7, <2>4, <2>5
<1>8. QED
  BY <1>6, <1>7 DEF A

(* What is ahead of the cursor stays when a node that was returned is freed. *)
LEMMA FreeKeepsAhead ==
  ASSUME NEW t, TableInv(t), NEW k \in Nodes(t), NEW seen \in SUBSET Keys, k \in seen,
         NEW c \in Points,
         \A m \in Points : Meets(After(t), c, m) <=> m \in (Nodes(t) \ seen) \cup {NoKey},
         NEW u, u = FreeNode(t, k)
  PROVE  \A m \in Points : Meets(After(u), c, m) <=> m \in (Nodes(u) \ seen) \cup {NoKey}
<1> DEFINE V == (Nodes(t) \ seen) \cup {NoKey}
           r == Row(t, k)
           p == t.prev[k]
<1>1. /\ u \in HmRecords /\ u.nrows = t.nrows /\ TableInv(u)
      /\ \A q \in 0..t.nrows - 1 : q # r \/ p # NoKey => u.table[q] = t.table[q]
      /\ Nodes(u) = Nodes(t) \ {k}
      /\ \A n \in Keys : Row(u, n) = Row(t, n)
  BY FreeNodeFields, FreeKeepsLinks
<1>2. /\ Nodes(t) \subseteq Keys /\ NoKey \notin Nodes(t) /\ t.nrows \in Nat \ {0}
      /\ r \in 0..t.nrows - 1 /\ k # NoKey
  BY LinkTypes, RowOf DEF TableInv
<1>3. /\ After(t) \in LinksOf(Points) /\ DOMAIN After(t) = Nodes(t)
      /\ \A n \in Nodes(t) : t.next[n] # NoKey => After(t)[n] = t.next[n]
      /\ \A n \in Nodes(t) : t.next[n] = NoKey => FirstIn(t, Row(t, n) + 1, After(t)[n])
  BY AfterIs
<1>4. /\ After(u) \in LinksOf(Points) /\ DOMAIN After(u) = Nodes(u)
      /\ \A n \in Nodes(u) : u.next[n] # NoKey => After(u)[n] = u.next[n]
      /\ \A n \in Nodes(u) : u.next[n] = NoKey => FirstIn(u, Row(u, n) + 1, After(u)[n])
  BY <1>1, AfterIs
<1>5. /\ V \in SUBSET Points /\ k \notin V /\ (Nodes(u) \ seen) \cup {NoKey} = V
      /\ V \cap Nodes(t) = V \cap Nodes(u)
      /\ \A n \in V \cap Nodes(t) : n \in Nodes(t) /\ n \in Nodes(u) /\ n # k /\ n \in Keys
  BY <1>1, <1>2 DEF Points
<1>6. p = NoKey => t.table[r] = k
  BY DEF TableInv, Linked
<1> HIDE DEF p, r
<1>7. ASSUME NEW n \in V \cap Nodes(t)
      PROVE  After(u)[n] = After(t)[n]
  <2>1. n \in Nodes(t) /\ n \in Nodes(u) /\ n # k /\ n \in Keys
    BY <1>5
  <2>2. After(t)[n] # k
    <3>1. n \in Points /\ n \in DOMAIN After(t)
      BY <1>3, <2>1 DEF Points
    <3>2. Meets(After(t), c, n)
      BY <3>1
    <3>3. Meets(After(t), c, After(t)[n])
      BY <3>1, <3>2, MeetsOn
    <3>4. After(t)[n] \in Points
      BY <1>3, <2>1 DEF LinksOf
    <3>5. QED
      BY <1>5, <3>3, <3>4
  <2>3. u.next[n] = t.next[n]
    <3>1. t.next[n] # k
      BY <1>2, <1>3, <2>1, <2>2
    <3>2. p # NoKey => t.next[p] = k
      BY DEF TableInv, Linked, p
    <3>3. n # p
      BY <1>2, <2>1, <3>1, <3>2
    <3>4. QED
      BY <2>1, <3>3, FreeNodeLinks DEF p
  <2>4. CASE t.next[n] # NoKey
    BY <1>3, <1>4, <2>1, <2>3, <2>4
  <2>5. CASE t.next[n] = NoKey
    <3> DEFINE s == Row(t, n) + 1
    <3>1. s \in Nat
      <4>1. Row(t, n) \in 0..t.nrows - 1
        BY <2>1, RowOf DEF TableInv
      <4>2. QED
        BY <1>2, <4>1
    <3>2. FirstIn(t, s, After(t)[n]) /\ FirstIn(u, s, After(u)[n])
      BY <1>1, <1>3, <1>4, <2>1, <2>3, <2>5
    <3> HIDE DEF s
    <3>3. FirstIn(u, s, After(t)[n])
      <4>1. \A q \in s..t.nrows - 1 : q \in 0..t.nrows - 1
        BY <1>2, <3>1
      <4>2. CASE p # NoKey
        BY <1>1, <3>2, <4>1, <4>2 DEF FirstIn
      <4>3. CASE p = NoKey
        <5>1. \A q \in s..t.nrows - 1 : t.table[q] # k => u.table[q] = t.table[q]
          BY <1>1, <1>6, <4>1, <4>3
        <5>2. CASE After(t)[n] = NoKey /\ \A q \in s..t.nrows - 1 : t.table[q] = NoKey
          BY <1>1, <1>2, <5>1, <5>2 DEF FirstIn
        <5>3. ASSUME NEW q \in s..t.nrows - 1, After(t)[n] = t.table[q], After(t)[n] # NoKey,
                     \A o \in s..q - 1 : t.table[o] = NoKey
              PROVE  FirstIn(u, s, After(t)[n])
          <6>1. u.table[q] = t.table[q]
            BY <2>2, <5>1, <5>3
          <6>2. \A o \in s..q - 1 : o \in s..t.nrows - 1
            BY <1>2, <3>1
          <6>3. \A o \in s..q - 1 : u.table[o] = NoKey
            BY <1>2, <5>1, <5>3, <6>2
          <6>4. QED
            BY <1>1, <5>3, <6>1, <6>3 DEF FirstIn
        <5>4. QED
          BY <3>2, <5>2, <5>3 DEF FirstIn
      <4>4. QED
        BY <4>2, <4>3
    <3>4. QED
      BY <1>1, <3>1, <3>2, <3>3, FirstIsOne
  <2>6. QED
    BY <2>4, <2>5
<1> HIDE DEF V
<1>8. \A m \in Points : Meets(After(t), c, m) <=> m \in V
  BY DEF V
<1>9. \A m \in Points : Meets(After(u), c, m) <=> m \in V
  BY <1>3, <1>4, <1>5, <1>7, <1>8, SameMeets
<1>10. QED
  BY <1>5, <1>9

-----------------------------------------------------------------------------
(* The inductive invariant. *)

WalkInv ==
  /\ walk \in [on : BOOLEAN, last : Points, seen : SUBSET Keys]
  /\ walk.on => walk.last \in walk.seen
  /\ HashmapWalk

HmInv == TableInv(hm) /\ WalkInv

LEMMA NoWalkInv == walk = NoWalk => WalkInv
BY DEF WalkInv, NoWalk, HashmapWalk, Points

(* An empty table of as many rows as the argument gives. *)
LEMMA NewTableOK ==
  ASSUME NEW n, Rows(n) \in Nat \ {0}
  PROVE  TableInv(HashmapNew(n)) /\ Nodes(HashmapNew(n)) = {} /\ HashmapNew(n).data = [k \in {} |-> NoKey]
<1> DEFINE t == HashmapNew(n)
           m == Rows(n)
           none == [k \in {} |-> NoKey]
<1>2. t = [nrows |-> m, table |-> [r \in 0..m - 1 |-> NoKey], next |-> none, prev |-> none,
           data |-> none, count |-> 0, crow |-> 0, cnode |-> NoKey]
  BY DEF HashmapNew
<1> HIDE DEF m, t
<1>3. \A V : none \in LinksOf(V)
  <2>1. \A V : none \in [{} -> V]
    OBVIOUS
  <2>2. {} \in SUBSET Keys
    OBVIOUS
  <2>3. QED
    BY <2>1, <2>2 DEF LinksOf
<1>4. DOMAIN none = {}
  OBVIOUS
<1> HIDE DEF none
<1>5. [r \in 0..m - 1 |-> NoKey] \in UNION {[0..b - 1 -> Points] : b \in Nat}
  <2>1. [r \in 0..m - 1 |-> NoKey] \in [0..m - 1 -> Points]
    BY DEF Points
  <2>2. m \in Nat
    BY DEF m
  <2>3. QED
    BY <2>1, <2>2
<1>6. t \in HmRecords
  <2>1. m \in Nat \ {0} /\ NoKey \in Points
    BY DEF m, Points
  <2>2. QED
    BY <1>2, <1>3, <1>5, <2>1 DEF HmRecords
<1>7. /\ Nodes(t) = {} /\ DOMAIN t.prev = {} /\ DOMAIN t.data = {} /\ t.nrows = m
      /\ t.table = [r \in 0..m - 1 |-> NoKey] /\ t.count = 0
  BY <1>2, <1>4 DEF Nodes
<1>8. \A r \in 0..m - 1 : t.table[r] = NoKey
  BY <1>7
<1>9. Cardinality({}) = 0
  BY FS_EmptySet
<1>10. DOMAIN t.table = 0..m - 1
  BY <1>7
<1>11. Linked(t)
  BY <1>7, <1>8, <1>9, <1>10, MeetsStart DEF Linked
<1>12. t.data = none /\ TableInv(t)
  <2>1. t.data = none /\ t.nrows # 0
    BY <1>2, <1>7 DEF m
  <2>2. QED
    BY <1>6, <1>7, <1>11, <2>1 DEF TableInv
<1>13. QED
  BY <1>7, <1>12 DEF t, none

LEMMA HmInitInv == HmInit => HmInv
<1> SUFFICES ASSUME NEW n \in RowArgs, Rows(n) # 0, hm = HashmapNew(n), walk = NoWalk
             PROVE  HmInv
  BY DEF HmInit
<1>1. Rows(n) \in Nat \ {0}
  BY HashmapAssumption DEF Rows
<1>2. TableInv(hm)
  BY <1>1, NewTableOK
<1>3. QED
  BY <1>2, NoWalkInv DEF HmInv

LEMMA HmStutter ==
  ASSUME HmInv, UNCHANGED hmVars
  PROVE  HmInv'
<1>1. hm' = hm /\ walk' = walk
  BY DEF hmVars
<1>2. TableInv(hm')
  BY <1>1 DEF HmInv
<1>3. WalkInv'
  BY <1>1 DEF HmInv, WalkInv, HashmapWalk
<1>4. QED
  BY <1>2, <1>3 DEF HmInv

(* Nothing is added within an iteration.                                   *)
LEMMA AddStep ==
  ASSUME HmInv, HmAdd
  PROVE  HmInv'
<1>1. PICK k \in Keys, d \in Data, oom \in BOOLEAN :
        ~walk.on /\ hm' = HashmapAdd(hm, k, d, oom).t /\ walk' = walk
  BY DEF HmAdd
<1>2. TableInv(hm)
  BY DEF HmInv
<1>3. TableInv(hm')
  <2>1. CASE Found(hm, k)
    <3>1. hm' = [hm EXCEPT !.cnode = k]
      BY <1>1, <2>1 DEF HashmapAdd
    <3>2. hm' = CursorAt(hm, hm.crow, k)
      BY <1>2, <3>1 DEF TableInv, HmRecords, CursorAt
    <3>3. hm.crow \in Nat /\ k \in Points
      BY <1>2 DEF TableInv, HmRecords, Points
    <3>4. QED
      BY <1>2, <3>2, <3>3, CursorMoves
  <2>2. CASE ~Found(hm, k) /\ oom
    BY <1>1, <1>2, <2>2 DEF HashmapAdd
  <2>3. CASE ~Found(hm, k) /\ ~oom
    <3>1. hm' = AddHead(hm, k, d)
      BY <1>1, <2>3 DEF HashmapAdd
    <3>2. k \notin Nodes(hm)
      BY <1>2, <2>3, FoundIsNode
    <3>3. QED
      BY <1>2, <3>1, <3>2, AddKeepsLinks
  <2>4. QED
    BY <2>1, <2>2, <2>3
<1>4. WalkInv'
  BY <1>1 DEF HmInv, WalkInv, HashmapWalk
<1>5. QED
  BY <1>3, <1>4 DEF HmInv

LEMMA FindStep ==
  ASSUME ~Splay, HmInv, HmFind
  PROVE  HmInv'
<1>1. UNCHANGED hmVars
  BY DEF HmFind, HashmapFind, hmVars
<1>2. QED
  BY <1>1, HmStutter

LEMMA RemoveStep ==
  ASSUME HmInv, HmRemove
  PROVE  HmInv'
<1>1. PICK k \in Keys :
        /\ walk.on => k = walk.last
        /\ hm' = HashmapRemove(hm, k).t
        /\ walk' = walk
  BY DEF HmRemove
<1>2. TableInv(hm) /\ WalkInv
  BY DEF HmInv
<1>3. CASE ~Found(hm, k)
  <2>1. UNCHANGED hmVars
    BY <1>1, <1>3 DEF HashmapRemove, hmVars
  <2>2. QED
    BY <2>1, HmStutter
<1>4. CASE Found(hm, k)
  <2>1. k \in Nodes(hm)
    BY <1>2, <1>4, FoundIsNode
  <2>2. hm' = FreeNode(hm, k)
    BY <1>1, <1>4 DEF HashmapRemove
  <2>3. TableInv(hm')
    BY <1>2, <2>1, <2>2, FreeKeepsLinks
  <2>4. /\ hm'.cnode = hm.cnode /\ hm'.crow = hm.crow /\ Nodes(hm') = Nodes(hm) \ {k}
        /\ \A n \in Keys : Row(hm', n) = Row(hm, n)
    BY <1>2, <2>1, <2>2, FreeNodeFields
  <2>5. ASSUME walk.on
        PROVE  /\ hm'.cnode \in Nodes(hm') \cup {NoKey}
               /\ hm'.cnode # NoKey => hm'.crow = Row(hm', hm'.cnode)
               /\ \A m \in Points :
                    Meets(After(hm'), hm'.cnode, m) <=> m \in (Nodes(hm') \ walk.seen) \cup {NoKey}
    <3>1. walk.seen \in SUBSET Keys /\ k \in walk.seen
      BY <1>1, <1>2, <2>5 DEF WalkInv
    <3>2. /\ hm.cnode \in Nodes(hm) \cup {NoKey} /\ hm.cnode \in Points
          /\ hm.cnode # NoKey => hm.crow = Row(hm, hm.cnode)
          /\ \A m \in Points :
               Meets(After(hm), hm.cnode, m) <=> m \in (Nodes(hm) \ walk.seen) \cup {NoKey}
      <4>1. hm.cnode \in Points
        BY <1>2 DEF TableInv, HmRecords
      <4>2. QED
        BY <1>2, <2>5, <4>1 DEF WalkInv, HashmapWalk, Points
    <3>3. hm.cnode \in (Nodes(hm) \ walk.seen) \cup {NoKey}
      BY <3>2, MeetsStart
    <3>4. hm.cnode # k
      <4>1. k # NoKey
        BY KeysAssumption
      <4>2. QED
        BY <3>1, <3>3, <4>1
    <3>5. hm.cnode # NoKey => hm.cnode \in Keys
      BY <3>2 DEF Points
    <3>6. \A m \in Points :
            Meets(After(hm'), hm.cnode, m) <=> m \in (Nodes(hm') \ walk.seen) \cup {NoKey}
      BY <1>2, <2>1, <2>2, <3>1, <3>2, FreeKeepsAhead
    <3>7. QED
      BY <2>4, <3>2, <3>4, <3>5, <3>6
  <2>6. HashmapWalk'
    BY <1>1, <2>5 DEF HashmapWalk, Points
  <2>7. WalkInv'
    BY <1>1, <1>2, <2>6 DEF WalkInv
  <2>8. QED
    BY <2>3, <2>7 DEF HmInv
<1>5. QED
  BY <1>3, <1>4

(* What a walk that stands before c leaves when it takes c.                 *)
LEMMA TakeNode ==
  ASSUME NEW t, TableInv(t), NEW seen \in SUBSET Keys, t.cnode \in Nodes(t),
         t.crow = Row(t, t.cnode),
         \A m \in Points : Meets(After(t), t.cnode, m) <=> m \in (Nodes(t) \ seen) \cup {NoKey},
         NEW u, u = HashmapNext(t), NEW took, took = seen \cup {t.cnode}
  PROVE  /\ u.cnode \in Nodes(u) \cup {NoKey}
         /\ u.cnode # NoKey => u.crow = Row(u, u.cnode)
         /\ \A m \in Points : Meets(After(u), u.cnode, m) <=> m \in (Nodes(u) \ took) \cup {NoKey}
<1> DEFINE c == t.cnode
           A == After(t)
<1>1. /\ TableInv(u) /\ u.cnode = A[c]
      /\ u.cnode # NoKey => u.crow = Row(u, u.cnode)
      /\ u.next = t.next /\ u.table = t.table /\ u.nrows = t.nrows
  <2>1. Row(HashmapNext(t), HashmapNext(t).cnode) = Row(t, HashmapNext(t).cnode)
    BY NextIsAfter DEF Row
  <2>2. QED
    BY <2>1, NextIsAfter
<1>2. After(u) = A
  BY <1>1, AfterSame
<1>3. Nodes(u) = Nodes(t)
  BY <1>1 DEF Nodes
<1>4. A \in LinksOf(Points) /\ DOMAIN A = Nodes(t)
  BY AfterIs
<1>5. c \in Keys /\ c # NoKey /\ c \in Points /\ NoKey \in Points
  BY LinkTypes DEF Points
<1>6. \A m \in Points : Meets(A, c, m) <=> m \in (Nodes(t) \ seen) \cup {NoKey}
  OBVIOUS
<1> HIDE DEF A, c
<1>7. c \in DOMAIN A
  BY <1>4 DEF c
<1>8. ~Meets(A, A[c], c)
  <2>1. Meets(A, c, NoKey)
    BY <1>5, <1>6
  <2>2. QED
    BY <1>4, <1>7, <2>1, NoWayBack
<1>9. ASSUME NEW m \in Points
      PROVE  Meets(A, A[c], m) <=> m \in (Nodes(t) \ took) \cup {NoKey}
  <2>1. CASE m = c
    BY <1>5, <1>8, <2>1 DEF c
  <2>2. CASE m # c
    <3>1. Meets(A, A[c], m) <=> Meets(A, c, m)
      BY <1>4, <1>7, <2>2, MeetsNext
    <3>2. m \in took <=> m \in seen
      BY <2>2 DEF c
    <3>3. QED
      BY <1>6, <3>1, <3>2
  <2>3. QED
    BY <2>1, <2>2
<1>10. A[c] \in Nodes(t) \cup {NoKey}
  <2>1. A[c] \in Points
    BY <1>4, <1>7 DEF LinksOf
  <2>2. QED
    BY <1>9, <2>1, MeetsStart
<1>11. QED
  BY <1>1, <1>2, <1>3, <1>9, <1>10

LEMMA WalkedInv ==
  ASSUME NEW t, TableInv(t), NEW seen \in SUBSET Keys,
         t.cnode # NoKey =>
           /\ t.cnode \in Nodes(t) /\ t.crow = Row(t, t.cnode)
           /\ \A m \in Points :
                Meets(After(t), t.cnode, m) <=> m \in (Nodes(t) \ seen) \cup {NoKey},
         Walked(FindNext(t), seen)
  PROVE  HmInv'
<1>1. hm' = HashmapNext(t)
  BY DEF Walked, FindNext
<1>2. CASE t.cnode = NoKey
  <2>1. hm' = t /\ walk' = NoWalk
    BY <1>1, <1>2 DEF Walked, FindNext, HashmapNext
  <2>2. WalkInv'
    BY <2>1, KeysAssumption DEF WalkInv, NoWalk, HashmapWalk, Points
  <2>3. QED
    BY <2>1, <2>2 DEF HmInv
<1>3. CASE t.cnode # NoKey
  <2> DEFINE took == seen \cup {t.cnode}
  <2>1. walk' = [on |-> TRUE, last |-> t.cnode, seen |-> took]
    BY <1>3 DEF Walked, FindNext
  <2>2. t.cnode \in Keys /\ t.cnode \in Points
    BY <1>3, LinkTypes DEF Points
  <2>3. took \in SUBSET Keys /\ t.cnode \in took
    BY <2>2
  <2>4. TableInv(hm')
    BY <1>1, <1>3, NextIsAfter
  <2>5. /\ hm'.cnode \in Nodes(hm') \cup {NoKey}
        /\ hm'.cnode # NoKey => hm'.crow = Row(hm', hm'.cnode)
        /\ \A m \in Points :
             Meets(After(hm'), hm'.cnode, m) <=> m \in (Nodes(hm') \ took) \cup {NoKey}
    <3>1. /\ t.cnode \in Nodes(t) /\ t.crow = Row(t, t.cnode)
          /\ \A m \in Points :
               Meets(After(t), t.cnode, m) <=> m \in (Nodes(t) \ seen) \cup {NoKey}
      BY <1>3
    <3>2. took = seen \cup {t.cnode}
      OBVIOUS
    <3> HIDE DEF took
    <3>3. QED
      BY <1>1, <3>1, <3>2, TakeNode
  <2> HIDE DEF took
  <2>6. HashmapWalk'
    BY <2>1, <2>5 DEF HashmapWalk, Points
  <2>7. WalkInv'
    BY <2>1, <2>2, <2>3, <2>6 DEF WalkInv
  <2>8. QED
    BY <2>4, <2>7 DEF HmInv
<1>4. QED
  BY <1>2, <1>3

LEMMA FindFirstStep ==
  ASSUME HmInv, HmFindFirst
  PROVE  HmInv'
<1> DEFINE t == FromRow(hm, 0)
<1>1. TableInv(hm)
  BY DEF HmInv
<1>2. PICK e \in Nat, z \in Points : t = CursorAt(hm, e, z) /\ (z # NoKey => e = Row(hm, z))
  BY <1>1, FromRowIs
<1>3. FirstIn(hm, 0, t.cnode)
  BY <1>1, FromRowIs DEF FirstFrom
<1>4. Walked(FindNext(t), {})
  BY DEF HmFindFirst, FindFirst
<1> HIDE DEF t
<1>5. /\ TableInv(t) /\ t.crow = e /\ t.cnode = z /\ t.next = hm.next /\ t.table = hm.table
      /\ t.nrows = hm.nrows /\ Nodes(t) = Nodes(hm) /\ \A k \in Keys : Row(t, k) = Row(hm, k)
  BY <1>1, <1>2, CursorMoves
<1>6. FirstIn(t, 0, t.cnode)
  BY <1>3, <1>5, FirstInSame
<1>7. ASSUME t.cnode # NoKey
      PROVE  /\ t.cnode \in Nodes(t) /\ t.crow = Row(t, t.cnode)
             /\ \A m \in Points :
                  Meets(After(t), t.cnode, m) <=> m \in (Nodes(t) \ {}) \cup {NoKey}
  <2>1. \E q \in 0..t.nrows - 1 : t.cnode = t.table[q]
    BY <1>6, <1>7 DEF FirstIn
  <2>2. t.cnode \in Nodes(t)
    BY <1>5, <1>7, <2>1 DEF TableInv, Linked
  <2>3. t.crow = Row(t, t.cnode)
    BY <1>2, <1>5, <1>7, <2>2, LinkTypes
  <2>4. \A m \in Points : Meets(After(t), t.cnode, m) <=> m \in Nodes(t) \cup {NoKey}
    BY <1>5, <1>6, <1>7, WholeWalk
  <2>5. QED
    BY <2>2, <2>3, <2>4
<1>8. QED
  BY <1>4, <1>5, <1>7, WalkedInv

LEMMA FindNextStep ==
  ASSUME HmInv, HmFindNext
  PROVE  HmInv'
<1>1. TableInv(hm) /\ WalkInv /\ walk.on /\ Walked(FindNext(hm), walk.seen)
  BY DEF HmInv, HmFindNext
<1>2. walk.seen \in SUBSET Keys
  BY <1>1 DEF WalkInv
<1>3. /\ hm.cnode \in Nodes(hm) \cup {NoKey}
      /\ hm.cnode # NoKey => hm.crow = Row(hm, hm.cnode)
      /\ \A m \in Points :
           Meets(After(hm), hm.cnode, m) <=> m \in (Nodes(hm) \ walk.seen) \cup {NoKey}
  BY <1>1 DEF WalkInv, HashmapWalk, Points
<1>4. QED
  BY <1>1, <1>2, <1>3, WalkedInv

LEMMA StopStep ==
  ASSUME HmInv, HmStop
  PROVE  HmInv'
<1>1. hm' = hm /\ walk' = NoWalk
  BY DEF HmStop
<1>2. WalkInv'
  BY <1>1 DEF WalkInv, NoWalk, HashmapWalk, Points
<1>3. QED
  BY <1>1, <1>2 DEF HmInv

(* The invariant of a hashmap and of an iteration over it holds for any    *)
(* keys, any hash of them and any number of rows, in the mode that the     *)
(* program uses: it never calls hashmap_splaymode().                       *)
THEOREM HmInvariance ==
  ASSUME ~Splay
  PROVE  HmSpec => []HmInv
<1>1. HmInit => HmInv
  BY HmInitInv
<1>2. HmInv /\ [HmNext]_hmVars => HmInv'
  BY AddStep, FindStep, RemoveStep, FindFirstStep, FindNextStep, StopStep, HmStutter DEF HmNext
<1>3. QED
  BY <1>1, <1>2, PTL DEF HmSpec

(* hashmap.c: the rows are linked both ways and lead to their own nodes,   *)
(* all of them, and to an end; the count is that of the nodes; a lookup,   *)
(* an add and a removal do what their results say.                         *)
THEOREM HashmapLinkedHolds ==
  ASSUME ~Splay
  PROVE  HmSpec => []HashmapLinked
<1>1. HmInv => HashmapLinked
  BY ChainsFromInv, CallsFromInv DEF HmInv, HashmapLinked
<1>2. QED
  BY <1>1, HmInvariance, PTL

(* hashmap.c: an iteration returns every node once, also when its caller   *)
(* removes the nodes that it is given, and the cursor never stands on a    *)
(* freed node.                                                             *)
THEOREM HashmapWalkHolds ==
  ASSUME ~Splay
  PROVE  HmSpec => []HashmapWalk
<1>1. HmInv => HashmapWalk
  BY DEF HmInv, WalkInv
<1>2. QED
  BY <1>1, HmInvariance, PTL

----------------------------------------------------------------------------
(* set.c: where a SimpleSet keeps its nodes. First, what a loop over an    *)
(* array computes: the state after each of its turns.                      *)

(* The turns of a pass over the nodes, all of them in S.                    *)
LEMMA PassTurns ==
  ASSUME NEW S, NEW s \in S, s.number_nodes \in Nat,
         \A i \in 0..s.number_nodes - 1, y \in S : MoveNode(y, i) \in S
  PROVE  \E f \in [0..s.number_nodes -> S] :
           /\ f[0] = s /\ \A i \in 0..s.number_nodes - 1 : f[i + 1] = MoveNode(f[i], i)
           /\ RelayoutPass(s) = f[s.number_nodes]
<1> DEFINE n == s.number_nodes
           step == [p \in (0..n - 1) \X S |-> MoveNode(p[2], p[1])]
<1>1. \A i \in 0..n - 1, y \in S : step[<<i, y>>] = MoveNode(y, i)
  OBVIOUS
<1>2. \A i \in 0..n - 1, y \in S : step[<<i, y>>] \in S
  BY <1>1
<1> HIDE DEF step
<1>12. TurnsTo(n, S, step)
  BY <1>2 DEF TurnsTo
<1>13. PICK f \in LoopStatesTo(n, S, s, step) : TRUE
  BY <1>12, LoopRunsTo
<1>3. f \in [0..n -> S] /\ f[0] = s /\ \A i \in 0..n - 1 : f[i + 1] = step[<<i, f[i]>>]
  BY <1>13 DEF LoopStatesTo
<1>4. \A i \in 0..n - 1 : f[i + 1] = MoveNode(f[i], i)
  <2>1. \A i \in 0..n - 1 : f[i] \in S
    BY <1>3
  <2>2. QED
    BY <1>1, <1>3, <2>1
<1> DEFINE Turn(g) == g = [i \in 0..n |-> IF i = 0 THEN s ELSE MoveNode(g[i - 1], i - 1)]
           turn == CHOOSE g : Turn(g)
<1>5. \A i \in 0..n : i # 0 => i - 1 \in 0..n - 1 /\ (i - 1) + 1 = i
  OBVIOUS
<1>6. Turn(f)
  <2>1. \A i \in 0..n : i # 0 => f[i] = MoveNode(f[i - 1], i - 1)
    BY <1>4, <1>5
  <2>2. QED
    BY <1>3, <2>1
<1>7. Turn(turn)
  <2> HIDE DEF Turn
  <2>1. QED
    BY <1>6
<1>8. RelayoutPass(s) = turn[n]
  BY DEF RelayoutPass
<1> HIDE DEF turn
<1>9. turn[0] = s /\ \A i \in 0..n - 1 : turn[i + 1] = MoveNode(turn[i], i)
  BY <1>7
<1>10. turn[n] = f[n]
  <2>1. SameTurns(n, f, turn)
    BY <1>3, <1>4, <1>9 DEF SameTurns
  <2>2. \A i \in 0..n : turn[i] = f[i]
    BY <2>1, SameLoop
  <2>3. QED
    BY <2>2
<1>11. QED
  BY <1>3, <1>4, <1>8, <1>10

(* Division with remainder.                                                *)
LEMMA RemOf ==
  ASSUME NEW n \in Nat \ {0}, NEW h \in Nat, NEW q \in Int, NEW i \in 0..n - 1, h = n * q + i
  PROVE  h % n = i
OBVIOUS

LEMMA QuotRem ==
  ASSUME NEW h \in Nat, NEW n \in Nat \ {0}
  PROVE  h % n \in 0..n - 1 /\ \E q \in Int : h = n * q + (h % n)
<1> DEFINE q == h \div n
           r == h % n
<1>1. q \in Int /\ r \in 0..n - 1
  OBVIOUS
<1>2. r = h - n * q
  OBVIOUS
<1> HIDE DEF q, r
<1>3. n * q \in Int
  BY <1>1
<1>4. h = n * q + r
  BY <1>1, <1>2, <1>3
<1>5. r \in 0..n - 1 /\ \E p \in Int : h = n * p + r
  BY <1>1, <1>4
<1>6. QED
  BY <1>5 DEF r

(* n steps from anywhere pass every slot.                                  *)
LEMMA StepsCover ==
  ASSUME NEW h \in Nat, NEW n \in Nat \ {0}, NEW i \in 0..n - 1
  PROVE  \E j \in 0..n - 1 : (h + j) % n = i
<1> DEFINE r == h % n
<1>1. PICK q \in Int : h = n * q + r
  BY QuotRem
<1>2. r \in 0..n - 1 /\ n * q \in Int
  BY <1>1, QuotRem
<1> HIDE DEF r
<1>3. CASE i >= r
  <2>1. i - r \in 0..n - 1 /\ h + (i - r) \in Nat /\ h + (i - r) = n * q + i
    BY <1>1, <1>2, <1>3
  <2>2. QED
    BY <2>1, RemOf
<1>4. CASE i < r
  <2>1. i - r + n \in 0..n - 1 /\ h + (i - r + n) \in Nat
    BY <1>2, <1>4
  <2>2. n * (q + 1) = n * q + n
    OBVIOUS
  <2>3. h + (i - r + n) = n * (q + 1) + i /\ q + 1 \in Int
    BY <1>1, <1>2, <2>2
  <2>4. QED
    BY <2>1, <2>3, RemOf
<1>5. QED
  BY <1>2, <1>3, <1>4

(* An array of slots with its two counters. *)
SetTyped(s) ==
  /\ s = [nodes |-> s.nodes, number_nodes |-> s.number_nodes, used_nodes |-> s.used_nodes]
  /\ s.number_nodes \in Nat \ {0}
  /\ s.nodes \in [0..s.number_nodes - 1 -> Keys \cup {NoKey}]
  /\ s.used_nodes \in Nat

(* The nodes have different keys. *)
Loose(s) ==
  /\ SetTyped(s)
  /\ \A i, j \in 0..s.number_nodes - 1 : s.nodes[i] = s.nodes[j] /\ s.nodes[i] # NoKey => i = j

(* Each node is where its lookup ends. *)
Placed(s) ==
  \A i \in 0..s.number_nodes - 1 : s.nodes[i] # NoKey => GetIndex(s, s.nodes[i]).index = i

LEMMA ProbeInside ==
  ASSUME NEW s, SetTyped(s), NEW k \in Keys, NEW j \in Nat
  PROVE  ProbeAt(s, k, j) \in 0..s.number_nodes - 1
<1>1. KeyHash[k] \in Nat /\ s.number_nodes \in Nat \ {0}
  BY KeysAssumption DEF SetTyped
<1>2. QED
  BY <1>1 DEF ProbeAt

LEMMA ProbeReaches ==
  ASSUME NEW s, SetTyped(s), NEW k \in Keys, NEW i \in 0..s.number_nodes - 1
  PROVE  \E j \in 0..s.number_nodes - 1 : ProbeAt(s, k, j) = i
<1>1. KeyHash[k] \in Nat /\ s.number_nodes \in Nat \ {0}
  BY KeysAssumption DEF SetTyped
<1>2. QED
  BY <1>1, StepsCover DEF ProbeAt

(* The m-th slot is the first of a lookup of k that is free or holds k.     *)
EndsAt(s, k, m) ==
  /\ m \in 0..s.number_nodes - 1
  /\ s.nodes[ProbeAt(s, k, m)] \in {NoKey, k}
  /\ \A j \in 0..m - 1 : s.nodes[ProbeAt(s, k, j)] \notin {NoKey, k}

(* What a lookup returns is its end.                                       *)
LEMMA LookupEnds ==
  ASSUME NEW s, SetTyped(s), NEW k \in Keys, NEW m, EndsAt(s, k, m)
  PROVE  /\ GetIndex(s, k).index = ProbeAt(s, k, m)
         /\ GetIndex(s, k).ret = IF s.nodes[ProbeAt(s, k, m)] = k THEN SET_TRUE ELSE SET_FALSE
<1> DEFINE E == ProbeEnds(s, k)
<1>1. E \in SUBSET Nat /\ m \in E
  BY DEF ProbeEnds, EndsAt, SetTyped
<1>2. Min(E) \in E /\ \A y \in E : Min(E) <= y
  BY <1>1, LeastOf
<1>3. ~(Min(E) < m)
  <2>1. SUFFICES ASSUME Min(E) < m
                 PROVE  FALSE
    OBVIOUS
  <2>2. Min(E) \in 0..m - 1
    BY <1>1, <1>2, <2>1 DEF EndsAt
  <2>3. QED
    BY <1>2, <2>2 DEF EndsAt, ProbeEnds
<1>4. Min(E) = m
  BY <1>1, <1>2, <1>3
<1>5. E # {}
  BY <1>1
<1>6. QED
  BY <1>4, <1>5 DEF GetIndex

(* It has one as soon as a slot is free or holds k.                         *)
LEMMA LookupHasEnd ==
  ASSUME NEW s, SetTyped(s), NEW k \in Keys,
         NEW i \in 0..s.number_nodes - 1, s.nodes[i] \in {NoKey, k}
  PROVE  \E m : EndsAt(s, k, m)
<1> DEFINE E == ProbeEnds(s, k)
<1>1. PICK j \in 0..s.number_nodes - 1 : ProbeAt(s, k, j) = i
  BY ProbeReaches
<1>2. E \in SUBSET Nat /\ j \in E
  BY <1>1 DEF ProbeEnds, SetTyped
<1>3. Min(E) \in E /\ \A y \in E : Min(E) <= y
  BY <1>2, LeastOf
<1>4. ASSUME NEW l \in 0..Min(E) - 1
      PROVE  s.nodes[ProbeAt(s, k, l)] \notin {NoKey, k}
  <2>1. Min(E) \in 0..s.number_nodes - 1 /\ s.number_nodes \in Nat
    BY <1>3 DEF ProbeEnds, SetTyped
  <2>2. l \in 0..s.number_nodes - 1 /\ l < Min(E)
    BY <2>1
  <2>3. l \notin E
    BY <1>3, <2>1, <2>2
  <2>4. QED
    BY <2>2, <2>3 DEF ProbeEnds
<1>5. EndsAt(s, k, Min(E))
  BY <1>3, <1>4 DEF EndsAt, ProbeEnds
<1>6. QED
  BY <1>5

(* A key that has a node is found, in the slot of that node if each is      *)
(* where its lookup ends.                                                   *)
LEMMA LookupOfNode ==
  ASSUME NEW s, Loose(s), NEW i \in 0..s.number_nodes - 1, s.nodes[i] # NoKey
  PROVE  LET g == GetIndex(s, s.nodes[i])
         IN /\ g.index \in 0..s.number_nodes - 1
            /\ s.nodes[g.index] \in {NoKey, s.nodes[i]}
            /\ \E m : EndsAt(s, s.nodes[i], m) /\ g.index = ProbeAt(s, s.nodes[i], m)
            /\ g.index # i => s.nodes[g.index] = NoKey
            /\ g.index = i => g.ret = SET_TRUE
<1> DEFINE k == s.nodes[i]
<1>1. SetTyped(s) /\ k \in Keys
  BY DEF Loose, SetTyped
<1>2. PICK m : EndsAt(s, k, m)
  BY <1>1, LookupHasEnd
<1>3. m \in Nat /\ s.nodes[ProbeAt(s, k, m)] \in {NoKey, k}
  BY <1>1, <1>2 DEF EndsAt
<1>4. ProbeAt(s, k, m) \in 0..s.number_nodes - 1
  BY <1>1, <1>3, ProbeInside
<1>5. /\ GetIndex(s, k).index = ProbeAt(s, k, m)
      /\ GetIndex(s, k).ret = IF s.nodes[ProbeAt(s, k, m)] = k THEN SET_TRUE ELSE SET_FALSE
  BY <1>1, <1>2, LookupEnds
<1>6. GetIndex(s, k).index # i => s.nodes[GetIndex(s, k).index] = NoKey
  BY <1>3, <1>4, <1>5 DEF Loose
<1>7. QED
  BY <1>2, <1>3, <1>4, <1>5, <1>6

(* What MoveNode does. *)
LEMMA MoveIs ==
  ASSUME NEW s, Loose(s), NEW i \in 0..s.number_nodes - 1
  PROVE  LET k == s.nodes[i]
             to == GetIndex(s, k).index
             t == MoveNode(s, i)
         IN \/ k = NoKey /\ t = s
            \/ k # NoKey /\ to = i /\ t = s
            \/ /\ k # NoKey /\ to # i /\ to \in 0..s.number_nodes - 1 /\ s.nodes[to] = NoKey
               /\ SetTyped(t) /\ t.number_nodes = s.number_nodes /\ t.used_nodes = s.used_nodes
               /\ \A l \in 0..s.number_nodes - 1 :
                    t.nodes[l] = IF l = to THEN k ELSE IF l = i THEN NoKey ELSE s.nodes[l]
<1> DEFINE k == s.nodes[i]
           to == GetIndex(s, k).index
           t == MoveNode(s, i)
           n == s.number_nodes
           w == [[s.nodes EXCEPT ![i] = NoKey] EXCEPT ![to] = k]
<1>1. SetTyped(s) /\ n \in Nat \ {0} /\ k \in Keys \cup {NoKey} /\ s.nodes \in [0..n - 1 -> Keys \cup {NoKey}]
  BY DEF Loose, SetTyped
<1>2. CASE k = NoKey
  BY <1>2 DEF MoveNode
<1>3. ASSUME k # NoKey
      PROVE  to \in 0..n - 1 /\ (to # i => s.nodes[to] = NoKey)
  BY <1>3, LookupOfNode
<1>4. ASSUME k # NoKey
      PROVE  t = [s EXCEPT !.nodes = w]
  BY <1>4 DEF MoveNode
<1>5. ASSUME k # NoKey
      PROVE  /\ w \in [0..n - 1 -> Keys \cup {NoKey}]
             /\ \A l \in 0..n - 1 : w[l] = IF l = to THEN k ELSE IF l = i THEN NoKey ELSE s.nodes[l]
  <2> HIDE DEF to, k
  <2>1. QED
    BY <1>1, <1>3, <1>5
<1>6. CASE k # NoKey /\ to = i
  <2>1. \A l \in 0..n - 1 : w[l] = s.nodes[l]
    BY <1>5, <1>6
  <2>5. w \in [0..n - 1 -> Keys \cup {NoKey}]
    BY <1>5, <1>6
  <2> HIDE DEF w, to, t
  <2>2. w = s.nodes
    <3> HIDE DEF n
    <3>1. QED
      BY <1>1, <2>1, <2>5
  <2>3. t = s
    BY <1>1, <1>4, <1>6, <2>2 DEF SetTyped
  <2>4. QED
    BY <1>6, <2>3 DEF to, t
<1>7. CASE k # NoKey /\ to # i
  <2> HIDE DEF w, to, t
  <2>1. t = [nodes |-> w, number_nodes |-> n, used_nodes |-> s.used_nodes]
    BY <1>1, <1>4, <1>7 DEF SetTyped
  <2>2. t.nodes = w /\ t.number_nodes = n /\ t.used_nodes = s.used_nodes
    BY <2>1
  <2>3. SetTyped(t)
    BY <1>1, <1>5, <1>7, <2>1, <2>2 DEF SetTyped
  <2>4. QED
    BY <1>3, <1>5, <1>7, <2>2, <2>3 DEF to, t
<1>8. QED
  BY <1>2, <1>6, <1>7

(* The slots that a lookup of a key passes before it comes to its node, for *)
(* each key: what a pass of __relayout_nodes() can only make fewer.         *)
Ahead(s) ==
  {p \in Elements(s) \X (0..s.number_nodes - 1) :
     \A j \in 0..p[2] : s.nodes[ProbeAt(s, p[1], j)] # p[1]}

LEMMA ElementsAre ==
  ASSUME NEW s, SetTyped(s)
  PROVE  /\ \A k : k \in Elements(s) <=> k # NoKey /\ \E i \in 0..s.number_nodes - 1 : s.nodes[i] = k
         /\ Elements(s) \subseteq Keys
<1>1. DOMAIN s.nodes = 0..s.number_nodes - 1
  BY DEF SetTyped
<1>2. \A k : k \in Elements(s) <=> k # NoKey /\ \E i \in 0..s.number_nodes - 1 : s.nodes[i] = k
  BY <1>1 DEF Elements
<1>3. Elements(s) \subseteq Keys
  BY <1>2 DEF SetTyped
<1>4. QED
  BY <1>2, <1>3

(* A turn moves a node nearer to its own slot, or nothing.                  *)
LEMMA MoveKeeps ==
  ASSUME NEW s, Loose(s), NEW i \in 0..s.number_nodes - 1
  PROVE  LET t == MoveNode(s, i)
         IN /\ Loose(t) /\ t.number_nodes = s.number_nodes /\ t.used_nodes = s.used_nodes
            /\ Elements(t) = Elements(s)
            /\ t = s \/ (Ahead(t) \subseteq Ahead(s) /\ Ahead(t) # Ahead(s))
<1> DEFINE k == s.nodes[i]
           to == GetIndex(s, k).index
           t == MoveNode(s, i)
           n == s.number_nodes
<1>1. CASE t = s
  BY <1>1
<1>2. CASE t # s
  <2>1. /\ k # NoKey /\ to # i /\ to \in 0..n - 1 /\ s.nodes[to] = NoKey
        /\ SetTyped(t) /\ t.number_nodes = n /\ t.used_nodes = s.used_nodes
        /\ \A l \in 0..n - 1 : t.nodes[l] = IF l = to THEN k ELSE IF l = i THEN NoKey ELSE s.nodes[l]
    BY <1>2, MoveIs
  <2>2. PICK m : EndsAt(s, k, m) /\ to = ProbeAt(s, k, m)
    BY <2>1, LookupOfNode
  <2>3. SetTyped(s) /\ n \in Nat \ {0} /\ k \in Keys
    BY <2>1 DEF Loose, SetTyped
  <2> HIDE DEF t, to, k
  <2>4. Loose(t)
    <3>1. \A l, o \in 0..n - 1 : t.nodes[l] = t.nodes[o] /\ t.nodes[l] # NoKey => l = o
      BY <2>1 DEF Loose, k
    <3>2. QED
      BY <2>1, <3>1 DEF Loose
  <2>5. \A x : x \in Elements(t) <=> x \in Elements(s)
    <3>1. \A x : x \in Elements(t) <=> x # NoKey /\ \E l \in 0..n - 1 : t.nodes[l] = x
      BY <2>1, ElementsAre
    <3>2. \A x : x \in Elements(s) <=> x # NoKey /\ \E l \in 0..n - 1 : s.nodes[l] = x
      BY <2>3, ElementsAre
    <3>3. QED
      BY <2>1, <3>1, <3>2 DEF k
  <2>6. Elements(t) = Elements(s)
    BY <2>5
  <2>7. \A x, j : ProbeAt(t, x, j) = ProbeAt(s, x, j)
    BY <2>1 DEF ProbeAt
  <2>8. ASSUME NEW p \in Ahead(t)
        PROVE  p \in Ahead(s)
    <3>1. /\ p \in Elements(s) \X (0..n - 1)
          /\ \A j \in 0..p[2] : t.nodes[ProbeAt(s, p[1], j)] # p[1]
      BY <2>1, <2>6, <2>7, <2>8 DEF Ahead
    <3>2. p[1] \in Keys /\ p[1] # NoKey /\ p[2] \in 0..n - 1
      BY <2>3, <3>1, ElementsAre
    <3>3. ASSUME NEW j \in 0..p[2]
          PROVE  s.nodes[ProbeAt(s, p[1], j)] # p[1]
      <4>1. ProbeAt(s, p[1], j) \in 0..n - 1
        BY <2>3, <3>2, ProbeInside
      <4>2. t.nodes[ProbeAt(s, p[1], j)] # p[1]
        BY <3>1
      <4>3. CASE p[1] # k
        BY <2>1, <3>2, <4>1, <4>2, <4>3 DEF k
      <4>4. CASE p[1] = k
        <5>1. p[2] < m
          <6>1. SUFFICES ASSUME m <= p[2]
                         PROVE  FALSE
            BY <2>2, <3>2 DEF EndsAt
          <6>2. m \in 0..p[2]
            BY <2>2, <3>2, <6>1 DEF EndsAt
          <6>3. QED
            BY <2>1, <2>2, <3>1, <4>4, <6>2
        <5>2. j \in 0..m - 1
          BY <2>2, <3>2, <5>1 DEF EndsAt
        <5>3. QED
          BY <2>2, <4>4, <5>2 DEF EndsAt
      <4>5. QED
        BY <4>3, <4>4
    <3>4. QED
      BY <3>1, <3>3 DEF Ahead
  <2>9. <<k, m>> \in Ahead(s)
    <3>1. k \in Elements(s) /\ m \in 0..n - 1
      BY <2>1, <2>2, <2>3, ElementsAre DEF k, EndsAt
    <3>2. \A j \in 0..m : s.nodes[ProbeAt(s, k, j)] # k
      <4>1. \A j \in 0..m - 1 : s.nodes[ProbeAt(s, k, j)] # k
        BY <2>2 DEF EndsAt
      <4>2. s.nodes[ProbeAt(s, k, m)] # k
        BY <2>1, <2>2
      <4>3. \A j \in 0..m : j = m \/ j \in 0..m - 1
        BY <3>1
      <4>4. QED
        BY <4>1, <4>2, <4>3
    <3>3. QED
      BY <3>1, <3>2 DEF Ahead
  <2>10. <<k, m>> \notin Ahead(t)
    <3>1. t.nodes[ProbeAt(t, k, m)] = k /\ m \in 0..m
      BY <2>1, <2>2, <2>7 DEF EndsAt
    <3>2. QED
      BY <3>1 DEF Ahead
  <2>11. QED
    BY <2>1, <2>4, <2>6, <2>8, <2>9, <2>10 DEF t
<1>3. QED
  BY <1>1, <1>2

LEMMA AheadCount ==
  ASSUME NEW s, Loose(s)
  PROVE  /\ IsFiniteSet(Ahead(s)) /\ Cardinality(Ahead(s)) \in Nat
         /\ Cardinality(Ahead(s)) <= s.number_nodes * s.number_nodes
         /\ IsFiniteSet(Elements(s)) /\ Cardinality(Elements(s)) \in Nat
         /\ Cardinality(Elements(s)) <= s.number_nodes
<1> DEFINE n == s.number_nodes
           E == Elements(s)
           D == 0..n - 1
           slot == [k \in E |-> CHOOSE i \in D : s.nodes[i] = k]
<1>1. SetTyped(s) /\ n \in Nat \ {0}
  BY DEF Loose, SetTyped
<1>2. IsFiniteSet(D) /\ Cardinality(D) = n
  <2>1. n - 1 \in Int /\ 0 \in Int /\ ~(0 > n - 1) /\ n - 1 - 0 + 1 = n
    BY <1>1
  <2> HIDE DEF n
  <2>2. QED
    BY <2>1, FS_Interval
<1>3. \A k \in E : slot[k] \in D /\ s.nodes[slot[k]] = k
  BY <1>1, ElementsAre
<1> HIDE DEF slot
<1>4. slot \in [E -> D]
  BY <1>3 DEF slot
<1>5. slot \in Injection(E, D)
  BY <1>3, <1>4 DEF Injection, IsInjective
<1>6. IsFiniteSet(E) /\ Cardinality(E) <= n
  BY <1>2, <1>5, FS_Injection
<1>7. Cardinality(E) \in Nat
  BY <1>6, FS_CardinalityType
<1>8. IsFiniteSet(E \X D) /\ Cardinality(E \X D) = Cardinality(E) * Cardinality(D)
  BY <1>2, <1>6, FS_Product
<1>9. Cardinality(E) * n <= n * n
  <2>1. PICK d \in Nat : n = Cardinality(E) + d
    <3>1. n - Cardinality(E) \in Nat /\ n = Cardinality(E) + (n - Cardinality(E))
      BY <1>1, <1>6, <1>7
    <3>2. QED
      BY <3>1
  <2> DEFINE c == Cardinality(E)
  <2>2. n * n = c * n + d * n /\ d * n \in Nat /\ c * n \in Nat
    <3> HIDE DEF c
    <3>1. QED
      BY <1>1, <1>7, <2>1 DEF c
  <2>3. QED
    BY <2>2
<1>10. Ahead(s) \in SUBSET (E \X D)
  BY DEF Ahead
<1>11. IsFiniteSet(Ahead(s)) /\ Cardinality(Ahead(s)) <= Cardinality(E \X D)
  BY <1>8, <1>10, FS_Subset
<1>12. Cardinality(Ahead(s)) \in Nat
  BY <1>11, FS_CardinalityType
<1>13. QED
  BY <1>1, <1>2, <1>6, <1>7, <1>8, <1>9, <1>11, <1>12

(* The layouts of the contents of s in its array.                           *)
Layouts(s) ==
  {t \in [nodes : [0..s.number_nodes - 1 -> Keys \cup {NoKey}], number_nodes : {s.number_nodes},
          used_nodes : {s.used_nodes}] :
     Loose(t) /\ Elements(t) = Elements(s)}

LEMMA LayoutsAre ==
  ASSUME NEW s, Loose(s)
  PROVE  \A t : t \in Layouts(s) <=>
           /\ Loose(t) /\ t.number_nodes = s.number_nodes /\ t.used_nodes = s.used_nodes
           /\ Elements(t) = Elements(s)
<1> SUFFICES ASSUME NEW t,
                    Loose(t), t.number_nodes = s.number_nodes, t.used_nodes = s.used_nodes
             PROVE  t \in [nodes : [0..s.number_nodes - 1 -> Keys \cup {NoKey}],
                           number_nodes : {s.number_nodes}, used_nodes : {s.used_nodes}]
  BY DEF Layouts
<1>1. QED
  BY DEF Loose, SetTyped

Weight(s) == Cardinality(Ahead(s))

LEMMA MoveWeighs ==
  ASSUME NEW s, Loose(s), NEW i \in 0..s.number_nodes - 1
  PROVE  MoveNode(s, i) = s \/ Weight(MoveNode(s, i)) < Weight(s)
<1>1. SUFFICES ASSUME MoveNode(s, i) # s
               PROVE  Weight(MoveNode(s, i)) < Weight(s)
  OBVIOUS
<1>2. Loose(MoveNode(s, i)) /\ Ahead(MoveNode(s, i)) \in SUBSET Ahead(s) /\ Ahead(MoveNode(s, i)) # Ahead(s)
  BY <1>1, MoveKeeps
<1>3. IsFiniteSet(Ahead(s)) /\ Weight(s) \in Nat /\ Weight(MoveNode(s, i)) \in Nat
  BY <1>2, AheadCount DEF Weight
<1>4. Weight(MoveNode(s, i)) <= Weight(s) /\ Weight(MoveNode(s, i)) # Weight(s)
  BY <1>2, <1>3, FS_Subset DEF Weight
<1>5. QED
  BY <1>3, <1>4

(* A pass keeps the contents; it moves a node, or each is in its place.     *)
LEMMA PassKeeps ==
  ASSUME NEW s, Loose(s)
  PROVE  /\ RelayoutPass(s) \in Layouts(s)
         /\ RelayoutPass(s) = s \/ Weight(RelayoutPass(s)) < Weight(s)
         /\ RelayoutPass(s) = s => Placed(s)
<1> DEFINE n == s.number_nodes
           S == {t \in Layouts(s) : t = s \/ Weight(t) < Weight(s)}
<1>1. n \in Nat \ {0} /\ s \in Layouts(s) /\ Weight(s) \in Nat
  BY LayoutsAre, AheadCount DEF Loose, SetTyped, Weight
<1>2. \A t : t \in Layouts(s) => Loose(t) /\ t.number_nodes = n /\ Weight(t) \in Nat
  BY LayoutsAre, AheadCount DEF Weight
<1>3. ASSUME NEW i \in 0..n - 1, NEW t \in S
      PROVE  MoveNode(t, i) \in S
  <2>1. /\ Loose(t) /\ t.number_nodes = n /\ t.used_nodes = s.used_nodes /\ Elements(t) = Elements(s)
        /\ Weight(t) \in Nat
    BY <1>2, LayoutsAre
  <2>2. MoveNode(t, i) \in Layouts(s)
    <3>1. LET u == MoveNode(t, i)
          IN /\ Loose(u) /\ u.number_nodes = n /\ u.used_nodes = s.used_nodes
             /\ Elements(u) = Elements(s)
      BY <2>1, MoveKeeps
    <3>2. QED
      BY <3>1, LayoutsAre
  <2>3. MoveNode(t, i) = t \/ Weight(MoveNode(t, i)) < Weight(t)
    BY <2>1, MoveWeighs
  <2>4. Weight(MoveNode(t, i)) \in Nat
    BY <1>2, <2>2
  <2>5. MoveNode(t, i) = s \/ Weight(MoveNode(t, i)) < Weight(s)
    BY <1>1, <2>1, <2>3, <2>4
  <2>6. QED
    BY <2>2, <2>5
<1>4. s \in S
  BY <1>1
<1> HIDE DEF S
<1>5. PICK f \in [0..n -> S] : /\ f[0] = s /\ \A i \in 0..n - 1 : f[i + 1] = MoveNode(f[i], i)
                               /\ RelayoutPass(s) = f[n]
  BY <1>1, <1>3, <1>4, PassTurns
<1>6. f[n] \in S
  BY <1>1, <1>5
<1>7. RelayoutPass(s) \in Layouts(s) /\ (RelayoutPass(s) = s \/ Weight(RelayoutPass(s)) < Weight(s))
  BY <1>5, <1>6 DEF S
<1>8. ASSUME f[n] = s
      PROVE  \A j \in 0..n : f[j] = s
  <2> DEFINE Q == {i \in Nat : i <= n => (f[i] = s => \A j \in 0..i : f[j] = s)}
  <2>1. 0 \in Q
    BY <1>5
  <2>2. ASSUME NEW i \in Q
        PROVE  i + 1 \in Q
    <3>1. SUFFICES ASSUME i + 1 <= n, f[i + 1] = s
                   PROVE  \A j \in 0..i + 1 : f[j] = s
      OBVIOUS
    <3>2. i \in 0..n - 1 /\ i \in 0..n /\ f[i + 1] = MoveNode(f[i], i) /\ f[i] \in S
      BY <1>1, <1>5, <3>1
    <3>3. Loose(f[i]) /\ f[i].number_nodes = n /\ Weight(f[i]) \in Nat
          /\ (f[i] = s \/ Weight(f[i]) < Weight(s))
      BY <1>2, <3>2 DEF S
    <3>4. s = f[i] \/ Weight(s) < Weight(f[i])
      BY <3>1, <3>2, <3>3, MoveWeighs
    <3>5. f[i] = s
      BY <1>1, <3>3, <3>4
    <3>6. \A j \in 0..i : f[j] = s
      BY <1>1, <3>1, <3>5
    <3>7. \A j \in 0..i + 1 : j \in 0..i \/ j = i + 1
      OBVIOUS
    <3>8. QED
      BY <3>1, <3>6, <3>7
  <2>3. Q = Nat
    <3> HIDE DEF Q
    <3>1. Q \in SUBSET Nat
      BY DEF Q
    <3>2. QED
      BY <2>1, <2>2, <3>1, AllNat
  <2>4. QED
    BY <1>1, <1>8, <2>3
<1>9. ASSUME f[n] = s, NEW i \in 0..n - 1, s.nodes[i] # NoKey
      PROVE  GetIndex(s, s.nodes[i]).index = i
  <2>1. i \in 0..n /\ i + 1 \in 0..n
    BY <1>1
  <2>2. MoveNode(s, i) = s
    BY <1>5, <1>8, <1>9, <2>1
  <2>3. QED
    BY <1>9, <2>2, MoveIs
<1>10. QED
  BY <1>5, <1>7, <1>9 DEF Placed

(* Passes that each move a node come to an end.                             *)
LEMMA PassesEnd ==
  ASSUME NEW s, Loose(s), NEW f \in [Nat -> Layouts(s)], f[0] = s,
         \A i \in Nat : f[i + 1] = RelayoutPass(f[i])
  PROVE  \E i \in 0..s.number_nodes * s.number_nodes : f[i + 1] = f[i]
<1> DEFINE B == s.number_nodes * s.number_nodes
<1>1. B \in Nat /\ Weight(s) \in Nat /\ Weight(s) <= B
  <2>1. s.number_nodes \in Nat
    BY DEF Loose, SetTyped
  <2>2. QED
    BY <2>1, AheadCount DEF Weight
<1> HIDE DEF B
<1>2. SUFFICES ASSUME \A i \in 0..B : f[i + 1] # f[i]
               PROVE  FALSE
  BY DEF B
<1>3. \A i \in Nat : Loose(f[i]) /\ Weight(f[i]) \in Nat
  BY LayoutsAre, AheadCount DEF Weight
<1> DEFINE Q == {i \in Nat : i <= B + 1 => Weight(f[i]) + i <= Weight(s)}
<1>4. 0 \in Q
  BY <1>1
<1>5. ASSUME NEW i \in Q
      PROVE  i + 1 \in Q
  <2>1. SUFFICES ASSUME i + 1 <= B + 1
                 PROVE  Weight(f[i + 1]) + (i + 1) <= Weight(s)
    OBVIOUS
  <2>2. i \in Nat /\ i \in 0..B /\ i <= B + 1
    BY <1>1, <2>1
  <2>3. Weight(f[i]) + i <= Weight(s)
    BY <2>2
  <2>4. Weight(f[i + 1]) < Weight(f[i])
    BY <1>2, <1>3, <2>2, PassKeeps
  <2>5. QED
    BY <1>1, <1>3, <2>2, <2>3, <2>4
<1>6. Q = Nat
  <2> HIDE DEF Q
  <2>1. Q \in SUBSET Nat
    BY DEF Q
  <2>2. QED
    BY <1>4, <1>5, <2>1, AllNat
<1>7. B + 1 \in Q
  BY <1>1, <1>6
<1>8. Weight(f[B + 1]) + (B + 1) <= Weight(s)
  BY <1>1, <1>7
<1>9. QED
  BY <1>1, <1>3, <1>8

(* __relayout_nodes() keeps the contents and puts each node in its place.   *)
LEMMA RelayoutKeeps ==
  ASSUME NEW s, Loose(s)
  PROVE  Relayout(s) \in Layouts(s) /\ Placed(Relayout(s))
<1> DEFINE S == Layouts(s)
           step == [p \in Nat \X S |-> RelayoutPass(p[2])]
           B == s.number_nodes * s.number_nodes
<1>1. s \in S
  BY LayoutsAre
<1>2. \A t \in S : Loose(t) /\ RelayoutPass(t) \in S
  <2>1. \A t \in S : /\ Loose(t) /\ t.number_nodes = s.number_nodes /\ t.used_nodes = s.used_nodes
                     /\ Elements(t) = Elements(s) /\ RelayoutPass(t) \in Layouts(t)
    BY LayoutsAre, PassKeeps
  <2>2. \A t \in S : Layouts(t) = S
    BY <2>1 DEF Layouts
  <2>3. QED
    BY <2>1, <2>2
<1> HIDE DEF S
<1>3. \A i \in Nat, t \in S : step[<<i, t>>] = RelayoutPass(t)
  OBVIOUS
<1> HIDE DEF step
<1>4. Turns(S, step)
  BY <1>2, <1>3 DEF Turns
<1>5. PICK f \in LoopStates(S, s, step) : TRUE
  BY <1>1, <1>4, LoopRuns
<1>6. f \in [Nat -> S] /\ f[0] = s /\ \A i \in Nat : f[i + 1] = RelayoutPass(f[i])
  BY <1>3, <1>5 DEF LoopStates
<1> DEFINE Turn(g) == g = [i \in Nat |-> IF i = 0 THEN s ELSE RelayoutPass(g[i - 1])]
           turn == CHOOSE g : Turn(g)
<1>7. Turn(f)
  <2>1. \A i \in Nat : i # 0 => i - 1 \in Nat /\ (i - 1) + 1 = i
    OBVIOUS
  <2>2. \A i \in Nat : i # 0 => f[i] = RelayoutPass(f[i - 1])
    BY <1>6, <2>1
  <2>3. QED
    BY <1>6, <2>2
<1>8. Turn(turn)
  <2> HIDE DEF Turn
  <2>1. QED
    BY <1>7
<1>9. Relayout(s) = turn[CHOOSE i \in 0..B : turn[i + 1] = turn[i]]
  BY DEF Relayout
<1> HIDE DEF turn
<1>10. turn[0] = s /\ \A i \in Nat : turn[i + 1] = RelayoutPass(turn[i])
  BY <1>8
<1>11. \A i \in Nat : turn[i] = f[i]
  <2> TAKE m \in Nat
  <2>1. SameTurns(m, f, turn)
    BY <1>6, <1>10 DEF SameTurns
  <2>2. QED
    BY <2>1, SameLoop
<1>12. \E i \in 0..B : turn[i + 1] = turn[i]
  <2>1. \E i \in 0..B : f[i + 1] = f[i]
    BY <1>6, PassesEnd DEF S
  <2>2. QED
    BY <1>11, <2>1
<1> DEFINE e == CHOOSE i \in 0..B : turn[i + 1] = turn[i]
<1>13. e \in 0..B /\ turn[e + 1] = turn[e]
  BY <1>12
<1> HIDE DEF e
<1>14. e \in Nat
  BY <1>13
<1>15. turn[e] \in S /\ RelayoutPass(turn[e]) = turn[e]
  BY <1>6, <1>10, <1>11, <1>13, <1>14
<1>16. Placed(turn[e])
  BY <1>2, <1>15, PassKeeps
<1>17. QED
  BY <1>9, <1>15, <1>16 DEF S, e

USE DEF SET_TRUE, SET_FALSE, SET_MALLOC_ERROR, SET_CIRCULAR_ERROR, SET_ALREADY_PRESENT

(* Fewer nodes than slots leave one free.                                   *)
LEMMA HasFree ==
  ASSUME NEW s, Loose(s), Cardinality(Elements(s)) < s.number_nodes
  PROVE  \E i \in 0..s.number_nodes - 1 : s.nodes[i] = NoKey
<1> DEFINE n == s.number_nodes
           D == 0..n - 1
           E == Elements(s)
<1>1. SUFFICES ASSUME \A i \in D : s.nodes[i] # NoKey
               PROVE  FALSE
  OBVIOUS
<1>2. SetTyped(s) /\ n \in Nat \ {0} /\ s.nodes \in [D -> Keys \cup {NoKey}]
  BY DEF Loose, SetTyped
<1>3. \A i \in D : s.nodes[i] \in E
  BY <1>1, <1>2, ElementsAre
<1> HIDE DEF E
<1>4. s.nodes \in [D -> E]
  BY <1>2, <1>3
<1>5. \A i, j \in D : s.nodes[i] = s.nodes[j] => i = j
  BY <1>1 DEF Loose
<1> HIDE DEF D
<1>6. s.nodes \in Injection(D, E)
  BY <1>4, <1>5 DEF Injection, IsInjective
<1>7. Cardinality(D) <= Cardinality(E)
  BY <1>6, AheadCount, FS_Injection DEF E
<1>8. Cardinality(D) = n
  <2>1. n - 1 \in Int /\ 0 \in Int /\ ~(0 > n - 1) /\ n - 1 - 0 + 1 = n
    BY <1>2
  <2> HIDE DEF n
  <2>2. QED
    BY <2>1, FS_Interval DEF D
<1>9. QED
  BY <1>2, <1>7, <1>8, AheadCount DEF E

(* What a lookup says where each node is in its place and a slot is free.   *)
LookupSays(s, k) ==
  LET g == GetIndex(s, k)
  IN /\ g.index \in 0..s.number_nodes - 1
     /\ s.nodes[g.index] = IF k \in Elements(s) THEN k ELSE NoKey
     /\ g.ret = IF k \in Elements(s) THEN SET_TRUE ELSE SET_FALSE
     /\ \E m : EndsAt(s, k, m) /\ g.index = ProbeAt(s, k, m)

Free(s) == \E i \in 0..s.number_nodes - 1 : s.nodes[i] = NoKey

LEMMA LookupFinds ==
  ASSUME NEW s, Loose(s), Placed(s), Free(s), NEW k \in Keys
  PROVE  LookupSays(s, k)
<1>1. SetTyped(s) /\ k # NoKey
  BY KeysAssumption DEF Loose
<1>2. PICK m : EndsAt(s, k, m)
  BY <1>1, LookupHasEnd DEF Free
<1> DEFINE i == ProbeAt(s, k, m)
<1>3. m \in Nat /\ i \in 0..s.number_nodes - 1 /\ s.nodes[i] \in {NoKey, k}
  <2>1. m \in Nat /\ s.nodes[i] \in {NoKey, k}
    BY <1>1, <1>2 DEF EndsAt
  <2>2. QED
    BY <1>1, <2>1, ProbeInside
<1>4. /\ GetIndex(s, k).index = i
      /\ GetIndex(s, k).ret = IF s.nodes[i] = k THEN SET_TRUE ELSE SET_FALSE
  BY <1>1, <1>2, LookupEnds
<1>5. k \in Elements(s) => s.nodes[i] = k
  <2>1. SUFFICES ASSUME NEW l \in 0..s.number_nodes - 1, s.nodes[l] = k
                 PROVE  s.nodes[i] = k
    BY <1>1, ElementsAre
  <2>2. GetIndex(s, k).index = l
    BY <1>1, <2>1 DEF Placed
  <2>3. QED
    BY <1>4, <2>1, <2>2
<1>6. k \notin Elements(s) => s.nodes[i] = NoKey
  BY <1>1, <1>3, ElementsAre
<1>7. QED
  BY <1>1, <1>2, <1>3, <1>4, <1>5, <1>6 DEF LookupSays

(* A node put where the lookup of its key ends disturbs no other lookup.    *)
LEMMA NodeAdded ==
  ASSUME NEW s, Loose(s), Placed(s), Free(s), NEW k \in Keys, k \notin Elements(s)
  PROVE  LET t == [s EXCEPT !.nodes[GetIndex(s, k).index] = k, !.used_nodes = @ + 1]
         IN /\ Loose(t) /\ Placed(t) /\ Elements(t) = Elements(s) \cup {k}
            /\ t.number_nodes = s.number_nodes /\ t.used_nodes = s.used_nodes + 1
<1> DEFINE i == GetIndex(s, k).index
           n == s.number_nodes
           t == [s EXCEPT !.nodes[i] = k, !.used_nodes = @ + 1]
           w == [s.nodes EXCEPT ![i] = k]
<1>1. /\ SetTyped(s) /\ n \in Nat \ {0} /\ s.nodes \in [0..n - 1 -> Keys \cup {NoKey}]
      /\ s.used_nodes \in Nat /\ k # NoKey
  BY KeysAssumption DEF Loose, SetTyped
<1>2. i \in 0..n - 1 /\ s.nodes[i] = NoKey /\ \E m : EndsAt(s, k, m) /\ i = ProbeAt(s, k, m)
  BY LookupFinds DEF LookupSays
<1> HIDE DEF i
<1>3. t = [nodes |-> w, number_nodes |-> n, used_nodes |-> s.used_nodes + 1]
  <2>1. s = [nodes |-> s.nodes, number_nodes |-> s.number_nodes, used_nodes |-> s.used_nodes]
    BY <1>1 DEF SetTyped
  <2> DEFINE u == [s EXCEPT !.nodes = w]
  <2>2. t = [u EXCEPT !.used_nodes = s.used_nodes + 1]
    OBVIOUS
  <2> HIDE DEF w, t
  <2>3. u = [nodes |-> w, number_nodes |-> n, used_nodes |-> s.used_nodes]
    BY <2>1
  <2> HIDE DEF u
  <2>4. QED
    BY <2>2, <2>3
<1>4. w \in [0..n - 1 -> Keys \cup {NoKey}] /\ \A l \in 0..n - 1 : w[l] = IF l = i THEN k ELSE s.nodes[l]
  BY <1>1, <1>2
<1> HIDE DEF w, t
<1>5. t.nodes = w /\ t.number_nodes = n /\ t.used_nodes = s.used_nodes + 1
  BY <1>3
<1>6. SetTyped(t)
  BY <1>1, <1>3, <1>4, <1>5 DEF SetTyped
<1>7. \A x : x \in Elements(s) <=> x # NoKey /\ \E l \in 0..n - 1 : s.nodes[l] = x
  BY <1>1, ElementsAre
<1>8. \A x : x \in Elements(t) <=> x # NoKey /\ \E l \in 0..n - 1 : w[l] = x
  BY <1>5, <1>6, ElementsAre
<1>9. \A x : x \in Elements(t) <=> x \in Elements(s) \/ x = k
  BY <1>1, <1>2, <1>4, <1>7, <1>8, ZenonT(60)
<1>10. \A l \in 0..n - 1 : s.nodes[l] # k
  BY <1>1, <1>7
<1>11. Loose(t)
  <2>1. \A l, o \in 0..n - 1 : w[l] = w[o] /\ w[l] # NoKey => l = o
    BY <1>4, <1>10 DEF Loose
  <2>2. QED
    BY <1>5, <1>6, <2>1 DEF Loose
<1>12. \A x, j : ProbeAt(t, x, j) = ProbeAt(s, x, j)
  BY <1>5 DEF ProbeAt
<1>13. ASSUME NEW l \in 0..n - 1, w[l] # NoKey
       PROVE  GetIndex(t, w[l]).index = l
  <2> DEFINE x == w[l]
  <2>1. x \in Keys
    BY <1>4, <1>13
  <2>2. \E m : EndsAt(s, x, m) /\ l = ProbeAt(s, x, m)
    <3>1. CASE l = i
      <4>1. x = k
        BY <1>4, <3>1
      <4>2. QED
        BY <1>2, <3>1, <4>1
    <3>2. CASE l # i
      <4>1. x = s.nodes[l] /\ x # NoKey
        BY <1>4, <1>13, <3>2
      <4>2. GetIndex(s, x).index = l
        BY <4>1 DEF Placed
      <4>3. \E m : EndsAt(s, x, m) /\ GetIndex(s, x).index = ProbeAt(s, x, m)
        BY <4>1, LookupOfNode
      <4>4. QED
        BY <4>2, <4>3
    <3>3. QED
      BY <3>1, <3>2
  <2>3. PICK m : EndsAt(s, x, m) /\ l = ProbeAt(s, x, m)
    BY <2>2
  <2>4. m \in 0..n - 1
    BY <2>3 DEF EndsAt
  <2>5. ASSUME NEW j \in 0..m - 1
        PROVE  w[ProbeAt(s, x, j)] \notin {NoKey, x}
    <3>4. j \in Nat
      BY <1>1, <2>4
    <3>1. ProbeAt(s, x, j) \in 0..n - 1
      BY <1>1, <2>1, <3>4, ProbeInside
    <3>2. s.nodes[ProbeAt(s, x, j)] \notin {NoKey, x}
      BY <2>3, <2>5 DEF EndsAt
    <3>3. QED
      BY <1>2, <1>4, <3>1, <3>2
  <2>6. EndsAt(t, x, m)
    BY <1>5, <1>12, <2>3, <2>4, <2>5 DEF EndsAt
  <2>7. QED
    BY <1>6, <1>12, <2>1, <2>3, <2>6, LookupEnds
<1>14. Placed(t)
  BY <1>5, <1>13 DEF Placed
<1>15. Elements(t) = Elements(s) \cup {k}
  BY <1>9
<1>16. QED
  BY <1>5, <1>11, <1>14, <1>15 DEF t, i

(* The array of twice the size, before the nodes are laid out again.        *)
LEMMA GrowKeeps ==
  ASSUME NEW s, Loose(s)
  PROVE  LET t == SetGrown(s)
         IN /\ Loose(t) /\ Placed(t) /\ Elements(t) = Elements(s)
            /\ t.number_nodes = 2 * s.number_nodes /\ t.used_nodes = s.used_nodes
<1> DEFINE m == s.number_nodes
           n == 2 * m
           w == [i \in 0..n - 1 |-> IF i \in DOMAIN s.nodes THEN s.nodes[i] ELSE NoKey]
           u == [s EXCEPT !.number_nodes = n, !.nodes = w]
<1>1. /\ SetTyped(s) /\ m \in Nat \ {0} /\ n \in Nat \ {0} /\ m < n
      /\ s.nodes \in [0..m - 1 -> Keys \cup {NoKey}] /\ s.used_nodes \in Nat
  BY DEF Loose, SetTyped
<1>2. SetGrown(s) = Relayout(u)
  BY DEF SetGrown
<1>3. u = [nodes |-> w, number_nodes |-> n, used_nodes |-> s.used_nodes]
  <2>1. s = [nodes |-> s.nodes, number_nodes |-> s.number_nodes, used_nodes |-> s.used_nodes]
    BY <1>1 DEF SetTyped
  <2> DEFINE v == [s EXCEPT !.number_nodes = n]
  <2>2. u = [v EXCEPT !.nodes = w]
    OBVIOUS
  <2> HIDE DEF u, w, n
  <2>3. v = [nodes |-> s.nodes, number_nodes |-> n, used_nodes |-> s.used_nodes]
    BY <2>1
  <2> HIDE DEF v
  <2>4. QED
    BY <2>2, <2>3
<1>4. /\ w \in [0..n - 1 -> Keys \cup {NoKey}]
      /\ \A i \in 0..n - 1 : w[i] = IF i \in 0..m - 1 THEN s.nodes[i] ELSE NoKey
  BY <1>1
<1> HIDE DEF w, u
<1>5. u.nodes = w /\ u.number_nodes = n /\ u.used_nodes = s.used_nodes
  BY <1>3
<1>6. SetTyped(u)
  BY <1>1, <1>3, <1>4, <1>5 DEF SetTyped
<1>7. Loose(u)
  <2>1. \A i, j \in 0..n - 1 : w[i] = w[j] /\ w[i] # NoKey => i = j
    BY <1>4 DEF Loose
  <2>2. QED
    BY <1>5, <1>6, <2>1 DEF Loose
<1>8. Elements(u) = Elements(s)
  <2>1. \A x : x \in Elements(s) <=> x # NoKey /\ \E i \in 0..m - 1 : s.nodes[i] = x
    BY <1>1, ElementsAre
  <2>2. \A x : x \in Elements(u) <=> x # NoKey /\ \E i \in 0..n - 1 : w[i] = x
    BY <1>5, <1>6, ElementsAre
  <2>3. \A i \in 0..m - 1 : i \in 0..n - 1
    BY <1>1
  <2>4. \A x : x \in Elements(u) <=> x \in Elements(s)
    BY <1>4, <2>1, <2>2, <2>3
  <2>5. QED
    BY <2>4
<1>9. Relayout(u) \in Layouts(u) /\ Placed(Relayout(u))
  BY <1>7, RelayoutKeeps
<1>10. /\ Loose(Relayout(u)) /\ Relayout(u).number_nodes = n
       /\ Relayout(u).used_nodes = s.used_nodes /\ Elements(Relayout(u)) = Elements(s)
  BY <1>5, <1>7, <1>8, <1>9, LayoutsAre
<1>11. QED
  BY <1>2, <1>9, <1>10

(* The invariant of a SimpleSet: its nodes are in their places, and there   *)
(* are no more of them than it counts, a quarter of the slots and one.      *)
SetOK(s) ==
  /\ Loose(s) /\ Placed(s)
  /\ Cardinality(Elements(s)) <= s.used_nodes
  /\ s.number_nodes >= 2
  /\ 4 * (s.used_nodes - 1) <= s.number_nodes

LEMMA SetOKFree ==
  ASSUME NEW s, SetOK(s)
  PROVE  /\ Free(s) /\ SetTyped(s) /\ s.number_nodes \in Nat /\ s.used_nodes \in Nat
         /\ IsFiniteSet(Elements(s)) /\ Cardinality(Elements(s)) \in Nat
<1>1. /\ Loose(s) /\ SetTyped(s) /\ s.number_nodes \in Nat /\ s.used_nodes \in Nat
      /\ IsFiniteSet(Elements(s)) /\ Cardinality(Elements(s)) \in Nat
  BY AheadCount DEF SetOK, Loose, SetTyped
<1>2. Cardinality(Elements(s)) < s.number_nodes
  BY <1>1 DEF SetOK
<1>3. QED
  BY <1>1, <1>2, HasFree DEF Free

(* __set_add(): the contents get the key and the count grows by one, or     *)
(* nothing changes, since the key is there or there is no memory.           *)
LEMMA SetAddOK ==
  ASSUME NEW s, SetOK(s), NEW k \in Keys, NEW oom \in BOOLEAN
  PROVE  LET r == SetAdd(s, k, oom)
         IN /\ SetOK(r.set)
            /\ k \in Elements(s) => r.ret = SET_ALREADY_PRESENT /\ r.set = s
            /\ k \notin Elements(s) =>
                 \/ /\ r.ret = SET_TRUE /\ Elements(r.set) = Elements(s) \cup {k}
                    /\ r.set.used_nodes = s.used_nodes + 1
                 \/ oom /\ r.ret = SET_MALLOC_ERROR /\ r.set = s
<1> DEFINE r == SetAdd(s, k, oom)
           t == IF SetFull(s) THEN SetGrown(s) ELSE s
           g == GetIndex(t, k)
           u == [t EXCEPT !.nodes[g.index] = k, !.used_nodes = @ + 1]
<1>1. Free(s) /\ Loose(s) /\ Placed(s) /\ s.number_nodes \in Nat /\ s.used_nodes \in Nat
  BY SetOKFree DEF SetOK
<1>2. SetContains(s, k) = IF k \in Elements(s) THEN SET_TRUE ELSE SET_FALSE
  BY <1>1, LookupFinds DEF LookupSays, SetContains
<1>3. CASE k \in Elements(s)
  BY <1>2, <1>3 DEF SetAdd
<1>4. CASE k \notin Elements(s) /\ SetFull(s) /\ oom
  BY <1>2, <1>4 DEF SetAdd
<1>5. CASE k \notin Elements(s) /\ ~(SetFull(s) /\ oom)
  <2>1. /\ Loose(t) /\ Placed(t) /\ Elements(t) = Elements(s) /\ t.used_nodes = s.used_nodes
        /\ t.number_nodes = IF SetFull(s) THEN 2 * s.number_nodes ELSE s.number_nodes
    BY <1>1, GrowKeeps
  <2>2. /\ t.number_nodes \in Nat /\ t.number_nodes >= 2 /\ t.used_nodes \in Nat
        /\ 4 * t.used_nodes <= t.number_nodes + 4 /\ s.number_nodes <= t.number_nodes
        /\ 4 * t.used_nodes <= t.number_nodes
    BY <1>1, <2>1 DEF SetOK, SetFull
  <2>3. Cardinality(Elements(t)) \in Nat /\ Cardinality(Elements(t)) <= t.used_nodes
        /\ IsFiniteSet(Elements(s))
    BY <1>1, <2>1, AheadCount DEF SetOK
  <2>4. Free(t)
    <3>1. Cardinality(Elements(t)) < t.number_nodes
      BY <2>2, <2>3
    <3>2. QED
      BY <2>1, <3>1, HasFree DEF Free
  <2>5. g.ret = SET_FALSE
    BY <1>5, <2>1, <2>4, LookupFinds DEF LookupSays
  <2>6. r = [set |-> u, ret |-> SET_TRUE]
    BY <1>2, <1>5, <2>5 DEF SetAdd
  <2> HIDE DEF t, r
  <2>11. k \notin Elements(t)
    BY <1>5, <2>1
  <2>7. /\ Loose(u) /\ Placed(u) /\ Elements(u) = Elements(t) \cup {k}
        /\ u.number_nodes = t.number_nodes /\ u.used_nodes = t.used_nodes + 1
    BY <2>1, <2>4, <2>11, NodeAdded
  <2> HIDE DEF u
  <2>8. Cardinality(Elements(u)) = Cardinality(Elements(t)) + 1
    BY <1>5, <2>1, <2>3, <2>7, FS_AddElement
  <2>9. SetOK(u)
    BY <2>2, <2>3, <2>7, <2>8 DEF SetOK
  <2>10. QED
    BY <1>5, <2>1, <2>6, <2>7, <2>9 DEF r
<1>6. QED
  BY <1>3, <1>4, <1>5

(* set_remove(): the contents lose the key, if they had it.                 *)
LEMMA SetRemoveOK ==
  ASSUME NEW s, SetOK(s), NEW k \in Keys
  PROVE  LET r == SetRemove(s, k)
         IN /\ SetOK(r.set) /\ Elements(r.set) = Elements(s) \ {k}
            /\ r.ret = IF k \in Elements(s) THEN SET_TRUE ELSE SET_FALSE
<1> DEFINE r == SetRemove(s, k)
           g == GetIndex(s, k)
           u == [s EXCEPT !.nodes[g.index] = NoKey]
           t == Relayout(u)
           v == [t EXCEPT !.used_nodes = @ - 1]
           n == s.number_nodes
           w == [s.nodes EXCEPT ![g.index] = NoKey]
<1>1. /\ Free(s) /\ Loose(s) /\ Placed(s) /\ SetTyped(s) /\ n \in Nat \ {0} /\ s.used_nodes \in Nat
      /\ s.nodes \in [0..n - 1 -> Keys \cup {NoKey}] /\ k # NoKey
      /\ IsFiniteSet(Elements(s)) /\ Cardinality(Elements(s)) \in Nat
  BY SetOKFree, KeysAssumption DEF SetOK, SetTyped
<1>2. /\ g.index \in 0..n - 1 /\ s.nodes[g.index] = IF k \in Elements(s) THEN k ELSE NoKey
      /\ g.ret = IF k \in Elements(s) THEN SET_TRUE ELSE SET_FALSE
  BY <1>1, LookupFinds DEF LookupSays
<1>3. CASE k \notin Elements(s)
  <2>1. r = [set |-> s, ret |-> SET_FALSE]
    BY <1>2, <1>3 DEF SetRemove
  <2>2. Elements(s) \ {k} = Elements(s)
    BY <1>3
  <2>3. QED
    BY <1>3, <2>1, <2>2
<1>4. CASE k \in Elements(s)
  <2>1. r = [set |-> v, ret |-> SET_TRUE]
    BY <1>2, <1>4 DEF SetRemove
  <2> DEFINE i == g.index
  <2> HIDE DEF g
  <2>2. u = [nodes |-> w, number_nodes |-> n, used_nodes |-> s.used_nodes]
    <3>1. s = [nodes |-> s.nodes, number_nodes |-> s.number_nodes, used_nodes |-> s.used_nodes]
      BY <1>1 DEF SetTyped
    <3>2. u = [s EXCEPT !.nodes = w]
      OBVIOUS
    <3> HIDE DEF u, w
    <3>3. QED
      BY <3>1, <3>2
  <2>3. /\ w \in [0..n - 1 -> Keys \cup {NoKey}]
        /\ \A l \in 0..n - 1 : w[l] = IF l = g.index THEN NoKey ELSE s.nodes[l]
    BY <1>1, <1>2
  <2> HIDE DEF w, u, t
  <2>4. u.nodes = w /\ u.number_nodes = n /\ u.used_nodes = s.used_nodes
    BY <2>2
  <2>5. SetTyped(u)
    BY <1>1, <2>2, <2>3, <2>4 DEF SetTyped
  <2>6. Loose(u)
    <3>1. \A l, o \in 0..n - 1 : w[l] = w[o] /\ w[l] # NoKey => l = o
      BY <1>1, <2>3 DEF Loose
    <3>2. QED
      BY <2>4, <2>5, <3>1 DEF Loose
  <2>7. \A x : x \in Elements(u) <=> x \in Elements(s) /\ x # k
    <3>1. \A x : x \in Elements(s) <=> x # NoKey /\ \E l \in 0..n - 1 : s.nodes[l] = x
      BY <1>1, ElementsAre
    <3>2. \A x : x \in Elements(u) <=> x # NoKey /\ \E l \in 0..n - 1 : w[l] = x
      BY <2>4, <2>5, ElementsAre
    <3>3. \A l \in 0..n - 1 : s.nodes[l] = k <=> l = g.index
      BY <1>1, <1>2, <1>4 DEF Loose
    <3>4. QED
      BY <1>1, <2>3, <3>1, <3>2, <3>3
  <2>8. Elements(u) = Elements(s) \ {k}
    BY <2>7
  <2>9. t \in Layouts(u) /\ Placed(t)
    BY <2>6, RelayoutKeeps DEF t
  <2>10. /\ Loose(t) /\ t.number_nodes = n /\ t.used_nodes = s.used_nodes
         /\ Elements(t) = Elements(s) \ {k}
    BY <2>4, <2>6, <2>8, <2>9, LayoutsAre
  <2>11. Cardinality(Elements(s) \ {k}) = Cardinality(Elements(s)) - 1
    BY <1>1, <1>4, FS_RemoveElement
  <2>12. IsFiniteSet(Elements(s) \ {k}) /\ Cardinality(Elements(s) \ {k}) \in Nat
    BY <1>1, <2>10, AheadCount
  <2>13. Cardinality(Elements(s)) <= s.used_nodes /\ n >= 2 /\ 4 * (s.used_nodes - 1) <= n
    BY DEF SetOK
  <2>14. s.used_nodes - 1 \in Nat
    BY <1>1, <2>11, <2>12, <2>13
  <2>15. v = [nodes |-> t.nodes, number_nodes |-> n, used_nodes |-> s.used_nodes - 1]
    <3>1. t = [nodes |-> t.nodes, number_nodes |-> t.number_nodes, used_nodes |-> t.used_nodes]
      BY <2>10 DEF Loose, SetTyped
    <3>2. QED
      BY <2>10, <3>1
  <2> HIDE DEF v
  <2>16. v.nodes = t.nodes /\ v.number_nodes = n /\ v.used_nodes = s.used_nodes - 1
    BY <2>15
  <2>17. SetTyped(v)
    BY <1>1, <2>10, <2>14, <2>15, <2>16 DEF Loose, SetTyped
  <2>18. Loose(v)
    BY <2>10, <2>16, <2>17 DEF Loose
  <2>19. \A x : GetIndex(v, x) = GetIndex(t, x)
    BY <2>10, <2>16 DEF GetIndex, ProbeEnds, ProbeAt
  <2>20. Placed(v)
    BY <2>9, <2>10, <2>16, <2>19 DEF Placed
  <2>21. Elements(v) = Elements(s) \ {k}
    BY <2>10, <2>16 DEF Elements
  <2>22. SetOK(v)
    BY <1>1, <2>11, <2>12, <2>13, <2>14, <2>16, <2>18, <2>20, <2>21, SMTT(30) DEF SetOK
  <2>23. QED
    BY <1>4, <2>1, <2>21, <2>22
<1>5. QED
  BY <1>3, <1>4

(* Every set of the invariant is one of these records. *)
SetsOK ==
  {s \in UNION {[nodes : [0..n - 1 -> Keys \cup {NoKey}], number_nodes : {n}, used_nodes : Nat] : n \in Nat} :
     SetOK(s)}

LEMMA SetsOKAre == \A s : SetOK(s) <=> s \in SetsOK
<1> SUFFICES ASSUME NEW s, SetOK(s)
             PROVE  s \in UNION {[nodes : [0..n - 1 -> Keys \cup {NoKey}], number_nodes : {n},
                                  used_nodes : Nat] : n \in Nat}
  BY DEF SetsOK
<1>1. SetTyped(s) /\ s.number_nodes \in Nat
  BY SetOKFree
<1>2. s \in [nodes : [0..s.number_nodes - 1 -> Keys \cup {NoKey}], number_nodes : {s.number_nodes},
             used_nodes : Nat]
  BY <1>1 DEF SetTyped
<1>3. QED
  BY <1>1, <1>2

(* A set without a node, of at least two slots.                             *)
LEMMA NoNodeOK ==
  ASSUME NEW n \in Nat, n >= 2, NEW u \in Nat, 4 * (u - 1) <= n,
         NEW s, s = [nodes |-> [i \in 0..n - 1 |-> NoKey], number_nodes |-> n, used_nodes |-> u]
  PROVE  SetOK(s) /\ Elements(s) = {}
<1>1. s.nodes = [i \in 0..n - 1 |-> NoKey] /\ s.number_nodes = n /\ s.used_nodes = u
  OBVIOUS
<1>2. SetTyped(s)
  BY <1>1 DEF SetTyped
<1>3. \A i \in 0..n - 1 : s.nodes[i] = NoKey
  BY <1>1
<1>4. Elements(s) = {}
  BY <1>1, <1>2, <1>3, ElementsAre
<1>5. Cardinality(Elements(s)) = 0
  BY <1>4, FS_EmptySet
<1>6. QED
  BY <1>1, <1>2, <1>3, <1>4, <1>5 DEF SetOK, Loose, Placed

LEMMA EmptySetOK == SetOK(EmptySet) /\ Elements(EmptySet) = {} /\ Exact(EmptySet)
<1>1. InitialNodes \in Nat /\ InitialNodes >= 2 /\ 0 \in Nat /\ 4 * (0 - 1) <= InitialNodes
  BY SetAssumption
<1>2. SetOK(EmptySet) /\ Elements(EmptySet) = {}
  BY <1>1, NoNodeOK DEF EmptySet
<1>3. QED
  BY <1>2, FS_EmptySet DEF EmptySet, Exact

LEMMA SetClearOK ==
  ASSUME NEW s, SetOK(s), NEW oom \in BOOLEAN
  PROVE  SetOK(SetCleared(s, oom))
<1>1. CASE ~oom
  BY <1>1, EmptySetOK DEF SetCleared
<1>2. CASE oom
  <2>1. SetTyped(s) /\ s.number_nodes \in Nat /\ s.used_nodes \in Nat
    BY SetOKFree
  <2> DEFINE w == [i \in 0..s.number_nodes - 1 |-> NoKey]
  <2>2. SetCleared(s, oom) = [nodes |-> w, number_nodes |-> s.number_nodes, used_nodes |-> s.used_nodes]
    <3>1. s = [nodes |-> s.nodes, number_nodes |-> s.number_nodes, used_nodes |-> s.used_nodes]
          /\ DOMAIN s.nodes = 0..s.number_nodes - 1
      BY <2>1 DEF SetTyped
    <3>2. SetCleared(s, oom) = [s EXCEPT !.nodes = w]
      BY <1>2, <3>1 DEF SetCleared
    <3> HIDE DEF w
    <3>3. QED
      BY <3>1, <3>2
  <2>3. s.number_nodes >= 2 /\ 4 * (s.used_nodes - 1) <= s.number_nodes
    BY DEF SetOK
  <2>4. QED
    BY <2>1, <2>2, <2>3, NoNodeOK
<1>3. QED
  BY <1>1, <1>2

(* An addition, with the memory for it or without. *)
LEMMA AddExact ==
  ASSUME NEW s, SetOK(s), NEW k \in Keys, NEW oom \in BOOLEAN
  PROVE  LET t == SetAdd(s, k, oom).set
         IN /\ SetOK(t) /\ (~oom => k \in Elements(t))
            /\ Elements(s) \subseteq Elements(t) /\ Elements(t) \subseteq Elements(s) \cup {k}
            /\ Exact(s) => Exact(t)
<1> DEFINE r == SetAdd(s, k, oom)
<1>1. /\ SetOK(r.set)
      /\ k \in Elements(s) => r.set = s
      /\ k \notin Elements(s) =>
           \/ Elements(r.set) = Elements(s) \cup {k} /\ r.set.used_nodes = s.used_nodes + 1
           \/ oom /\ r.set = s
  BY SetAddOK
<1> HIDE DEF r
<1>2. IsFiniteSet(Elements(s))
  BY SetOKFree
<1>3. Cardinality(Elements(s) \cup {k}) = IF k \in Elements(s) THEN Cardinality(Elements(s)) ELSE Cardinality(Elements(s)) + 1
  BY <1>2, FS_AddElement
<1>4. r.set = s \/ (Elements(r.set) = Elements(s) \cup {k} /\ r.set.used_nodes = s.used_nodes + 1 /\ k \notin Elements(s))
  BY <1>1
<1>5. Exact(s) => Exact(r.set)
  BY <1>3, <1>4 DEF Exact
<1>6. ~oom => k \in Elements(r.set)
  BY <1>1
<1>7. Elements(s) \subseteq Elements(r.set) /\ Elements(r.set) \subseteq Elements(s) \cup {k}
  BY <1>4
<1>8. QED
  BY <1>1, <1>5, <1>6, <1>7 DEF r

(* One turn of a loop that adds key, or nothing; those of fails may fail. *)
Added(s, key, fails) ==
  IF key = NoKey THEN s ELSE SetAdd(s, key, key \in fails).set

(* The states of a loop of n such turns, and what it has made of s.         *)
AddingStates(n, s, key, fails) ==
  {f \in [0..n -> SetsOK] : f[0] = s /\ \A i \in 0..n - 1 : f[i + 1] = Added(f[i], key[i], fails)}

AddsKeys(n, s, key, fails, t) ==
  /\ SetOK(t)
  /\ \A x : x \in Elements(t) =>
       x \in Elements(s) \/ (x # NoKey /\ \E j \in 0..n - 1 : key[j] = x)
  /\ \A x : x \in Elements(s) \/ (x # NoKey /\ x \notin fails /\ \E j \in 0..n - 1 : key[j] = x) =>
       x \in Elements(t)
  /\ Exact(s) => Exact(t)

KeyArrays(n) == [0..n - 1 -> Keys \cup {NoKey}]

LEMMA AddingLoop ==
  ASSUME NEW n \in Nat, NEW key \in KeyArrays(n), NEW s, SetOK(s), NEW fails
  PROVE  \E f \in AddingStates(n, s, key, fails) : AddsKeys(n, s, key, fails, f[n])
<1> USE DEF KeyArrays
<1> DEFINE step == [p \in (0..n - 1) \X SetsOK |-> Added(p[2], key[p[1]], fails)]
<1>1. \A i \in 0..n - 1, t \in SetsOK : step[<<i, t>>] = Added(t, key[i], fails)
  OBVIOUS
<1>2. ASSUME NEW i \in 0..n - 1, NEW t \in SetsOK
      PROVE  /\ Added(t, key[i], fails) \in SetsOK
             /\ \A x : x \in Elements(Added(t, key[i], fails)) =>
                         x \in Elements(t) \/ (x # NoKey /\ key[i] = x)
             /\ \A x : x \in Elements(t) \/ (x # NoKey /\ x \notin fails /\ key[i] = x) =>
                         x \in Elements(Added(t, key[i], fails))
             /\ Exact(t) => Exact(Added(t, key[i], fails))
  <2>1. SetOK(t)
    BY SetsOKAre
  <2>2. CASE key[i] = NoKey
    BY <2>2 DEF Added
  <2>3. CASE key[i] # NoKey
    <3> DEFINE u == SetAdd(t, key[i], key[i] \in fails).set
    <3>1. key[i] \in Keys /\ (key[i] \in fails) \in BOOLEAN /\ Added(t, key[i], fails) = u
      BY <2>3 DEF Added
    <3>2. /\ SetOK(u) /\ (key[i] \notin fails => key[i] \in Elements(u))
          /\ Elements(t) \subseteq Elements(u) /\ Elements(u) \subseteq Elements(t) \cup {key[i]}
          /\ Exact(t) => Exact(u)
      BY <2>1, <3>1, AddExact
    <3> HIDE DEF u
    <3>3. QED
      BY <2>3, <3>1, <3>2, SetsOKAre
  <2>4. QED
    BY <2>2, <2>3
<1> HIDE DEF step
<1>3. TurnsTo(n, SetsOK, step) /\ s \in SetsOK
  BY <1>1, <1>2, SetsOKAre DEF TurnsTo
<1>4. PICK f \in LoopStatesTo(n, SetsOK, s, step) : TRUE
  BY <1>3, LoopRunsTo
<1>5. f \in [0..n -> SetsOK] /\ f[0] = s /\ \A i \in 0..n - 1 : f[i + 1] = step[<<i, f[i]>>]
  BY <1>4 DEF LoopStatesTo
<1>6. \A i \in 0..n - 1 : f[i] \in SetsOK /\ f[i + 1] = Added(f[i], key[i], fails)
  <2>1. \A i \in 0..n - 1 : f[i] \in SetsOK
    BY <1>5
  <2>2. QED
    BY <1>1, <1>5, <2>1
<1> DEFINE Q == {i \in Nat : i <= n =>
                   /\ \A x : x \in Elements(f[i]) =>
                        x \in Elements(s) \/ (x # NoKey /\ \E j \in 0..i - 1 : key[j] = x)
                   /\ \A x : x \in Elements(s) \/ (x # NoKey /\ x \notin fails /\ \E j \in 0..i - 1 : key[j] = x) =>
                        x \in Elements(f[i])
                   /\ Exact(s) => Exact(f[i])}
<1>7. 0 \in Q
  BY <1>5
<1>8. ASSUME NEW i \in Q
      PROVE  i + 1 \in Q
  <2>1. SUFFICES ASSUME i + 1 <= n
                 PROVE  /\ \A x : x \in Elements(f[i + 1]) =>
                             x \in Elements(s) \/ (x # NoKey /\ \E j \in 0..i + 1 - 1 : key[j] = x)
                        /\ \A x : x \in Elements(s) \/ (x # NoKey /\ x \notin fails /\ \E j \in 0..i + 1 - 1 : key[j] = x) =>
                             x \in Elements(f[i + 1])
                        /\ Exact(s) => Exact(f[i + 1])
    OBVIOUS
  <2>2. i \in 0..n - 1 /\ i \in Nat /\ i <= n
    BY <2>1
  <2>3. /\ \A x : x \in Elements(f[i]) =>
                    x \in Elements(s) \/ (x # NoKey /\ \E j \in 0..i - 1 : key[j] = x)
        /\ \A x : x \in Elements(s) \/ (x # NoKey /\ x \notin fails /\ \E j \in 0..i - 1 : key[j] = x) =>
                    x \in Elements(f[i])
        /\ Exact(s) => Exact(f[i])
    BY <2>2
  <2>4. /\ \A x : x \in Elements(f[i + 1]) => x \in Elements(f[i]) \/ (x # NoKey /\ key[i] = x)
        /\ \A x : x \in Elements(f[i]) \/ (x # NoKey /\ x \notin fails /\ key[i] = x) => x \in Elements(f[i + 1])
        /\ Exact(f[i]) => Exact(f[i + 1])
    BY <1>2, <1>6, <2>2
  <2>5. \A j : j \in 0..i + 1 - 1 <=> j \in 0..i - 1 \/ j = i
    BY <2>2
  <2>6. \A x : (\E j \in 0..i + 1 - 1 : key[j] = x) <=> (\E j \in 0..i - 1 : key[j] = x) \/ key[i] = x
    BY <2>5
  <2>7. QED
    BY <2>3, <2>4, <2>6
<1>9. Q = Nat
  <2> HIDE DEF Q
  <2>1. Q \in SUBSET Nat
    BY DEF Q
  <2>2. QED
    BY <1>7, <1>8, <2>1, AllNat
<1>10. n \in Q /\ n <= n
  BY <1>9
<1>11. f[n] \in SetsOK
  BY <1>5
<1>12. f \in AddingStates(n, s, key, fails)
  BY <1>5, <1>6 DEF AddingStates
<1>13. AddsKeys(n, s, key, fails, f[n])
  BY <1>10, <1>11, SetsOKAre DEF AddsKeys
<1>14. QED
  BY <1>12, <1>13

(* What both loops add, each key of an array after the other.               *)
Adding(n, s, key, fails, g) ==
  g = [i \in 0..n |-> IF i = 0 THEN s ELSE Added(g[i - 1], key[i - 1], fails)]

LEMMA AddingIs ==
  ASSUME NEW n \in Nat, NEW key \in KeyArrays(n), NEW s, SetOK(s), NEW fails,
         NEW turn, turn = CHOOSE g : Adding(n, s, key, fails, g)
  PROVE  AddsKeys(n, s, key, fails, turn[n])
<1>0. PICK f \in AddingStates(n, s, key, fails) : AddsKeys(n, s, key, fails, f[n])
  BY AddingLoop
<1>1. /\ f \in [0..n -> SetsOK]
      /\ f[0] = s /\ \A i \in 0..n - 1 : f[i + 1] = Added(f[i], key[i], fails)
  BY <1>0 DEF AddingStates
<1>2. \A i \in 0..n : i # 0 => i - 1 \in 0..n - 1 /\ (i - 1) + 1 = i
  OBVIOUS
<1>3. Adding(n, s, key, fails, f)
  <2>1. \A i \in 0..n : i # 0 => f[i] = Added(f[i - 1], key[i - 1], fails)
    BY <1>1, <1>2
  <2>2. f = [i \in 0..n |-> IF i = 0 THEN s ELSE Added(f[i - 1], key[i - 1], fails)]
    BY <1>1, <2>1
  <2>3. QED
    BY <2>2 DEF Adding
<1>4. Adding(n, s, key, fails, turn)
  BY <1>3
<1>5. turn[0] = s /\ \A i \in 0..n - 1 : turn[i + 1] = Added(turn[i], key[i], fails)
  <2>1. turn = [i \in 0..n |-> IF i = 0 THEN s ELSE Added(turn[i - 1], key[i - 1], fails)]
    BY <1>4 DEF Adding
  <2>2. \A i \in 0..n : turn[i] = IF i = 0 THEN s ELSE Added(turn[i - 1], key[i - 1], fails)
    BY <2>1
  <2>3. ASSUME NEW i \in 0..n - 1
        PROVE  turn[i + 1] = Added(turn[i], key[i], fails)
    <3>1. i + 1 \in 0..n /\ i + 1 # 0 /\ (i + 1) - 1 = i
      OBVIOUS
    <3>2. turn[i + 1] = Added(turn[(i + 1) - 1], key[(i + 1) - 1], fails)
      BY <2>2, <3>1
    <3>3. QED
      BY <3>1, <3>2
  <2>4. turn[0] = s
    BY <2>2
  <2>5. QED
    BY <2>3, <2>4
<1>6. SameTurns(n, f, turn)
  <2>1. \A i \in 0..n - 1 : turn[i] = f[i] => turn[i + 1] = f[i + 1]
    BY <1>1, <1>5
  <2>2. QED
    BY <1>1, <1>5, <2>1 DEF SameTurns
<1>7. turn[n] = f[n]
  BY <1>6, SameLoop
<1>8. QED
  BY <1>0, <1>7

(* The nodes of a set that are in keep added.                               *)
LEMMA AddAllOK ==
  ASSUME NEW r, SetOK(r), NEW s, SetOK(s), NEW keep \in SUBSET Keys, NEW fails
  PROVE  LET t == AddAll(r, s, keep, fails)
         IN /\ SetOK(t) /\ Elements(t) \subseteq Elements(r) \cup (Elements(s) \cap keep)
            /\ Elements(r) \cup ((Elements(s) \cap keep) \ fails) \subseteq Elements(t)
            /\ Exact(r) => Exact(t)
<1> DEFINE n == s.number_nodes
           key == [i \in 0..n - 1 |-> IF s.nodes[i] \in keep THEN s.nodes[i] ELSE NoKey]
           turn == CHOOSE g : g = [i \in 0..n |->
                     IF i = 0 THEN r
                     ELSE IF s.nodes[i - 1] \in keep THEN SetAdd(g[i - 1], s.nodes[i - 1], s.nodes[i - 1] \in fails).set
                     ELSE g[i - 1]]
<1>1. SetTyped(s) /\ n \in Nat /\ NoKey \notin keep
  BY SetOKFree, KeysAssumption
<1>2. AddAll(r, s, keep, fails) = turn[n]
  BY DEF AddAll
<1>3. /\ key \in KeyArrays(n)
      /\ \A i \in 0..n - 1 : key[i] = IF s.nodes[i] \in keep THEN s.nodes[i] ELSE NoKey
  <2>1. n \in Nat /\ s.nodes \in [0..n - 1 -> Keys \cup {NoKey}]
    BY <1>1 DEF SetTyped
  <2>2. QED
    BY <2>1 DEF KeyArrays
<1> HIDE DEF key
<1>4. ASSUME NEW g
      PROVE  [i \in 0..n |->
                IF i = 0 THEN r
                ELSE IF s.nodes[i - 1] \in keep THEN SetAdd(g[i - 1], s.nodes[i - 1], s.nodes[i - 1] \in fails).set
                ELSE g[i - 1]]
               = [i \in 0..n |-> IF i = 0 THEN r ELSE Added(g[i - 1], key[i - 1], fails)]
  <2>1. ASSUME NEW i \in 0..n, i # 0
        PROVE  (IF s.nodes[i - 1] \in keep THEN SetAdd(g[i - 1], s.nodes[i - 1], s.nodes[i - 1] \in fails).set
                ELSE g[i - 1]) = Added(g[i - 1], key[i - 1], fails)
    <3>1. i - 1 \in 0..n - 1
      BY <1>1, <2>1
    <3>2. QED
      BY <1>1, <1>3, <3>1 DEF Added
  <2> HIDE DEF n
  <2>2. QED
    BY <2>1
<1>5. \A g : Adding(n, r, key, fails, g) <=> g = [i \in 0..n |->
                     IF i = 0 THEN r
                     ELSE IF s.nodes[i - 1] \in keep THEN SetAdd(g[i - 1], s.nodes[i - 1], s.nodes[i - 1] \in fails).set
                     ELSE g[i - 1]]
  BY <1>4 DEF Adding
<1>6. turn = CHOOSE g : Adding(n, r, key, fails, g)
  BY <1>5, ZenonT(60)
<1> HIDE DEF turn
<1>7. AddsKeys(n, r, key, fails, turn[n])
  BY <1>1, <1>3, <1>6, AddingIs
<1>8. \A x : (x # NoKey /\ \E j \in 0..n - 1 : key[j] = x) <=> x \in Elements(s) \cap keep
  <2>1. \A x : x \in Elements(s) <=> x # NoKey /\ \E i \in 0..n - 1 : s.nodes[i] = x
    BY <1>1, ElementsAre
  <2>2. QED
    BY <1>1, <1>3, <2>1
<1>9. QED
  BY <1>2, <1>7, <1>8 DEF AddsKeys

(* __set_contains() says what the contents are.                             *)
LEMMA ContainsSays ==
  ASSUME NEW s, SetOK(s), NEW k \in Keys
  PROVE  SetContains(s, k) = IF k \in Elements(s) THEN SET_TRUE ELSE SET_FALSE
BY SetOKFree, LookupFinds DEF SetOK, LookupSays, SetContains

LEMMA ContainedIs ==
  ASSUME NEW s, SetOK(s)
  PROVE  Contained(s) = Elements(s) /\ Elements(s) \in SUBSET Keys
<1>1. SetTyped(s)
  BY SetOKFree
<1>2. Elements(s) \in SUBSET Keys
  BY <1>1, ElementsAre
<1>3. \A k \in Keys : SetContains(s, k) = SET_TRUE <=> k \in Elements(s)
  BY ContainsSays
<1>4. QED
  BY <1>2, <1>3 DEF Contained

(* The four loops of the set algebra. *)
LEMMA SetUnionOK ==
  ASSUME NEW a, SetOK(a), NEW b, SetOK(b), NEW f, NEW g
  PROVE  /\ SetOK(SetUnion(a, b, f, g))
         /\ IsBetween((Elements(a) \ f) \cup (Elements(b) \ g), SetUnion(a, b, f, g),
                    Elements(a) \cup Elements(b))
<1> DEFINE t == AddAll(EmptySet, a, Keys, f)
           u == AddAll(t, b, Keys, g)
<1>1. Elements(a) \in SUBSET Keys /\ Elements(b) \in SUBSET Keys /\ Keys \in SUBSET Keys
  BY ContainedIs
<1>2. /\ SetOK(t) /\ Elements(t) \subseteq Elements(EmptySet) \cup (Elements(a) \cap Keys)
      /\ Elements(EmptySet) \cup ((Elements(a) \cap Keys) \ f) \subseteq Elements(t)
  BY <1>1, EmptySetOK, AddAllOK
<1> HIDE DEF t
<1>3. /\ SetOK(u) /\ Elements(u) \subseteq Elements(t) \cup (Elements(b) \cap Keys)
      /\ Elements(t) \cup ((Elements(b) \cap Keys) \ g) \subseteq Elements(u)
  BY <1>1, <1>2, AddAllOK
<1>4. SetUnion(a, b, f, g) = u
  BY DEF SetUnion, t
<1> HIDE DEF u
<1>5. Elements(a) \cap Keys = Elements(a) /\ Elements(b) \cap Keys = Elements(b)
  BY <1>1
<1>6. Elements(u) \subseteq Elements(a) \cup Elements(b)
  BY <1>2, <1>3, EmptySetOK
<1>7. (Elements(a) \ f) \cup (Elements(b) \ g) \subseteq Elements(u)
  BY <1>2, <1>3, <1>5
<1>8. QED
  BY <1>3, <1>4, <1>6, <1>7 DEF IsBetween

LEMMA IntersectionIs ==
  ASSUME NEW a, SetOK(a), NEW b, SetOK(b), NEW f
  PROVE  IsBetween((Elements(a) \cap Elements(b)) \ f, SetIntersection(a, b, f),
                 Elements(a) \cap Elements(b))
<1> DEFINE t == AddAll(EmptySet, a, Contained(b), f)
<1>1. Contained(b) = Elements(b) /\ Contained(b) \in SUBSET Keys
  BY ContainedIs
<1>2. /\ Elements(t) \subseteq Elements(EmptySet) \cup (Elements(a) \cap Contained(b))
      /\ Elements(EmptySet) \cup ((Elements(a) \cap Contained(b)) \ f) \subseteq Elements(t)
  BY <1>1, EmptySetOK, AddAllOK
<1>3. SetIntersection(a, b, f) = t
  BY DEF SetIntersection
<1> HIDE DEF t
<1>4. QED
  BY <1>1, <1>2, <1>3, EmptySetOK DEF IsBetween

LEMMA DifferenceIs ==
  ASSUME NEW a, SetOK(a), NEW b, SetOK(b), NEW f
  PROVE  /\ SetOK(SetDifference(a, b, f))
         /\ IsBetween((Elements(a) \ Elements(b)) \ f, SetDifference(a, b, f),
                    Elements(a) \ Elements(b))
<1> DEFINE keep == Keys \ Contained(b)
           t == AddAll(EmptySet, a, keep, f)
<1>1. Contained(b) = Elements(b) /\ keep \in SUBSET Keys /\ Elements(a) \in SUBSET Keys
  BY ContainedIs
<1>2. SetDifference(a, b, f) = t
  BY DEF SetDifference
<1>3. Elements(a) \cap keep = Elements(a) \ Elements(b)
  BY <1>1
<1> HIDE DEF keep
<1>4. /\ SetOK(t) /\ Elements(t) \subseteq Elements(EmptySet) \cup (Elements(a) \cap keep)
      /\ Elements(EmptySet) \cup ((Elements(a) \cap keep) \ f) \subseteq Elements(t)
  BY <1>1, EmptySetOK, AddAllOK
<1> HIDE DEF t
<1>5. QED
  BY <1>2, <1>3, <1>4, EmptySetOK DEF IsBetween

LEMMA SymmetricIs ==
  ASSUME NEW a, SetOK(a), NEW b, SetOK(b), NEW f, NEW g
  PROVE  IsBetween(((Elements(a) \ Elements(b)) \ f) \cup ((Elements(b) \ Elements(a)) \ g),
                 SetSymmetricDifference(a, b, f, g),
                 (Elements(a) \ Elements(b)) \cup (Elements(b) \ Elements(a)))
<1> DEFINE t == SetDifference(a, b, f)
           keep == Keys \ Contained(a)
           u == AddAll(t, b, keep, g)
<1>1. /\ SetOK(t) /\ (Elements(a) \ Elements(b)) \ f \subseteq Elements(t)
      /\ Elements(t) \subseteq Elements(a) \ Elements(b)
  BY DifferenceIs DEF IsBetween
<1>2. Contained(a) = Elements(a) /\ keep \in SUBSET Keys /\ Elements(b) \in SUBSET Keys
  BY ContainedIs
<1>3. SetSymmetricDifference(a, b, f, g) = u
  BY DEF SetSymmetricDifference
<1>4. Elements(b) \cap keep = Elements(b) \ Elements(a)
  BY <1>2
<1> HIDE DEF t, keep
<1>5. /\ Elements(u) \subseteq Elements(t) \cup (Elements(b) \cap keep)
      /\ Elements(t) \cup ((Elements(b) \cap keep) \ g) \subseteq Elements(u)
  BY <1>1, <1>2, AddAllOK
<1> HIDE DEF u
<1>6. QED
  BY <1>1, <1>3, <1>4, <1>5 DEF IsBetween

LEMMA SubsetIs ==
  ASSUME NEW a, SetOK(a), NEW b, SetOK(b)
  PROVE  SetIsSubset(a, b) <=> Elements(a) \subseteq Elements(b)
<1>1. SetTyped(a) /\ DOMAIN a.nodes = 0..a.number_nodes - 1
  BY SetOKFree DEF SetTyped
<1>2. /\ \A k : k \in Elements(a) <=> k # NoKey /\ \E i \in 0..a.number_nodes - 1 : a.nodes[i] = k
      /\ Elements(a) \subseteq Keys
  BY <1>1, ElementsAre
<1>3. \A k \in Keys : SetContains(b, k) # SET_FALSE <=> k \in Elements(b)
  BY ContainsSays
<1>4. QED
  BY <1>1, <1>2, <1>3 DEF SetIsSubset

LEMMA StrictIs ==
  ASSUME NEW a, SetOK(a), Exact(a), NEW b, SetOK(b), Exact(b)
  PROVE  SetIsSubsetStrict(a, b) <=> Elements(a) \subseteq Elements(b) /\ Elements(a) # Elements(b)
<1>1. SetIsSubset(a, b) <=> Elements(a) \subseteq Elements(b)
  BY SubsetIs
<1>2. IsFiniteSet(Elements(b)) /\ Cardinality(Elements(a)) \in Nat /\ Cardinality(Elements(b)) \in Nat
  BY SetOKFree
<1>3. ASSUME Elements(a) \subseteq Elements(b)
      PROVE  Cardinality(Elements(a)) < Cardinality(Elements(b)) <=> Elements(a) # Elements(b)
  BY <1>2, <1>3, FS_Subset
<1>4. QED
  BY <1>1, <1>3 DEF SetIsSubsetStrict, Exact

(* Whatever the two sets go through, their nodes stay in their places.      *)
SetInv == SetOK(set) /\ SetOK(other)

(* simple_set: add, remove, clear and union keep the layout that lookups    *)
(* rely on, however large the set and whatever the hashes.                  *)
THEOREM SetInvariance == SetSpec => []SetInv
<1>1. SetInit => SetInv
  BY EmptySetOK DEF SetInit, SetInv
<1>2. ASSUME SetInv, [SetNext]_setVars
      PROVE  SetInv'
  <2> USE DEF SetInv
  <2>1. CASE SetAddAction
    <3>1. PICK k \in Keys, oom \in BOOLEAN : set' = SetAdd(set, k, oom).set /\ other' = other
      BY <2>1 DEF SetAddAction
    <3>2. QED
      BY <1>2, <3>1, SetAddOK
  <2>2. CASE SetRemoveAction
    BY <1>2, <2>2, SetRemoveOK DEF SetRemoveAction
  <2>3. CASE SetClearAction
    BY <1>2, <2>3, SetClearOK DEF SetClearAction
  <2>4. CASE SetUnionAction
    <3>1. PICK f \in Failing, g \in Failing : set' = SetUnion(set, other, f, g) /\ other' = other
      BY <2>4 DEF SetUnionAction
    <3>2. SetOK(SetUnion(set, other, f, g))
      BY <1>2, SetUnionOK
    <3>3. QED
      BY <1>2, <3>1, <3>2
  <2>5. CASE OtherAddAction
    <3>1. PICK k \in Keys : other' = SetAdd(other, k, FALSE).set /\ set' = set
      BY <2>5 DEF OtherAddAction
    <3>2. FALSE \in BOOLEAN
      OBVIOUS
    <3>3. SetOK(SetAdd(other, k, FALSE).set)
      BY <1>2, <3>2, AddExact
    <3>4. QED
      BY <1>2, <3>1, <3>3
  <2>6. CASE UNCHANGED setVars
    BY <1>2, <2>6 DEF setVars
  <2>7. QED
    BY <1>2, <2>1, <2>2, <2>3, <2>4, <2>5, <2>6 DEF SetNext
<1>3. QED
  BY <1>1, <1>2, PTL DEF SetSpec

(* As many slots are used as there are keys. *)
LEMMA UsedSlots ==
  ASSUME NEW s, Loose(s)
  PROVE  Cardinality({i \in DOMAIN s.nodes : s.nodes[i] # NoKey}) = Cardinality(Elements(s))
<1> DEFINE D == 0..s.number_nodes - 1
           U == {i \in DOMAIN s.nodes : s.nodes[i] # NoKey}
           f == [i \in U |-> s.nodes[i]]
<1>1. SetTyped(s) /\ DOMAIN s.nodes = D
  BY DEF Loose, SetTyped
<1>2. \A k : k \in Elements(s) <=> k # NoKey /\ \E i \in D : s.nodes[i] = k
  BY <1>1, ElementsAre
<1>3. IsFiniteSet(Elements(s))
  BY <1>1, AheadCount
<1>4. /\ f \in [U -> Elements(s)] /\ \A a, b \in U : f[a] = f[b] => a = b
      /\ \A k \in Elements(s) : \E i \in U : f[i] = k
  BY <1>1, <1>2 DEF Loose
<1> HIDE DEF f, U
<1>5. f \in Injection(U, Elements(s)) /\ f \in Surjection(U, Elements(s))
  BY <1>4 DEF Injection, Surjection, IsInjective
<1>6. QED
  BY <1>3, <1>5, FS_Injection DEF U

(* The layout and the calls on it, from the invariant. *)
LEMMA SetIsSound == SetInv => SetSound
<1> SUFFICES ASSUME SetInv PROVE SetSound
  OBVIOUS
<1> USE DEF SetInv
<1>1. SetLayout
  <2>1. Loose(set) /\ Cardinality(Elements(set)) <= set.used_nodes /\ 4 * (set.used_nodes - 1) <= set.number_nodes
    BY DEF SetOK
  <2>2. QED
    BY <2>1, UsedSlots, ContainsSays DEF SetLayout
<1>2. SetCalls
  <2>1. ASSUME NEW k \in Keys, NEW oom \in BOOLEAN
        PROVE  LET r == SetAdd(set, k, oom)
               IN /\ (r.ret = SET_ALREADY_PRESENT) <=> k \in Elements(set)
                  /\ Elements(r.set) = IF r.ret = SET_TRUE THEN Elements(set) \cup {k} ELSE Elements(set)
                  /\ r.ret \in {SET_TRUE, SET_ALREADY_PRESENT} \/ oom
    <3> DEFINE r == SetAdd(set, k, oom)
    <3>1. /\ k \in Elements(set) => r.ret = SET_ALREADY_PRESENT /\ r.set = set
          /\ k \notin Elements(set) =>
               \/ r.ret = SET_TRUE /\ Elements(r.set) = Elements(set) \cup {k}
               \/ oom /\ r.ret = SET_MALLOC_ERROR /\ r.set = set
      BY SetAddOK
    <3> HIDE DEF r
    <3>2. QED
      BY <3>1 DEF r
  <2>2. ASSUME NEW k \in Keys
        PROVE  LET r == SetRemove(set, k)
               IN /\ (r.ret = SET_TRUE) <=> k \in Elements(set)
                  /\ Elements(r.set) = Elements(set) \ {k}
    BY SetRemoveOK
  <2> HIDE DEF SetInv
  <2>3. QED
    BY <2>1, <2>2 DEF SetCalls
<1>3. QED
  BY <1>1, <1>2 DEF SetSound

(* simple_set: every key is found where the probing left it and nothing     *)
(* else is, each call does what it reports, and a lookup never goes round   *)
(* the whole array (SET_CIRCULAR_ERROR).                                    *)
THEOREM SetSoundHolds == SetSpec => []SetSound
BY SetInvariance, SetIsSound, PTL

LEMMA SetIsAlgebra == SetInv => SetAlgebra
<1> SUFFICES ASSUME SetInv PROVE SetAlgebra
  OBVIOUS
<1> DEFINE a == Elements(set)
           b == Elements(other)
<1>1. SetOK(set) /\ SetOK(other)
  BY DEF SetInv
<1>2. ASSUME NEW f \in Failing, NEW g \in Failing
      PROVE  /\ IsBetween((a \ f) \cup (b \ g), SetUnion(set, other, f, g), a \cup b)
             /\ IsBetween((a \cap b) \ f, SetIntersection(set, other, f), a \cap b)
  BY <1>1, SetUnionOK, IntersectionIs
<1>3. ASSUME NEW f \in Failing
      PROVE  /\ IsBetween((a \ b) \ f, SetDifference(set, other, f), a \ b)
             /\ IsBetween((b \ a) \ f, SetDifference(other, set, f), b \ a)
  BY <1>1, DifferenceIs
<1>4. ASSUME NEW f \in Failing, NEW g \in Failing
      PROVE  IsBetween(((a \ b) \ f) \cup ((b \ a) \ g),
                     SetSymmetricDifference(set, other, f, g), (a \ b) \cup (b \ a))
  BY <1>1, SymmetricIs
<1>5. (SetIsSubset(set, other) <=> a \subseteq b) /\ (SetIsSubset(other, set) <=> b \subseteq a)
  BY <1>1, SubsetIs
<1>6. Exact(set) /\ Exact(other) =>
        /\ SetIsSubsetStrict(set, other) <=> (a \subseteq b /\ a # b)
        /\ SetIsSubsetStrict(other, set) <=> (b \subseteq a /\ a # b)
  BY <1>1, StrictIs
<1>7. QED
  BY <1>2, <1>3, <1>4, <1>5, <1>6 DEF SetAlgebra

(* simple_set: the set algebra is that of the contents, whatever the two    *)
(* layouts.                                                                 *)
THEOREM SetAlgebraHolds == SetSpec => []SetAlgebra
BY SetInvariance, SetIsAlgebra, PTL

----------------------------------------------------------------------------
(* hashset.c *)

(* Steps of prime_2 pass every slot of a table of n slots. *)
Strides(n, a, i) == \E j \in 0..n - 1 : (a + 5009 * j) % n = i

Stride(n) == \A a \in Nat, i \in 0..n - 1 : Strides(n, a, i)

LEMMA StrideOfEight == Stride(8)
<1> SUFFICES ASSUME NEW a \in Nat, NEW i \in 0..7
             PROVE  \E j \in 0..7 : (a + 5009 * j) % 8 = i
  BY DEF Stride, Strides
<1>1. PICK j \in 0..7 : (a + j) % 8 = i
  BY StepsCover
<1>2. (a + 5009 * j) % 8 = (a + j) % 8
  OBVIOUS
<1>3. QED
  BY <1>1, <1>2

(* y is n steps of prime_2 after x, and m twice n. *)
Farther(y, x, n) == y = x + 5009 * n

Twice(m, n) == m = 2 * n

(* prime_2 is odd: after n steps of it a remainder by 2n is the other of the *)
(* two with the same remainder by n.                                         *)
LEMMA OddSteps ==
  ASSUME NEW n \in Nat \ {0}, NEW m \in Nat \ {0}, Twice(m, n),
         NEW x \in Nat, NEW y \in Nat, Farther(y, x, n)
  PROVE  \/ x % m = x % n /\ y % m = (x % n) + n
         \/ x % m = (x % n) + n /\ y % m = x % n
<1>1. PICK q \in Int : x = m * q + (x % m)
  BY QuotRem
<1>2. PICK r \in 0..m - 1 : r = x % m
  <2>1. x % m \in 0..m - 1
    BY QuotRem
  <2>2. QED
    BY <2>1
<1>3. x = m * q + r /\ m * q = n * (2 * q) /\ 2 * q \in Int /\ m * q \in Int
  BY <1>1, <1>2 DEF Twice
<1>4. CASE r < n
  <2>1. r \in 0..n - 1 /\ x = n * (2 * q) + r
    BY <1>2, <1>3, <1>4
  <2>2. x % n = r
    <3>1. PICK p \in Int : p = 2 * q
      OBVIOUS
    <3>2. p \in Int /\ x = n * p + r
      BY <2>1, <3>1
    <3>3. QED
      BY <2>1, <3>2, RemOf
  <2>3. m * (q + 2504) = m * q + 5008 * n /\ q + 2504 \in Int
    BY DEF Twice
  <2>4. PICK p \in Int, t \in 0..m - 1 : p = q + 2504 /\ t = r + n
    BY <2>1 DEF Twice
  <2>7. y = m * p + t
    BY <1>3, <2>1, <2>3, <2>4 DEF Farther
  <2>8. p \in Int /\ t \in 0..m - 1
    BY <2>4
  <2>9. y % m = t
    BY <2>7, <2>8, RemOf
  <2>5. y % m = r + n
    BY <2>4, <2>9
  <2>6. QED
    BY <1>2, <2>2, <2>5
<1>5. CASE r >= n
  <2>1. n * (2 * q + 1) = n * (2 * q) + n /\ 2 * q + 1 \in Int /\ n * (2 * q) \in Int
    BY <1>3
  <2>2. r - n \in 0..n - 1 /\ x = n * (2 * q + 1) + (r - n)
    BY <1>2, <1>3, <1>5, <2>1 DEF Twice
  <2>3. x % n = r - n
    BY <2>1, <2>2, RemOf
  <2>4. m * (q + 2505) = m * q + 5010 * n /\ q + 2505 \in Int
    BY DEF Twice
  <2>5. PICK p \in Int, t \in 0..m - 1 : p = q + 2505 /\ t = r - n
    BY <2>2 DEF Twice
  <2>8. y = m * p + t
    BY <1>3, <2>2, <2>4, <2>5 DEF Farther
  <2>9. p \in Int /\ t \in 0..m - 1
    BY <2>5
  <2>10. y % m = t
    BY <2>8, <2>9, RemOf
  <2>6. y % m = r - n
    BY <2>5, <2>10
  <2>7. QED
    BY <1>2, <2>3, <2>6
<1>6. QED
  BY <1>4, <1>5

(* Twice as many slots.                                                     *)
LEMMA StrideDoubles ==
  ASSUME NEW n \in Nat \ {0}, Stride(n)
  PROVE  Stride(2 * n)
<1>0. PICK m \in Nat \ {0} : Twice(m, n)
  BY DEF Twice
<1> SUFFICES ASSUME NEW a \in Nat, NEW i \in 0..m - 1
             PROVE  Strides(m, a, i)
  BY <1>0 DEF Stride, Twice
<1> DEFINE low == IF i < n THEN i ELSE i - n
<1>1. PICK j \in 0..n - 1 : (a + 5009 * j) % n = low
  <2>1. low \in 0..n - 1
    BY <1>0 DEF Twice
  <2> HIDE DEF low
  <2>2. Strides(n, a, low)
    BY <2>1 DEF Stride
  <2>3. QED
    BY <2>2 DEF Strides
<1>2. PICK x \in Nat : x = a + 5009 * j
  OBVIOUS
<1>3. PICK y \in Nat : y = a + 5009 * (j + n)
  OBVIOUS
<1>4. Farther(y, x, n) /\ x % n = low
  BY <1>1, <1>2, <1>3 DEF Farther
<1>5. \/ x % m = x % n /\ y % m = (x % n) + n
      \/ x % m = (x % n) + n /\ y % m = x % n
  BY <1>0, <1>4, OddSteps
<1>6. i = low \/ i = low + n
  OBVIOUS
<1>7. x % m = i \/ y % m = i
  BY <1>4, <1>5, <1>6
<1>8. j \in 0..m - 1 /\ j + n \in 0..m - 1
  BY <1>0 DEF Twice
<1>9. QED
  BY <1>2, <1>3, <1>7, <1>8 DEF Strides

(* A table, whatever is in it. *)
HashTyped(s) ==
  /\ s = [capacity |-> s.capacity, items |-> s.items, nitems |-> s.nitems,
          n_deleted |-> s.n_deleted]
  /\ s.capacity \in Nat /\ s.capacity >= 8
  /\ s.items \in [0..s.capacity - 1 -> Nat]
  /\ s.nitems \in Nat /\ s.n_deleted \in Nat

(* The j-th slot of v's probe is the first that holds one of stop. *)
HaltsAt(s, v, stop, j) ==
  /\ j \in 0..s.capacity - 1
  /\ s.items[Slot(s, v, j)] \in stop
  /\ \A l \in 0..j - 1 : s.items[Slot(s, v, l)] \notin stop

LEMMA SlotInside ==
  ASSUME NEW s, HashTyped(s), NEW v \in Nat, NEW j \in Nat
  PROVE  Slot(s, v, j) \in 0..s.capacity - 1
BY DEF HashTyped, Slot

LEMMA ProbeHalts ==
  ASSUME NEW s, HashTyped(s), NEW v \in Nat, NEW stop, Halts(s, v, stop) # {}
  PROVE  \E j : HaltsAt(s, v, stop, j) /\ Probe(s, v, stop) = Slot(s, v, j)
<1> DEFINE H == Halts(s, v, stop)
           j == Min(H)
<1>1. s.capacity \in Nat /\ H \in SUBSET Nat
  BY DEF HashTyped, Halts
<1>2. j \in H /\ \A l \in H : j <= l
  BY <1>1, LeastOf
<1> HIDE DEF j
<1>3. j \in 0..s.capacity - 1 /\ s.items[Slot(s, v, j)] \in stop
  BY <1>2 DEF Halts
<1>4. ASSUME NEW l \in 0..j - 1
      PROVE  s.items[Slot(s, v, l)] \notin stop
  <2>1. l \in 0..s.capacity - 1 /\ ~(j <= l)
    BY <1>1, <1>3
  <2>2. QED
    BY <1>2, <2>1 DEF Halts
<1>5. QED
  BY <1>3, <1>4 DEF HaltsAt, Probe, j

(* The first stop of a probe is the only one. *)
LEMMA OneHalt ==
  ASSUME NEW s, NEW v, NEW stop, NEW j, NEW l, s.capacity \in Nat,
         HaltsAt(s, v, stop, j), HaltsAt(s, v, stop, l)
  PROVE  j = l
BY DEF HaltsAt

(* A slot that stops a probe is on its way. *)
LEMMA ProbeHasHalt ==
  ASSUME NEW s, HashTyped(s), Stride(s.capacity), NEW v \in Nat, NEW stop,
         NEW i \in 0..s.capacity - 1, s.items[i] \in stop
  PROVE  \E j : HaltsAt(s, v, stop, j) /\ Probe(s, v, stop) = Slot(s, v, j)
<1>1. PICK j \in 0..s.capacity - 1 : (73 * v + 5009 * j) % s.capacity = i
  <2>1. 73 * v \in Nat
    OBVIOUS
  <2>2. Strides(s.capacity, 73 * v, i)
    BY <2>1 DEF Stride
  <2>3. QED
    BY <2>2 DEF Strides
<1>2. Halts(s, v, stop) # {}
  BY <1>1 DEF Halts, Slot
<1>3. QED
  BY <1>2, ProbeHalts

(* The slots that hold v. *)
SlotsOf(s, v) == {i \in 0..s.capacity - 1 : s.items[i] = v}

LEMMA CopiesAre ==
  ASSUME NEW s, HashTyped(s), NEW v
  PROVE  /\ Copies(s, v) = Cardinality(SlotsOf(s, v)) /\ IsFiniteSet(SlotsOf(s, v))
         /\ Copies(s, v) \in Nat
         /\ Copies(s, v) = 0 <=> \A i \in 0..s.capacity - 1 : s.items[i] # v
<1>1. DOMAIN s.items = 0..s.capacity - 1 /\ s.capacity \in Nat
  BY DEF HashTyped
<1>2. Copies(s, v) = Cardinality(SlotsOf(s, v))
  BY <1>1 DEF Copies, SlotsOf
<1>3. IsFiniteSet(0..s.capacity - 1) /\ SlotsOf(s, v) \in SUBSET (0..s.capacity - 1)
  BY <1>1, FS_Interval DEF SlotsOf
<1>4. IsFiniteSet(SlotsOf(s, v))
  BY <1>3, FS_Subset
<1>5. Cardinality(SlotsOf(s, v)) \in Nat
  BY <1>4, FS_CardinalityType
<1>6. Cardinality(SlotsOf(s, v)) = 0 <=> SlotsOf(s, v) = {}
  BY <1>4, FS_EmptySet
<1>7. SlotsOf(s, v) = {} <=> \A i \in 0..s.capacity - 1 : s.items[i] # v
  BY DEF SlotsOf
<1>8. QED
  BY <1>2, <1>4, <1>5, <1>6, <1>7

(* t is s with v in slot i. *)
Stores(s, t, i, v) ==
  /\ HashTyped(s) /\ HashTyped(t) /\ t.capacity = s.capacity
  /\ i \in 0..s.capacity - 1 /\ s.items[i] # v /\ t.items = [s.items EXCEPT ![i] = v]

LEMMA CopiesMove ==
  ASSUME NEW s, NEW t, NEW i, NEW v, Stores(s, t, i, v)
  PROVE  /\ Copies(t, v) = Copies(s, v) + 1
         /\ Copies(s, s.items[i]) = Copies(t, s.items[i]) + 1
         /\ \A w : w \notin {v, s.items[i]} => Copies(t, w) = Copies(s, w)
<1> DEFINE D == 0..s.capacity - 1
           u == s.items[i]
<1>1. /\ HashTyped(s) /\ HashTyped(t) /\ t.capacity = s.capacity /\ i \in D /\ u # v
      /\ \A j \in D : t.items[j] = IF j = i THEN v ELSE s.items[j]
  BY DEF Stores, HashTyped
<1> HIDE DEF D
<1>2. SlotsOf(t, v) = SlotsOf(s, v) \cup {i} /\ i \notin SlotsOf(s, v)
  BY <1>1 DEF SlotsOf, D
<1>3. SlotsOf(s, u) = SlotsOf(t, u) \cup {i} /\ i \notin SlotsOf(t, u)
  BY <1>1 DEF SlotsOf, D
<1>4. \A w : w \notin {v, u} => SlotsOf(t, w) = SlotsOf(s, w)
  BY <1>1 DEF SlotsOf, D
<1>5. Copies(t, v) = Copies(s, v) + 1
  <2>1. IsFiniteSet(SlotsOf(s, v)) /\ Copies(s, v) = Cardinality(SlotsOf(s, v))
        /\ Copies(t, v) = Cardinality(SlotsOf(t, v))
    BY <1>1, CopiesAre
  <2>2. QED
    BY <1>2, <2>1, FS_AddElement
<1>6. Copies(s, u) = Copies(t, u) + 1
  <2>1. IsFiniteSet(SlotsOf(t, u)) /\ Copies(s, u) = Cardinality(SlotsOf(s, u))
        /\ Copies(t, u) = Cardinality(SlotsOf(t, u))
    BY <1>1, CopiesAre
  <2>2. QED
    BY <1>3, <2>1, FS_AddElement
<1>7. ASSUME NEW w, w \notin {v, u}
      PROVE  Copies(t, w) = Copies(s, w)
  <2>1. Copies(s, w) = Cardinality(SlotsOf(s, w)) /\ Copies(t, w) = Cardinality(SlotsOf(t, w))
    BY <1>1, CopiesAre
  <2>2. QED
    BY <1>4, <1>7, <2>1
<1>8. QED
  BY <1>5, <1>6, <1>7

(* v's probe comes to slot i, and to no empty slot before it. *)
Reach(s, v, i) ==
  \E j \in 0..s.capacity - 1 :
    Slot(s, v, j) = i /\ \A l \in 0..j - 1 : s.items[Slot(s, v, l)] # 0

(* The invariant of a table: the counters count, and the probe of a value   *)
(* comes to each of its slots.                                              *)
HashOK(s) ==
  /\ HashTyped(s) /\ Stride(s.capacity)
  /\ s.n_deleted = Copies(s, 1)
  /\ s.nitems + s.n_deleted + Copies(s, 0) = s.capacity
  /\ \A i \in 0..s.capacity - 1 : s.items[i] \notin {0, 1} => Reach(s, s.items[i], i)

(* A lookup among at least one empty slot finds what is there.              *)
LEMMA MemberIs ==
  ASSUME NEW s, HashOK(s), Copies(s, 0) > 0, NEW v \in Nat \ {0, 1}
  PROVE  /\ Probe(s, v, {0, v}) \in 0..s.capacity - 1
         /\ s.items[Probe(s, v, {0, v})] \in {0, v}
         /\ s.items[Probe(s, v, {0, v})] = v <=> Copies(s, v) > 0
<1> DEFINE stop == {0, v}
           D == 0..s.capacity - 1
<1>1. HashTyped(s) /\ Stride(s.capacity) /\ s.capacity \in Nat /\ 0 \in Nat
  BY DEF HashOK, HashTyped
<1>2. PICK e \in D : s.items[e] = 0
  BY <1>1, CopiesAre
<1>3. PICK j : HaltsAt(s, v, stop, j) /\ Probe(s, v, stop) = Slot(s, v, j)
  BY <1>1, <1>2, ProbeHasHalt
<1> DEFINE p == Slot(s, v, j)
<1>4. j \in Nat /\ p \in D /\ s.items[p] \in {0, v}
  <2>1. j \in Nat /\ s.items[p] \in {0, v}
    BY <1>1, <1>3 DEF HaltsAt
  <2>2. QED
    BY <1>1, <2>1, SlotInside
<1>5. ASSUME NEW i \in D, s.items[i] = v
      PROVE  s.items[p] = v
  <2>1. Reach(s, v, i)
    BY <1>5 DEF HashOK
  <2>2. PICK l \in D : Slot(s, v, l) = i /\ \A h \in 0..l - 1 : s.items[Slot(s, v, h)] # 0
    BY <2>1 DEF Reach
  <2>3. j <= l
    <3>1. SUFFICES ASSUME l < j PROVE FALSE
      BY <1>4, <2>2
    <3>2. l \in 0..j - 1 /\ s.items[Slot(s, v, l)] \in stop
      BY <1>4, <1>5, <2>2, <3>1
    <3>3. QED
      BY <1>3, <3>2 DEF HaltsAt
  <2>4. CASE j < l
    <3>1. j \in 0..l - 1
      BY <1>4, <2>4
    <3>2. QED
      BY <1>4, <2>2, <3>1
  <2>5. CASE j = l
    BY <1>5, <2>2, <2>5
  <2>6. QED
    BY <1>4, <2>2, <2>3, <2>4, <2>5
<1>6. Copies(s, v) \in Nat /\ (Copies(s, v) = 0 <=> \A i \in D : s.items[i] # v)
  BY <1>1, CopiesAre
<1>7. s.items[p] = v <=> Copies(s, v) > 0
  BY <1>4, <1>5, <1>6
<1>8. QED
  BY <1>3, <1>4, <1>7

(* A value stored on its probe, or a mark, cuts no probe short.             *)
LEMMA StoreKeeps ==
  ASSUME NEW s, HashOK(s), NEW t, NEW i, NEW v, Stores(s, t, i, v), v # 0,
         v = 1 \/ Reach(s, v, i), t.n_deleted = Copies(t, 1),
         t.nitems + t.n_deleted + Copies(t, 0) = t.capacity
  PROVE  HashOK(t)
<1> DEFINE D == 0..s.capacity - 1
<1>1. /\ HashTyped(s) /\ HashTyped(t) /\ t.capacity = s.capacity /\ i \in D /\ s.capacity \in Nat
      /\ \A j \in D : t.items[j] = IF j = i THEN v ELSE s.items[j]
      /\ s.items \in [D -> Nat]
  BY DEF Stores, HashTyped
<1>2. \A w, j : Slot(t, w, j) = Slot(s, w, j)
  BY <1>1 DEF Slot
<1>3. ASSUME NEW w \in Nat, NEW k \in D, Reach(s, w, k)
      PROVE  Reach(t, w, k)
  <2>1. PICK j \in D : Slot(s, w, j) = k /\ \A l \in 0..j - 1 : s.items[Slot(s, w, l)] # 0
    BY <1>3 DEF Reach
  <2>2. ASSUME NEW l \in 0..j - 1
        PROVE  t.items[Slot(t, w, l)] # 0
    <3>1. l \in Nat
      BY <1>1
    <3>2. Slot(s, w, l) \in D
      BY <1>1, <3>1, SlotInside
    <3>3. QED
      BY <1>1, <1>2, <2>1, <3>2
  <2>3. j \in 0..t.capacity - 1 /\ Slot(t, w, j) = k
    BY <1>1, <1>2, <2>1
  <2>4. QED
    BY <2>2, <2>3 DEF Reach
<1>4. ASSUME NEW k \in D, t.items[k] \notin {0, 1}
      PROVE  Reach(t, t.items[k], k)
  <2>1. CASE k = i
    <3>1. t.items[k] = v /\ v \in Nat /\ Reach(s, v, k)
      <4>1. t.items[k] \in Nat
        BY <1>1 DEF HashTyped
      <4>2. QED
        BY <1>1, <1>4, <2>1, <4>1
    <3>2. QED
      BY <1>3, <3>1
  <2>2. CASE k # i
    <3>1. t.items[k] = s.items[k] /\ s.items[k] \in Nat
      BY <1>1, <2>2
    <3>2. Reach(s, s.items[k], k)
      BY <1>4, <3>1 DEF HashOK
    <3>3. QED
      BY <1>3, <3>1, <3>2
  <2>3. QED
    BY <2>1, <2>2
<1>5. QED
  BY <1>1, <1>4 DEF HashOK

(* hashset_add_member(): the value is there, or a free slot of its probe    *)
(* gets it.                                                                 *)
AddsOne(s, t, v) ==
  /\ HashOK(t) /\ t.capacity = s.capacity /\ t.nitems = s.nitems + 1
  /\ Copies(t, v) = Copies(s, v) + 1 /\ Copies(t, 0) + 1 >= Copies(s, 0)
  /\ Copies(t, 1) <= Copies(s, 1)
  /\ \A w \in Nat \ {0, 1, v} : Copies(t, w) = Copies(s, w)

LEMMA AddMemberOK ==
  ASSUME NEW s, HashOK(s), Copies(s, 0) > 0, NEW v \in Nat \ {0, 1}
  PROVE  LET r == AddMember(s, v)
         IN \/ r = [set |-> s, ret |-> 0] /\ Copies(s, v) > 0
            \/ r.ret = 1 /\ AddsOne(s, r.set, v) /\ (Copies(s, v) > 0 => Copies(s, 1) > 0)
<1> DEFINE stop == {0, 1, v}
           D == 0..s.capacity - 1
           p == Probe(s, v, stop)
           old == s.items[p]
           w == [s.items EXCEPT ![p] = v]
           t == [s EXCEPT !.items[p] = v, !.nitems = @ + 1, !.n_deleted = @ - s.items[p]]
           r == AddMember(s, v)
<1>1. HashTyped(s) /\ Stride(s.capacity) /\ s.capacity \in Nat /\ s.items \in [D -> Nat]
      /\ s.nitems \in Nat /\ s.n_deleted \in Nat
  BY DEF HashOK, HashTyped
<1>2. PICK e \in D : s.items[e] = 0
  BY <1>1, CopiesAre
<1>3. PICK j : HaltsAt(s, v, stop, j) /\ p = Slot(s, v, j)
  BY <1>1, <1>2, ProbeHasHalt
<1> HIDE DEF p
<1>4. j \in D /\ p \in D /\ old \in {0, 1, v} /\ \A l \in 0..j - 1 : s.items[Slot(s, v, l)] \notin stop
  <2>1. j \in D /\ j \in Nat /\ s.items[p] \in {0, 1, v} /\ \A l \in 0..j - 1 : s.items[Slot(s, v, l)] \notin stop
    BY <1>1, <1>3 DEF HaltsAt
  <2>2. QED
    BY <1>1, <1>3, <2>1, SlotInside
<1>5. r = IF old = v THEN [set |-> s, ret |-> 0] ELSE [set |-> t, ret |-> 1]
  BY DEF AddMember, p
<1>6. CASE old = v
  <2>1. Copies(s, v) > 0
    BY <1>1, <1>4, <1>6, CopiesAre
  <2>2. QED
    BY <1>5, <1>6, <2>1
<1>7. CASE old # v
  <2>1. t = [capacity |-> s.capacity, items |-> w, nitems |-> s.nitems + 1, n_deleted |-> s.n_deleted - old]
    <3> DEFINE a == [s EXCEPT !.items = w]
               b == [a EXCEPT !.nitems = s.nitems + 1]
    <3>1. s = [capacity |-> s.capacity, items |-> s.items, nitems |-> s.nitems, n_deleted |-> s.n_deleted]
      BY <1>1 DEF HashTyped
    <3>2. t = [b EXCEPT !.n_deleted = s.n_deleted - old]
      BY <3>1
    <3> HIDE DEF w, t
    <3>3. a = [capacity |-> s.capacity, items |-> w, nitems |-> s.nitems, n_deleted |-> s.n_deleted]
      BY <3>1
    <3> HIDE DEF a
    <3>4. b = [capacity |-> s.capacity, items |-> w, nitems |-> s.nitems + 1, n_deleted |-> s.n_deleted]
      BY <3>3
    <3> HIDE DEF b
    <3>5. QED
      BY <3>2, <3>4
  <2>2. w \in [D -> Nat] /\ s.n_deleted = Copies(s, 1) /\ Copies(s, 1) \in Nat
    BY <1>1, CopiesAre DEF HashOK
  <2>3. old = 1 => Copies(s, 1) > 0
    BY <1>1, <1>4, CopiesAre
  <2>4. old \in {0, 1} /\ s.n_deleted - old \in Nat /\ s.nitems + 1 \in Nat
    BY <1>1, <1>4, <1>7, <2>2, <2>3, SMTT(30)
  <2> HIDE DEF w, t
  <2>5. t.capacity = s.capacity /\ t.items = w /\ t.nitems = s.nitems + 1 /\ t.n_deleted = s.n_deleted - old
    BY <2>1
  <2>6. HashTyped(t)
    BY <1>1, <2>1, <2>2, <2>4, <2>5 DEF HashTyped
  <2>7. Stores(s, t, p, v)
    BY <1>1, <1>4, <1>7, <2>5, <2>6 DEF Stores, w
  <2>8. /\ Copies(t, v) = Copies(s, v) + 1 /\ Copies(s, old) = Copies(t, old) + 1
        /\ \A x : x \notin {v, old} => Copies(t, x) = Copies(s, x)
    BY <2>7, CopiesMove
  <2>9. Copies(s, 0) \in Nat /\ Copies(s, 1) \in Nat /\ Copies(t, 0) \in Nat /\ Copies(t, 1) \in Nat
    BY <1>1, <2>6, CopiesAre
  <2>10. /\ Copies(t, 0) = IF old = 0 THEN Copies(s, 0) - 1 ELSE Copies(s, 0)
         /\ Copies(t, 1) = IF old = 1 THEN Copies(s, 1) - 1 ELSE Copies(s, 1)
    BY <2>4, <2>8, <2>9
  <2>11. t.n_deleted = Copies(t, 1) /\ t.nitems + t.n_deleted + Copies(t, 0) = t.capacity
    <3>1. s.nitems + s.n_deleted + Copies(s, 0) = s.capacity
      BY DEF HashOK
    <3>2. CASE old = 0
      BY <1>1, <2>2, <2>5, <2>9, <2>10, <3>1, <3>2
    <3>3. CASE old = 1
      BY <1>1, <2>2, <2>5, <2>9, <2>10, <3>1, <3>3
    <3>4. QED
      BY <2>4, <3>2, <3>3
  <2>12. Reach(s, v, p)
    BY <1>3, <1>4 DEF Reach
  <2>13. HashOK(t)
    BY <2>7, <2>11, <2>12, StoreKeeps
  <2>14. AddsOne(s, t, v)
    BY <2>4, <2>5, <2>8, <2>9, <2>10, <2>13 DEF AddsOne
  <2>15. Copies(s, v) > 0 => Copies(s, 1) > 0
    <3>1. SUFFICES ASSUME Copies(s, v) > 0, old = 0
                   PROVE  FALSE
      BY <2>3, <2>4
    <3>2. PICK k \in D : s.items[k] = v
      BY <1>1, <3>1, CopiesAre
    <3>3. Reach(s, v, k)
      BY <3>2 DEF HashOK
    <3>4. PICK m \in D : Slot(s, v, m) = k /\ \A l \in 0..m - 1 : s.items[Slot(s, v, l)] # 0
      BY <3>3 DEF Reach
    <3>5. m >= j
      BY <1>1, <1>4, <3>2, <3>4
    <3>6. m # j
      BY <1>3, <1>7, <3>2, <3>4
    <3>7. j \in 0..m - 1
      BY <1>1, <1>4, <3>5, <3>6
    <3>8. QED
      BY <1>3, <3>1, <3>4, <3>7
  <2>16. QED
    BY <1>5, <1>7, <2>14, <2>15
<1>8. QED
  BY <1>6, <1>7

LEMMA FirstNat ==
  ASSUME NEW n \in Nat
  PROVE  IsFiniteSet(0..n - 1) /\ Cardinality(0..n - 1) = n
<1>1. 0 \in Int /\ n - 1 \in Int
  OBVIOUS
<1>2. IsFiniteSet(0..n - 1)
  BY <1>1, FS_Interval
<1>3. Cardinality(0..n - 1) = IF 0 > n - 1 THEN 0 ELSE (n - 1) - 0 + 1
  BY <1>1, FS_Interval
<1>4. QED
  BY <1>2, <1>3

(* A table with an item has not only marks and empty slots.                 *)
LEMMA OtherSlots ==
  ASSUME NEW s, HashTyped(s), NEW p \in 0..s.capacity - 1, s.items[p] \notin {0, 1}
  PROVE  Copies(s, 0) + Copies(s, 1) < s.capacity
<1> DEFINE D == 0..s.capacity - 1
           A == SlotsOf(s, 0)
           B == SlotsOf(s, 1)
<1>1. /\ Copies(s, 0) = Cardinality(A) /\ IsFiniteSet(A) /\ Cardinality(A) \in Nat
      /\ Copies(s, 1) = Cardinality(B) /\ IsFiniteSet(B) /\ Cardinality(B) \in Nat
  BY CopiesAre
<1>2. s.capacity \in Nat /\ IsFiniteSet(D) /\ Cardinality(D) = s.capacity
  <2>1. s.capacity \in Nat /\ s.capacity >= 8
    BY DEF HashTyped
  <2>2. QED
    BY <2>1, FirstNat
<1>3. A \cup B \in SUBSET D /\ p \in D /\ p \notin A \cup B /\ A \cap B = {}
  BY DEF SlotsOf
<1> HIDE DEF A, B, D
<1>4. Cardinality(A \cup B) = Cardinality(A) + Cardinality(B)
  <2>1. Cardinality(A \cap B) = 0
    BY <1>3, FS_EmptySet
  <2>2. Cardinality(A \cup B) = Cardinality(A) + Cardinality(B) - Cardinality(A \cap B)
    BY <1>1, FS_Union
  <2>3. QED
    BY <1>1, <2>1, <2>2
<1>5. Cardinality(A \cup B) <= Cardinality(D) /\ Cardinality(A \cup B) # Cardinality(D)
  BY <1>2, <1>3, FS_Subset
<1>6. QED
  BY <1>1, <1>2, <1>4, <1>5

(* hashset_remove(): a mark in place of the first copy of the value.        *)
LEMMA HashsetRemoveOK ==
  ASSUME NEW s, HashOK(s), Copies(s, 0) > 0, NEW v \in Nat \ {0, 1}
  PROVE  LET r == HashsetRemove(s, v)
         IN \/ r = [set |-> s, ret |-> 0] /\ Copies(s, v) = 0
            \/ /\ r.ret = 1 /\ HashOK(r.set) /\ r.set.capacity = s.capacity
               /\ r.set.nitems + r.set.n_deleted = s.nitems + s.n_deleted
               /\ Copies(s, v) = Copies(r.set, v) + 1
               /\ \A w \in Nat \ {0, 1, v} : Copies(r.set, w) = Copies(s, w)
<1> DEFINE D == 0..s.capacity - 1
           p == Probe(s, v, {0, v})
           w == [s.items EXCEPT ![p] = 1]
           t == [s EXCEPT !.items[p] = 1, !.nitems = @ - 1, !.n_deleted = @ + 1]
           r == HashsetRemove(s, v)
<1>1. HashTyped(s) /\ Stride(s.capacity) /\ s.capacity \in Nat /\ s.items \in [D -> Nat]
      /\ s.nitems \in Nat /\ s.n_deleted \in Nat
  BY DEF HashOK, HashTyped
<1>2. p \in D /\ s.items[p] \in {0, v} /\ (s.items[p] = v <=> Copies(s, v) > 0)
  BY MemberIs
<1>3. r = IF s.items[p] # v THEN [set |-> s, ret |-> 0] ELSE [set |-> t, ret |-> 1]
  BY DEF HashsetRemove
<1> HIDE DEF p, r
<1>4. CASE s.items[p] # v
  <2>1. Copies(s, v) \in Nat
    BY <1>1, CopiesAre
  <2>2. QED
    BY <1>2, <1>3, <1>4, <2>1 DEF r
<1>5. CASE s.items[p] = v
  <2>1. t = [capacity |-> s.capacity, items |-> w, nitems |-> s.nitems - 1, n_deleted |-> s.n_deleted + 1]
    <3> DEFINE a == [s EXCEPT !.items = w]
               b == [a EXCEPT !.nitems = s.nitems - 1]
    <3>1. s = [capacity |-> s.capacity, items |-> s.items, nitems |-> s.nitems, n_deleted |-> s.n_deleted]
      BY <1>1 DEF HashTyped
    <3>2. t = [b EXCEPT !.n_deleted = s.n_deleted + 1]
      BY <3>1
    <3> HIDE DEF w, t
    <3>3. a = [capacity |-> s.capacity, items |-> w, nitems |-> s.nitems, n_deleted |-> s.n_deleted]
      BY <3>1
    <3> HIDE DEF a
    <3>4. b = [capacity |-> s.capacity, items |-> w, nitems |-> s.nitems - 1, n_deleted |-> s.n_deleted]
      BY <3>3
    <3> HIDE DEF b
    <3>5. QED
      BY <3>2, <3>4
  <2>2. w \in [D -> Nat]
    BY <1>1
  <2>3. Copies(s, 0) \in Nat /\ Copies(s, 1) \in Nat /\ Copies(s, v) \in Nat
    BY <1>1, CopiesAre
  <2>4. s.nitems - 1 \in Nat /\ s.n_deleted + 1 \in Nat
    <3>1. s.nitems > 0
      <4>1. Copies(s, 0) + Copies(s, 1) < s.capacity
        BY <1>1, <1>2, <1>5, OtherSlots
      <4>2. s.nitems + Copies(s, 1) + Copies(s, 0) = s.capacity
        BY DEF HashOK
      <4>3. QED
        BY <1>1, <2>3, <4>1, <4>2
    <3>2. QED
      BY <1>1, <3>1
  <2> HIDE DEF w, t
  <2>5. t.capacity = s.capacity /\ t.items = w /\ t.nitems = s.nitems - 1 /\ t.n_deleted = s.n_deleted + 1
    BY <2>1
  <2>6. HashTyped(t)
    BY <1>1, <2>1, <2>2, <2>4, <2>5 DEF HashTyped
  <2>7. Stores(s, t, p, 1)
    BY <1>1, <1>2, <1>5, <2>5, <2>6 DEF Stores, w
  <2>8. /\ Copies(t, 1) = Copies(s, 1) + 1 /\ Copies(s, v) = Copies(t, v) + 1
        /\ \A x : x \notin {1, v} => Copies(t, x) = Copies(s, x)
    BY <1>5, <2>7, CopiesMove
  <2>9. Copies(t, 0) \in Nat /\ Copies(t, 1) \in Nat /\ Copies(t, 0) = Copies(s, 0)
    BY <2>6, <2>8, CopiesAre
  <2>10. t.n_deleted = Copies(t, 1) /\ t.nitems + t.n_deleted + Copies(t, 0) = t.capacity
    BY <1>1, <2>3, <2>5, <2>8, <2>9 DEF HashOK
  <2>11. HashOK(t)
    BY <2>7, <2>10, StoreKeeps
  <2>12. t.nitems + t.n_deleted = s.nitems + s.n_deleted
    BY <1>1, <2>5
  <2>13. QED
    BY <1>3, <1>5, <2>5, <2>8, <2>11, <2>12 DEF r
<1>6. QED
  BY <1>4, <1>5

(* The tables of a size, and those that maybe_rehash() goes through, after  *)
(* it has put the first i of the items into an empty one.                   *)
Tables(n) ==
  {t \in [capacity : {n}, items : [0..n - 1 -> Nat], nitems : Nat, n_deleted : Nat] : TRUE}

Filling(s, i, t) ==
  /\ HashOK(t) /\ t.capacity = 2 * s.capacity /\ Copies(t, 1) = 0 /\ t.nitems <= i
  /\ \A w \in Nat \ {0, 1} :
       /\ Copies(t, w) <= 1
       /\ Copies(t, w) > 0 <=> \E j \in 0..i - 1 : s.items[j] = w

LEMMA TableTyped ==
  ASSUME NEW t, HashTyped(t)
  PROVE  t \in Tables(t.capacity)
<1>1. t \in [capacity : {t.capacity}, items : [0..t.capacity - 1 -> Nat], nitems : Nat, n_deleted : Nat]
  BY DEF HashTyped
<1>2. QED
  BY <1>1 DEF Tables

(* An empty table. *)
LEMMA EmptyTable ==
  ASSUME NEW n \in Nat, n >= 8, Stride(n)
  PROVE  /\ HashOK(HashsetTable(n)) /\ HashsetTable(n).capacity = n
         /\ HashsetTable(n).nitems = 0 /\ HashsetTable(n).n_deleted = 0
         /\ \A w : w # 0 => Copies(HashsetTable(n), w) = 0
<1> DEFINE t == HashsetTable(n)
           D == 0..n - 1
<1>1. t.capacity = n /\ t.items = [i \in D |-> 0] /\ t.nitems = 0 /\ t.n_deleted = 0
  BY DEF HashsetTable
<1>2. HashTyped(t)
  BY <1>1 DEF HashTyped, HashsetTable
<1> HIDE DEF t
<1>3. \A i \in D : t.items[i] = 0
  BY <1>1
<1>4. \A w : w # 0 => Copies(t, w) = 0
  BY <1>1, <1>2, <1>3, CopiesAre
<1>5. Copies(t, 0) = n
  <2>1. SlotsOf(t, 0) = D
    BY <1>1, <1>3 DEF SlotsOf
  <2>2. Copies(t, 0) = Cardinality(D)
    BY <1>2, <2>1, CopiesAre
  <2>3. Cardinality(D) = IF 0 > n - 1 THEN 0 ELSE (n - 1) - 0 + 1
    BY FS_Interval
  <2>4. QED
    BY <2>2, <2>3
<1>6. HashOK(t)
  BY <1>1, <1>2, <1>3, <1>4, <1>5 DEF HashOK
<1>7. QED
  BY <1>1, <1>4, <1>6 DEF t

(* One turn of maybe_rehash(). *)
LEMMA RehashTurn ==
  ASSUME NEW s, HashTyped(s), NEW i \in 0..s.capacity - 1, NEW t, Filling(s, i, t)
  PROVE  Filling(s, i + 1, AddMember(t, s.items[i]).set)
<1> DEFINE v == s.items[i]
           u == AddMember(t, v).set
<1>1. v \in Nat /\ s.capacity \in Nat /\ i \in Nat /\ i < s.capacity /\ HashTyped(t)
      /\ t.capacity \in Nat /\ t.nitems \in Nat
  BY DEF HashTyped, Filling, HashOK
<1>2. \A w : (\E j \in 0..i + 1 - 1 : s.items[j] = w) <=> (\E j \in 0..i - 1 : s.items[j] = w) \/ v = w
  <2>1. \A j : j \in 0..i + 1 - 1 <=> j \in 0..i - 1 \/ j = i
    BY <1>1
  <2>2. QED
    BY <2>1
<1>3. CASE v \in {0, 1}
  <2>1. u = t
    BY <1>3 DEF AddMember
  <2>2. \A w \in Nat \ {0, 1} : w # v
    BY <1>3
  <2> HIDE DEF u, v
  <2>3. QED
    BY <1>1, <1>2, <2>1, <2>2 DEF Filling, u, v
<1>4. CASE v \notin {0, 1}
  <2>1. \A w : Copies(t, w) \in Nat
    BY <1>1, CopiesAre
  <2>2. Copies(t, 0) > 0
    <3>1. t.nitems + t.n_deleted + Copies(t, 0) = t.capacity /\ t.n_deleted = Copies(t, 1) /\ Copies(t, 1) = 0
      BY DEF Filling, HashOK
    <3>2. t.nitems <= i /\ t.capacity = 2 * s.capacity
      BY DEF Filling
    <3>3. QED
      BY <1>1, <2>1, <3>1, <3>2
  <2>3. v \in Nat \ {0, 1} /\ HashOK(t) /\ Copies(t, 1) = 0
    BY <1>1, <1>4 DEF Filling
  <2>4. \/ u = t /\ Copies(t, v) > 0
        \/ AddsOne(t, u, v) /\ ~(Copies(t, v) > 0)
    BY <2>2, <2>3, AddMemberOK
  <2> HIDE DEF u, v
  <2>5. CASE u = t /\ Copies(t, v) > 0
    <3>1. \A w \in Nat \ {0, 1} : Copies(t, w) > 0 <=> \E j \in 0..i + 1 - 1 : s.items[j] = w
      BY <1>2, <2>5 DEF Filling
    <3>2. t.nitems <= i + 1
      BY <1>1 DEF Filling
    <3>3. QED
      BY <2>5, <3>1, <3>2 DEF Filling, u, v
  <2>6. CASE AddsOne(t, u, v) /\ ~(Copies(t, v) > 0)
    <3>1. /\ HashOK(u) /\ u.capacity = t.capacity /\ u.nitems = t.nitems + 1
          /\ Copies(u, v) = Copies(t, v) + 1 /\ Copies(u, 1) <= Copies(t, 1)
          /\ \A w \in Nat \ {0, 1, v} : Copies(u, w) = Copies(t, w)
      BY <2>6 DEF AddsOne
    <3>2. Copies(u, v) = 1 /\ Copies(t, v) = 0
      BY <2>1, <2>6, <3>1
    <3>3. Copies(u, 1) = 0
      <4>1. Copies(u, 1) \in Nat
        BY <3>1, CopiesAre DEF HashOK
      <4>2. QED
        BY <2>3, <3>1, <4>1
    <3>4. ASSUME NEW w \in Nat \ {0, 1}
          PROVE  /\ Copies(u, w) <= 1
                 /\ Copies(u, w) > 0 <=> \E j \in 0..i + 1 - 1 : s.items[j] = w
      <4>1. CASE w = v
        BY <1>2, <3>2, <4>1
      <4>2. CASE w # v
        <5>1. Copies(u, w) = Copies(t, w)
          BY <3>1, <4>2
        <5>2. /\ Copies(t, w) <= 1
              /\ Copies(t, w) > 0 <=> \E j \in 0..i - 1 : s.items[j] = w
          BY DEF Filling
        <5>3. QED
          BY <1>2, <4>2, <5>1, <5>2
      <4>3. QED
        BY <4>1, <4>2
    <3>5. u.nitems <= i + 1 /\ u.capacity = 2 * s.capacity
      BY <1>1, <3>1 DEF Filling
    <3>6. QED
      BY <3>1, <3>3, <3>4, <3>5 DEF Filling, u, v
  <2>7. QED
    BY <2>4, <2>5, <2>6
<1>5. QED
  BY <1>3, <1>4

(* The loop of maybe_rehash(). *)
Rehashing(s, g) ==
  g = [i \in 0..s.capacity |->
         IF i = 0 THEN HashsetTable(2 * s.capacity) ELSE AddMember(g[i - 1], s.items[i - 1]).set]

LEMMA RehashOK ==
  ASSUME NEW s, HashOK(s), NEW turn, turn = CHOOSE g : Rehashing(s, g)
  PROVE  Filling(s, s.capacity, turn[s.capacity])
<1> DEFINE n == s.capacity
           S == Tables(2 * n)
           x == HashsetTable(2 * n)
           made(y, i) == AddMember(y, s.items[i]).set
           step == [p \in (0..n - 1) \X S |-> IF made(p[2], p[1]) \in S THEN made(p[2], p[1]) ELSE p[2]]
<1>1. HashTyped(s) /\ n \in Nat \ {0} /\ n >= 8 /\ Stride(n) /\ 2 * n \in Nat /\ 2 * n >= 8
  BY DEF HashOK, HashTyped
<1>2. HashOK(x) /\ x.capacity = 2 * n /\ x.nitems = 0 /\ \A w : w # 0 => Copies(x, w) = 0
  <2>1. Stride(2 * n)
    BY <1>1, StrideDoubles
  <2>2. QED
    BY <1>1, <2>1, EmptyTable
<1>3. Filling(s, 0, x)
  BY <1>2 DEF Filling
<1>4. x \in S
  <2>1. HashTyped(x)
    BY <1>2 DEF HashOK
  <2>2. QED
    BY <1>2, <2>1, TableTyped
<1> HIDE DEF x, S
<1>5. \A i \in 0..n - 1, y \in S :
        step[<<i, y>>] = IF made(y, i) \in S THEN made(y, i) ELSE y
  OBVIOUS
<1> HIDE DEF step
<1>6. TurnsTo(n, S, step)
  BY <1>5 DEF TurnsTo
<1>7. PICK f \in LoopStatesTo(n, S, x, step) : TRUE
  BY <1>1, <1>4, <1>6, LoopRunsTo
<1>8. f \in [0..n -> S] /\ f[0] = x /\ \A i \in 0..n - 1 : f[i + 1] = step[<<i, f[i]>>]
  BY <1>7 DEF LoopStatesTo
<1>9. \A i \in 0..n - 1 : f[i] \in S /\ f[i + 1] = IF made(f[i], i) \in S THEN made(f[i], i) ELSE f[i]
  <2>1. \A i \in 0..n - 1 : f[i] \in S
    BY <1>1, <1>8
  <2> HIDE DEF made
  <2>2. QED
    BY <1>5, <1>8, <2>1
<1>10. ASSUME NEW i \in 0..n - 1, Filling(s, i, f[i])
       PROVE  f[i + 1] = made(f[i], i) /\ Filling(s, i + 1, f[i + 1])
  <2>1. Filling(s, i + 1, made(f[i], i))
    BY <1>1, <1>10, RehashTurn
  <2> HIDE DEF made
  <2>2. made(f[i], i) \in S
    <3>1. HashTyped(made(f[i], i)) /\ made(f[i], i).capacity = 2 * n
      BY <2>1 DEF Filling, HashOK
    <3>2. QED
      BY <3>1, TableTyped DEF S
  <2>3. QED
    BY <1>9, <2>1, <2>2
<1> DEFINE Q == {i \in Nat : i <= n => Filling(s, i, f[i])}
<1>11. 0 \in Q
  BY <1>3, <1>8
<1>12. ASSUME NEW i \in Q
       PROVE  i + 1 \in Q
  <2>1. SUFFICES ASSUME i + 1 <= n
                 PROVE  Filling(s, i + 1, f[i + 1])
    OBVIOUS
  <2>2. i \in 0..n - 1 /\ Filling(s, i, f[i])
    BY <1>1, <2>1
  <2>3. QED
    BY <1>10, <2>2
<1>13. Q = Nat
  <2> HIDE DEF Q
  <2>1. Q \in SUBSET Nat
    BY DEF Q
  <2>2. QED
    BY <1>11, <1>12, <2>1, AllNat
<1>14. \A i \in 0..n : Filling(s, i, f[i])
  BY <1>13
<1>15. \A i \in 0..n - 1 : f[i + 1] = made(f[i], i)
  <2>1. \A i \in 0..n - 1 : Filling(s, i, f[i])
    BY <1>1, <1>14
  <2>2. QED
    BY <1>10, <2>1
<1> HIDE DEF Q
<1>16. \A i \in 0..n : i # 0 => i - 1 \in 0..n - 1 /\ (i - 1) + 1 = i
  BY <1>1
<1>17. Rehashing(s, f)
  <2>1. \A i \in 0..n : i # 0 => f[i] = AddMember(f[i - 1], s.items[i - 1]).set
    BY <1>15, <1>16
  <2>2. f = [i \in 0..n |-> IF i = 0 THEN x ELSE AddMember(f[i - 1], s.items[i - 1]).set]
    BY <1>8, <2>1
  <2>3. QED
    BY <2>2 DEF Rehashing, x
<1>18. Rehashing(s, turn)
  BY <1>17
<1>19. turn[0] = x /\ \A i \in 0..n - 1 : turn[i + 1] = made(turn[i], i)
  <2>1. turn = [i \in 0..n |-> IF i = 0 THEN x ELSE AddMember(turn[i - 1], s.items[i - 1]).set]
    BY <1>18 DEF Rehashing, x
  <2>2. \A i \in 0..n : turn[i] = IF i = 0 THEN x ELSE AddMember(turn[i - 1], s.items[i - 1]).set
    BY <2>1
  <2>3. ASSUME NEW i \in 0..n - 1
        PROVE  turn[i + 1] = made(turn[i], i)
    <3>1. i + 1 \in 0..n /\ i + 1 # 0 /\ (i + 1) - 1 = i
      BY <1>1
    <3>2. turn[i + 1] = AddMember(turn[(i + 1) - 1], s.items[(i + 1) - 1]).set
      BY <2>2, <3>1
    <3>3. QED
      BY <3>1, <3>2
  <2>4. turn[0] = x
    BY <1>1, <2>2
  <2>5. QED
    BY <2>3, <2>4
<1>20. SameTurns(n, f, turn)
  <2> HIDE DEF made
  <2>1. \A i \in 0..n - 1 : turn[i] = f[i] => turn[i + 1] = f[i + 1]
    BY <1>15, <1>19
  <2>2. QED
    BY <1>8, <1>19, <2>1 DEF SameTurns
<1>21. turn[n] = f[n]
  <2>1. \A i \in 0..n : turn[i] = f[i]
    BY <1>1, <1>20, SameLoop
  <2>2. QED
    BY <1>1, <2>1
<1>22. QED
  BY <1>1, <1>14, <1>21

(* A table as the calls find it, under the load that makes it grow. *)
HashInv(s) == HashOK(s) /\ ~Overloaded(s)

LEMMA RoomLeft ==
  ASSUME NEW s, HashInv(s)
  PROVE  Copies(s, 0) \in Nat /\ Copies(s, 0) >= 2
<1>1. /\ HashTyped(s) /\ s.capacity \in Nat /\ s.capacity >= 8
      /\ s.nitems \in Nat /\ s.n_deleted \in Nat
      /\ s.nitems + s.n_deleted + Copies(s, 0) = s.capacity
  BY DEF HashInv, HashOK, HashTyped
<1>2. Copies(s, 0) \in Nat
  BY <1>1, CopiesAre
<1>3. ~(100 * (s.nitems + s.n_deleted) >= 85 * s.capacity)
  BY DEF HashInv, Overloaded
<1>4. QED
  BY <1>1, <1>2, <1>3

(* maybe_rehash() keeps what is stored, once if it moves it. *)
Kept(s, t) ==
  \A w \in Nat \ {0, 1} : /\ Copies(t, w) > 0 <=> Copies(s, w) > 0
                          /\ Copies(t, w) = Copies(s, w) \/ Copies(t, w) <= 1

LEMMA MaybeRehashOK ==
  ASSUME NEW s, HashOK(s)
  PROVE  HashInv(MaybeRehash(s)) /\ Kept(s, MaybeRehash(s))
<1> DEFINE turn == CHOOSE g : Rehashing(s, g)
           t == turn[s.capacity]
<1>1. MaybeRehash(s) = IF Overloaded(s) THEN t ELSE s
  BY DEF MaybeRehash, Rehashing
<1>2. HashTyped(s) /\ s.capacity \in Nat /\ s.capacity >= 8
  BY DEF HashOK, HashTyped
<1>3. Filling(s, s.capacity, t)
  BY RehashOK
<1> HIDE DEF turn
<1>4. HashInv(t)
  <2>1. HashOK(t) /\ t.capacity = 2 * s.capacity /\ Copies(t, 1) = 0 /\ t.nitems <= s.capacity
        /\ t.n_deleted = Copies(t, 1) /\ t.nitems \in Nat
    BY <1>3 DEF Filling, HashOK, HashTyped
  <2>2. ~(100 * (t.nitems + t.n_deleted) >= 85 * t.capacity)
    BY <1>2, <2>1
  <2>3. QED
    BY <2>1, <2>2 DEF HashInv, Overloaded
<1>5. Kept(s, t)
  <2> SUFFICES ASSUME NEW w \in Nat \ {0, 1}
               PROVE  /\ Copies(t, w) > 0 <=> Copies(s, w) > 0
                      /\ Copies(t, w) <= 1
    BY DEF Kept
  <2>1. /\ Copies(t, w) <= 1
        /\ Copies(t, w) > 0 <=> \E j \in 0..s.capacity - 1 : s.items[j] = w
    BY <1>3 DEF Filling
  <2>2. Copies(s, w) \in Nat /\ (Copies(s, w) = 0 <=> \A j \in 0..s.capacity - 1 : s.items[j] # w)
    BY <1>2, CopiesAre
  <2>3. Copies(s, w) > 0 <=> \E j \in 0..s.capacity - 1 : s.items[j] = w
    BY <2>2
  <2>4. QED
    BY <2>1, <2>3
<1>6. CASE Overloaded(s)
  BY <1>1, <1>4, <1>5, <1>6
<1>7. CASE ~Overloaded(s)
  BY <1>1, <1>7 DEF HashInv, Kept
<1>8. QED
  BY <1>6, <1>7

LEMMA HashsetAddIs ==
  ASSUME NEW s, NEW v
  PROVE  HashsetAdd(s, v) = [set |-> MaybeRehash(AddMember(s, v).set), ret |-> AddMember(s, v).ret]
<1>1. AddMember(s, v) = [set |-> AddMember(s, v).set, ret |-> AddMember(s, v).ret]
  BY DEF AddMember
<1>2. QED
  BY <1>1 DEF HashsetAdd

(* hashset_add() *)
LEMMA HashsetAddOK ==
  ASSUME NEW s, HashInv(s), NEW v \in Nat
  PROVE  LET a == HashsetAdd(s, v)
         IN /\ HashInv(a.set)
            /\ v \notin {0, 1} =>
                 /\ a.ret = 1 \/ (a.ret = 0 /\ Copies(s, v) > 0)
                 /\ Copies(s, v) = 0 => a.ret = 1 /\ Copies(a.set, v) = 1
                 /\ \A w \in Nat \ {0, 1} :
                      Copies(a.set, w) > 0 <=> Copies(s, w) > 0 \/ w = v
<1> DEFINE a == HashsetAdd(s, v)
           r == AddMember(s, v)
<1>1. HashOK(s) /\ HashTyped(s) /\ Copies(s, 0) > 0
  BY RoomLeft DEF HashInv, HashOK
<1>2. a.set = MaybeRehash(r.set) /\ a.ret = r.ret
  BY HashsetAddIs
<1>3. CASE v \in {0, 1}
  <2>1. r.set = s
    BY <1>3 DEF AddMember
  <2>2. HashInv(a.set)
    BY <1>1, <1>2, <2>1, MaybeRehashOK
  <2>3. QED
    BY <1>3, <2>2
<1>4. CASE v \notin {0, 1}
  <2>1. v \in Nat \ {0, 1}
    BY <1>4
  <2>2. \/ r = [set |-> s, ret |-> 0] /\ Copies(s, v) > 0
        \/ r.ret = 1 /\ AddsOne(s, r.set, v)
    BY <1>1, <2>1, AddMemberOK
  <2> HIDE DEF a, r
  <2>3. HashOK(r.set)
    BY <1>1, <2>2 DEF AddsOne
  <2>4. HashInv(a.set) /\ Kept(r.set, a.set)
    BY <1>2, <2>3, MaybeRehashOK
  <2>5. \A w : Copies(s, w) \in Nat /\ Copies(r.set, w) \in Nat /\ Copies(a.set, w) \in Nat
    BY <1>1, <2>3, <2>4, CopiesAre DEF HashInv, HashOK
  <2>6. a.ret = 1 \/ (a.ret = 0 /\ Copies(s, v) > 0)
    BY <1>2, <2>2
  <2>7. ASSUME NEW w \in Nat \ {0, 1}
        PROVE  Copies(r.set, w) > 0 <=> Copies(s, w) > 0 \/ w = v
    <3>1. CASE r = [set |-> s, ret |-> 0] /\ Copies(s, v) > 0
      BY <3>1
    <3>2. CASE AddsOne(s, r.set, v) /\ w = v
      BY <2>5, <3>2 DEF AddsOne
    <3>3. CASE AddsOne(s, r.set, v) /\ w # v
      BY <3>3 DEF AddsOne
    <3>4. QED
      BY <2>2, <3>1, <3>2, <3>3
  <2>8. \A w \in Nat \ {0, 1} : Copies(a.set, w) > 0 <=> Copies(s, w) > 0 \/ w = v
    BY <2>4, <2>7 DEF Kept
  <2>9. ASSUME Copies(s, v) = 0
        PROVE  a.ret = 1 /\ Copies(a.set, v) = 1
    <3>1. r.ret = 1 /\ AddsOne(s, r.set, v)
      BY <2>2, <2>9
    <3>2. Copies(r.set, v) = 1
      BY <2>9, <3>1 DEF AddsOne
    <3>3. Copies(a.set, v) > 0 /\ (Copies(a.set, v) = 1 \/ Copies(a.set, v) <= 1)
      BY <2>1, <2>4, <3>2 DEF Kept
    <3>4. Copies(a.set, v) = 1
      BY <2>5, <3>3
    <3>5. QED
      BY <1>2, <3>1, <3>4
  <2>10. QED
    BY <2>4, <2>6, <2>8, <2>9 DEF a
<1>5. QED
  BY <1>3, <1>4

(* hashset_remove() leaves a table as the calls find it. *)
LEMMA HashsetRemoveInv ==
  ASSUME NEW s, HashInv(s), NEW v \in Nat \ {0, 1}
  PROVE  HashInv(HashsetRemove(s, v).set)
<1> DEFINE r == HashsetRemove(s, v)
<1>1. HashOK(s) /\ Copies(s, 0) > 0
  BY RoomLeft DEF HashInv
<1>2. \/ r = [set |-> s, ret |-> 0]
      \/ HashOK(r.set) /\ r.set.capacity = s.capacity
         /\ r.set.nitems + r.set.n_deleted = s.nitems + s.n_deleted
  BY <1>1, HashsetRemoveOK
<1> HIDE DEF r
<1>3. CASE r = [set |-> s, ret |-> 0]
  BY <1>3 DEF r
<1>4. CASE /\ HashOK(r.set) /\ r.set.capacity = s.capacity
           /\ r.set.nitems + r.set.n_deleted = s.nitems + s.n_deleted
  BY <1>4 DEF HashInv, Overloaded, r
<1>5. QED
  BY <1>2, <1>3, <1>4

(* The inductive invariant: the counters count, every probe comes to its    *)
(* value before an empty slot, and the load is under the threshold.         *)
HashsetIInv == HashInv(hset)

THEOREM HashsetInvariance == HashsetSpec => []HashsetIInv
<1>1. HashsetInit => HashsetIInv
  <2> SUFFICES ASSUME hset = HashsetTable(8)
               PROVE  HashInv(hset)
    BY DEF HashsetInit, HashsetIInv
  <2>1. HashOK(hset) /\ hset.capacity = 8 /\ hset.nitems = 0 /\ hset.n_deleted = 0
    BY StrideOfEight, EmptyTable
  <2>2. QED
    BY <2>1 DEF HashInv, Overloaded
<1>2. HashsetIInv /\ [HashsetNext]_hset => HashsetIInv'
  <2> SUFFICES ASSUME HashInv(hset), [HashsetNext]_hset
               PROVE  HashInv(hset')
    BY DEF HashsetIInv
  <2>1. CASE HashsetAddAction
    <3>1. PICK v \in Nat : hset' = HashsetAdd(hset, v).set
      BY <2>1, HashsetAssumption DEF HashsetAddAction
    <3>2. HashInv(HashsetAdd(hset, v).set)
      BY HashsetAddOK
    <3>3. QED
      BY <3>1, <3>2
  <2>2. CASE HashsetRemoveAction
    <3>1. PICK v \in Nat \ {0, 1} : hset' = HashsetRemove(hset, v).set
      BY <2>2, HashsetAssumption DEF HashsetRemoveAction
    <3>2. HashInv(HashsetRemove(hset, v).set)
      BY HashsetRemoveInv
    <3>3. QED
      BY <3>1, <3>2
  <2>3. CASE UNCHANGED hset
    BY <2>3
  <2>4. QED
    BY <2>1, <2>2, <2>3 DEF HashsetNext
<1>3. QED
  BY <1>1, <1>2, PTL DEF HashsetSpec

LEMMA MemberOf ==
  ASSUME NEW s, HashInv(s), NEW v \in Nat \ {0, 1}
  PROVE  HashsetIsMember(s, v) <=> Copies(s, v) > 0
<1>1. HashOK(s) /\ Copies(s, 0) > 0
  BY RoomLeft DEF HashInv
<1>2. QED
  BY <1>1, MemberIs DEF HashsetIsMember

(* After any adds and removes a value is found exactly when it is stored,   *)
(* each call does what it returns, and a lookup has an empty slot to stop   *)
(* at: hashset_add_member(), maybe_rehash(), hashset_remove(),              *)
(* hashset_is_member().                                                     *)
THEOREM HashsetSoundHolds == HashsetSpec => []HashsetSound
<1>1. ASSUME HashsetIInv
      PROVE  HashsetSound
  <2>1. HashInv(hset) /\ HashOK(hset) /\ HashTyped(hset) /\ Copies(hset, 0) > 0
    BY <1>1, RoomLeft DEF HashsetIInv, HashInv, HashOK
  <2>2. \A v \in Values : v \in Nat \ {0, 1}
    BY HashsetAssumption
  <2>3. HashsetLayout
    BY <2>1, <2>2, MemberOf DEF HashsetLayout, HashOK
  <2>4. HashsetCalls
    <3> SUFFICES ASSUME NEW v \in Values
                 PROVE  LET a == HashsetAdd(hset, v)
                            r == HashsetRemove(hset, v)
                        IN /\ a.ret = 1 \/ (a.ret = 0 /\ Copies(hset, v) > 0)
                           /\ Copies(hset, v) = 0 => a.ret = 1 /\ Copies(a.set, v) = 1
                           /\ r.ret = Copies(hset, v) - Copies(r.set, v)
                           /\ r.ret = 0 <=> Copies(hset, v) = 0
                           /\ Copies(a.set, 0) > 0
                           /\ \A w \in Values :
                                /\ HashsetIsMember(a.set, w) <=> HashsetIsMember(hset, w) \/ w = v
                                /\ w # v => Copies(r.set, w) = Copies(hset, w)
      BY DEF HashsetCalls
    <3> DEFINE a == HashsetAdd(hset, v)
               r == HashsetRemove(hset, v)
    <3>1. v \in Nat \ {0, 1}
      BY <2>2
    <3>2. /\ HashInv(a.set) /\ (a.ret = 1 \/ (a.ret = 0 /\ Copies(hset, v) > 0))
          /\ Copies(hset, v) = 0 => a.ret = 1 /\ Copies(a.set, v) = 1
          /\ \A w \in Nat \ {0, 1} : Copies(a.set, w) > 0 <=> Copies(hset, w) > 0 \/ w = v
      BY <2>1, <3>1, HashsetAddOK
    <3>3. \/ r = [set |-> hset, ret |-> 0] /\ Copies(hset, v) = 0
          \/ r.ret = 1 /\ Copies(hset, v) = Copies(r.set, v) + 1 /\ HashOK(r.set)
             /\ \A w \in Nat \ {0, 1, v} : Copies(r.set, w) = Copies(hset, w)
      BY <2>1, <3>1, HashsetRemoveOK
    <3> HIDE DEF a, r
    <3>4. Copies(hset, v) \in Nat /\ (HashOK(r.set) => Copies(r.set, v) \in Nat)
      BY <2>1, CopiesAre DEF HashOK
    <3>5. Copies(a.set, 0) > 0
      BY <3>2, RoomLeft
    <3>6. r.ret = Copies(hset, v) - Copies(r.set, v) /\ (r.ret = 0 <=> Copies(hset, v) = 0)
      BY <3>3, <3>4
    <3>7. ASSUME NEW w \in Values
          PROVE  /\ HashsetIsMember(a.set, w) <=> HashsetIsMember(hset, w) \/ w = v
                 /\ w # v => Copies(r.set, w) = Copies(hset, w)
      <4>1. w \in Nat \ {0, 1}
        BY <2>2
      <4>2. (HashsetIsMember(a.set, w) <=> Copies(a.set, w) > 0)
            /\ (HashsetIsMember(hset, w) <=> Copies(hset, w) > 0)
        BY <2>1, <3>2, <4>1, MemberOf
      <4>3. QED
        BY <3>2, <3>3, <4>1, <4>2
    <3>8. QED
      BY <3>2, <3>5, <3>6, <3>7 DEF a, r
  <2>5. QED
    BY <2>3, <2>4 DEF HashsetSound
<1>2. QED
  BY <1>1, HashsetInvariance, PTL

-----------------------------------------------------------------------------
(* sync_config.c, sync_agent.c: the sets and the maps that the handlers of  *)
(* the lists build, what a configuration says of the lines read so far, and *)
(* the process from its arguments to the side it takes.                     *)

(* The keys of a sequence added to a set. *)
LEMMA AddAllKeysOK ==
  ASSUME NEW s, SetOK(s), NEW ks \in Seq(Keys), NEW fails
  PROVE  LET t == AddAllKeys(s, ks, fails)
         IN /\ SetOK(t) /\ Elements(t) \subseteq Elements(s) \cup Range(ks)
            /\ Elements(s) \cup (Range(ks) \ fails) \subseteq Elements(t)
<1> DEFINE n == Len(ks)
           key == [i \in 0..n - 1 |-> ks[i + 1]]
           turn == CHOOSE g : g = [i \in 0..n |->
                     IF i = 0 THEN s ELSE SetAdd(g[i - 1], ks[i], ks[i] \in fails).set]
<1>1. n \in Nat /\ DOMAIN ks = 1..n /\ NoKey \notin Keys /\ \A i \in 1..n : ks[i] \in Keys
  BY KeysAssumption
<1>2. AddAllKeys(s, ks, fails) = turn[n]
  BY DEF AddAllKeys
<1> HIDE DEF n
<1>3. /\ key \in KeyArrays(n)
      /\ \A i \in 1..n : i - 1 \in 0..n - 1 /\ key[i - 1] = ks[i]
  BY <1>1 DEF KeyArrays
<1> HIDE DEF key
<1>4. ASSUME NEW g
      PROVE  [i \in 0..n |-> IF i = 0 THEN s ELSE SetAdd(g[i - 1], ks[i], ks[i] \in fails).set]
               = [i \in 0..n |-> IF i = 0 THEN s ELSE Added(g[i - 1], key[i - 1], fails)]
  <2>1. ASSUME NEW i \in 0..n, i # 0
        PROVE  SetAdd(g[i - 1], ks[i], ks[i] \in fails).set = Added(g[i - 1], key[i - 1], fails)
    <3>1. i \in 1..n
      BY <1>1, <2>1
    <3>2. key[i - 1] = ks[i] /\ ks[i] # NoKey
      BY <1>1, <1>3, <3>1
    <3>3. QED
      BY <3>2 DEF Added
  <2>2. QED
    BY <2>1
<1>5. \A g : Adding(n, s, key, fails, g) <=> g = [i \in 0..n |->
                     IF i = 0 THEN s ELSE SetAdd(g[i - 1], ks[i], ks[i] \in fails).set]
  BY <1>4 DEF Adding
<1>6. turn = CHOOSE g : Adding(n, s, key, fails, g)
  BY <1>5, ZenonT(60)
<1> HIDE DEF turn
<1>7. AddsKeys(n, s, key, fails, turn[n])
  BY <1>1, <1>3, <1>6, AddingIs
<1>8. \A x : (x # NoKey /\ \E j \in 0..n - 1 : key[j] = x) <=> x \in Range(ks)
  <2>1. \A j \in 0..n - 1 : j + 1 \in 1..n /\ key[j] = ks[j + 1]
    <3> SUFFICES ASSUME NEW j \in 0..n - 1
                 PROVE  j + 1 \in 1..n /\ key[j] = ks[j + 1]
      OBVIOUS
    <3>1. j + 1 \in 1..n /\ (j + 1) - 1 = j
      BY <1>1
    <3>2. QED
      BY <1>3, <3>1
  <2>2. \A x : x \in Range(ks) <=> \E i \in 1..n : ks[i] = x
    BY <1>1 DEF Range
  <2>3. QED
    BY <1>1, <1>3, <2>1, <2>2
<1>9. QED
  BY <1>2, <1>7, <1>8 DEF AddsKeys

LEMMA WatchSetOK ==
  ASSUME NEW ks \in Seq(Keys), NEW fails
  PROVE  /\ SetOK(WatchSet(ks, fails))
         /\ IsBetween(Range(ks) \ fails, WatchSet(ks, fails), Range(ks))
<1> DEFINE t == AddAllKeys(EmptySet, ks, fails)
<1>1. /\ SetOK(t) /\ Elements(t) \subseteq Elements(EmptySet) \cup Range(ks)
      /\ Elements(EmptySet) \cup (Range(ks) \ fails) \subseteq Elements(t)
  BY AddAllKeysOK, EmptySetOK
<1>2. WatchSet(ks, fails) = t
  BY DEF WatchSet
<1> HIDE DEF t
<1>3. QED
  BY <1>1, <1>2, EmptySetOK DEF IsBetween

(* The maps of hosts to sets, and the same table with any data: the links   *)
(* of a hashmap do not depend on what its nodes hold.                       *)
MapRecords ==
  [nrows : Nat \ {0}, table : UNION {[0..n - 1 -> Points] : n \in Nat},
   next : LinksOf(Points), prev : LinksOf(Points), data : LinksOf(SetsOK), count : Int,
   crow : Nat, cnode : Points]

Blank(f) == [k \in DOMAIN f |-> CHOOSE d : d \in Data]

Bare(t) ==
  [nrows |-> t.nrows, table |-> t.table, next |-> t.next, prev |-> t.prev,
   data |-> Blank(t.data), count |-> t.count, crow |-> t.crow, cnode |-> t.cnode]

MapOK(t) == t \in MapRecords /\ TableInv(Bare(t))

LEMMA BareIs ==
  ASSUME NEW t
  PROVE  /\ Bare(t).nrows = t.nrows /\ Bare(t).table = t.table /\ Bare(t).next = t.next
         /\ Bare(t).prev = t.prev /\ Bare(t).data = Blank(t.data) /\ Bare(t).count = t.count
         /\ Bare(t).crow = t.crow /\ Bare(t).cnode = t.cnode
         /\ Nodes(Bare(t)) = Nodes(t) /\ \A k : Row(Bare(t), k) = Row(t, k)
<1>1. /\ Bare(t).nrows = t.nrows /\ Bare(t).table = t.table /\ Bare(t).next = t.next
      /\ Bare(t).prev = t.prev /\ Bare(t).data = Blank(t.data) /\ Bare(t).count = t.count
      /\ Bare(t).crow = t.crow /\ Bare(t).cnode = t.cnode
  BY DEF Bare
<1>2. QED
  BY <1>1 DEF Nodes, Row

LEMMA BlankLinks ==
  ASSUME NEW V, NEW f \in LinksOf(V)
  PROVE  Blank(f) \in LinksOf(Data) /\ DOMAIN Blank(f) = DOMAIN f
<1>1. (CHOOSE d : d \in Data) \in Data
  BY HashmapAssumption
<1>2. PICK N \in SUBSET Keys : f \in [N -> V]
  BY DEF LinksOf
<1>3. Blank(f) \in [N -> Data] /\ DOMAIN Blank(f) = DOMAIN f
  BY <1>1, <1>2 DEF Blank
<1>4. QED
  BY <1>2, <1>3 DEF LinksOf

(* What the links and the contents of such a map are.                       *)
LEMMA MapFacts ==
  ASSUME NEW t, MapOK(t)
  PROVE  /\ DOMAIN t.data = Nodes(t) /\ Nodes(t) \subseteq Keys /\ t.data \in LinksOf(SetsOK)
         /\ \A k \in Nodes(t) : SetOK(t.data[k])
         /\ \A k \in Keys : Found(t, k) <=> k \in Nodes(t)
         /\ \A k \in Keys : Row(t, k) \in 0..t.nrows - 1 /\ t.table[Row(t, k)] \in Points
         /\ t.table \in [0..t.nrows - 1 -> Points] /\ t.nrows \in Nat \ {0}
<1>1. TableInv(Bare(t)) /\ t.data \in LinksOf(SetsOK)
  BY DEF MapOK, MapRecords
<1>2. DOMAIN t.data = Nodes(t)
  <2>1. DOMAIN Blank(t.data) = Nodes(t)
    BY <1>1, BareIs DEF TableInv, Linked
  <2>2. QED
    BY <1>1, <2>1, BlankLinks
<1>3. \A k \in Nodes(t) : SetOK(t.data[k])
  <2>1. PICK N \in SUBSET Keys : t.data \in [N -> SetsOK]
    BY <1>1 DEF LinksOf
  <2>2. \A k \in Nodes(t) : t.data[k] \in SetsOK
    BY <1>2, <2>1
  <2>3. QED
    BY <2>2, SetsOKAre
<1>4. \A k \in Keys : Found(t, k) <=> k \in Nodes(t)
  <2> SUFFICES ASSUME NEW k \in Keys
               PROVE  Found(t, k) <=> k \in Nodes(t)
    OBVIOUS
  <2>1. Found(Bare(t), k) <=> k \in Nodes(Bare(t))
    BY <1>1, FoundIsNode
  <2>2. Found(Bare(t), k) <=> Found(t, k)
    BY BareIs DEF Found
  <2>3. QED
    BY <2>1, <2>2, BareIs
<1>5. /\ Nodes(t) \subseteq Keys /\ t.nrows \in Nat \ {0}
      /\ t.table \in [0..t.nrows - 1 -> Points]
  BY <1>1, BareIs, LinkTypes
<1>6. \A k \in Keys : Row(t, k) \in 0..t.nrows - 1
  BY <1>1, BareIs, RowOf DEF TableInv
<1>7. QED
  BY <1>1, <1>2, <1>3, <1>4, <1>5, <1>6

(* The node of a present key gets another set. *)
Replaced(t, k, s) == [[t EXCEPT !.cnode = k] EXCEPT !.data[k] = s]

LEMMA ReplacedOK ==
  ASSUME NEW t, MapOK(t), NEW k \in Nodes(t), NEW s, SetOK(s)
  PROVE  LET u == Replaced(t, k, s)
         IN /\ MapOK(u) /\ DOMAIN u.data = DOMAIN t.data /\ u.data[k] = s
            /\ \A h \in DOMAIN t.data : h # k => u.data[h] = t.data[h]
<1> DEFINE u == Replaced(t, k, s)
           d == [t.data EXCEPT ![k] = s]
<1>1. /\ t = [nrows |-> t.nrows, table |-> t.table, next |-> t.next, prev |-> t.prev,
              data |-> t.data, count |-> t.count, crow |-> t.crow, cnode |-> t.cnode]
      /\ t \in MapRecords
  BY DEF MapOK, MapRecords
<1>2. u = [nrows |-> t.nrows, table |-> t.table, next |-> t.next, prev |-> t.prev,
           data |-> d, count |-> t.count, crow |-> t.crow, cnode |-> k]
  <2> DEFINE a == [t EXCEPT !.cnode = k]
  <2>1. a = [nrows |-> t.nrows, table |-> t.table, next |-> t.next, prev |-> t.prev,
             data |-> t.data, count |-> t.count, crow |-> t.crow, cnode |-> k]
    BY <1>1
  <2>2. u = [a EXCEPT !.data = d]
    BY <2>1 DEF Replaced
  <2> HIDE DEF a, d, u
  <2>3. QED
    BY <2>1, <2>2
<1>3. k \in Keys /\ k \in DOMAIN t.data /\ s \in SetsOK
  BY MapFacts, SetsOKAre
<1>4. /\ d \in LinksOf(SetsOK) /\ DOMAIN d = DOMAIN t.data /\ d[k] = s
      /\ \A h \in DOMAIN t.data : h # k => d[h] = t.data[h]
  <2>1. PICK N \in SUBSET Keys : t.data \in [N -> SetsOK]
    BY <1>1 DEF MapRecords, LinksOf
  <2>2. d \in [N -> SetsOK] /\ k \in N
    BY <1>3, <2>1
  <2>3. QED
    BY <1>3, <2>1, <2>2 DEF LinksOf
<1> HIDE DEF d, u
<1>5. u \in MapRecords
  BY <1>1, <1>2, <1>3, <1>4 DEF MapRecords, Points
<1>6. Bare(u) = CursorAt(Bare(t), t.crow, k)
  <2>1. Blank(d) = Blank(t.data)
    BY <1>4 DEF Blank
  <2>2. Bare(u) = [nrows |-> t.nrows, table |-> t.table, next |-> t.next, prev |-> t.prev,
                   data |-> Blank(t.data), count |-> t.count, crow |-> t.crow, cnode |-> k]
    BY <1>2, <2>1 DEF Bare
  <2> DEFINE b == Bare(t)
  <2>3. b = [nrows |-> t.nrows, table |-> t.table, next |-> t.next, prev |-> t.prev,
             data |-> Blank(t.data), count |-> t.count, crow |-> t.crow, cnode |-> t.cnode]
    BY DEF Bare
  <2> HIDE DEF b
  <2>4. CursorAt(b, t.crow, k) =
          [nrows |-> t.nrows, table |-> t.table, next |-> t.next, prev |-> t.prev,
           data |-> Blank(t.data), count |-> t.count, crow |-> t.crow, cnode |-> k]
    <3> DEFINE a == [b EXCEPT !.crow = t.crow]
    <3>1. a = [nrows |-> t.nrows, table |-> t.table, next |-> t.next, prev |-> t.prev,
               data |-> Blank(t.data), count |-> t.count, crow |-> t.crow, cnode |-> t.cnode]
      BY <2>3
    <3>2. CursorAt(b, t.crow, k) = [a EXCEPT !.cnode = k]
      BY <2>3 DEF CursorAt
    <3> HIDE DEF a
    <3>3. QED
      BY <3>1, <3>2
  <2>5. QED
    BY <2>2, <2>4 DEF b
<1>7. TableInv(Bare(u))
  <2>1. t.crow \in Nat /\ k \in Points /\ TableInv(Bare(t))
    BY <1>1, <1>3 DEF MapRecords, Points, MapOK
  <2>2. QED
    BY <1>6, <2>1, CursorMoves
<1>8. QED
  BY <1>2, <1>4, <1>5, <1>7 DEF MapOK, u

(* A new node. *)
LEMMA MapAddOK ==
  ASSUME NEW t, MapOK(t), NEW k \in Keys, k \notin Nodes(t), NEW s, SetOK(s)
  PROVE  LET u == AddHead(t, k, s)
         IN /\ MapOK(u) /\ DOMAIN u.data = DOMAIN t.data \cup {k} /\ u.data[k] = s
            /\ \A h \in DOMAIN t.data : h # k => u.data[h] = t.data[h]
<1> DEFINE u == AddHead(t, k, s)
           b == Bare(t)
           r == Row(t, k)
           h == t.table[r]
           n1 == With(t.next, k, h)
           p1 == With(Relink(t.prev, h, k), k, NoKey)
           d1 == With(t.data, k, s)
           none == CHOOSE d : d \in Data
<1>1. /\ t = [nrows |-> t.nrows, table |-> t.table, next |-> t.next, prev |-> t.prev,
              data |-> t.data, count |-> t.count, crow |-> t.crow, cnode |-> t.cnode]
      /\ t \in MapRecords /\ TableInv(b)
  BY DEF MapOK, MapRecords
<1>2. u = [nrows |-> t.nrows, table |-> [t.table EXCEPT ![r] = k], next |-> n1, prev |-> p1,
           data |-> d1, count |-> t.count + 1, crow |-> t.crow, cnode |-> t.cnode]
  <2>1. u = [t EXCEPT !.next = n1, !.prev = p1, !.data = d1, !.table[r] = k, !.count = t.count + 1]
    BY <1>1 DEF AddHead
  <2> HIDE DEF n1, p1, d1, r, h, u
  <2>2. QED
    BY <1>1, <2>1
<1>3. none \in Data
  BY HashmapAssumption
<1> HIDE DEF none
<1>4. AddHead(b, k, none) =
        [nrows |-> t.nrows, table |-> [t.table EXCEPT ![r] = k], next |-> n1, prev |-> p1,
         data |-> With(Blank(t.data), k, none), count |-> t.count + 1, crow |-> t.crow,
         cnode |-> t.cnode]
  BY <1>1, <1>3, BareIs, AddHeadIs
<1> HIDE DEF u, n1, p1, d1
<1>5. /\ d1 \in LinksOf(SetsOK) /\ DOMAIN d1 = DOMAIN t.data \cup {k} /\ d1[k] = s
      /\ \A x \in DOMAIN t.data : x # k => d1[x] = t.data[x]
  <2>1. s \in SetsOK /\ t.data \in LinksOf(SetsOK)
    BY MapFacts, SetsOKAre
  <2>2. With(t.data, k, s) \in LinksOf(SetsOK)
    BY <2>1, LinksWith
  <2>3. DOMAIN With(t.data, k, s) = DOMAIN t.data \cup {k}
    BY WithDomain
  <2>4. With(t.data, k, s)[k] = s /\ \A x \in DOMAIN t.data : x # k => With(t.data, k, s)[x] = t.data[x]
    BY WithAt
  <2>5. QED
    BY <2>2, <2>3, <2>4 DEF d1
<1>6. Blank(d1) = With(Blank(t.data), k, none)
  <2>1. \A f : DOMAIN Blank(f) = DOMAIN f /\ \A x \in DOMAIN f : Blank(f)[x] = none
    BY DEF Blank, none
  <2>2. \A x \in DOMAIN t.data \cup {k} : With(Blank(t.data), k, none)[x] = none
    BY <2>1 DEF With
  <2>3. Blank(d1) = [x \in DOMAIN t.data \cup {k} |-> none]
    BY <1>5 DEF Blank, none
  <2>4. With(Blank(t.data), k, none) = [x \in DOMAIN t.data \cup {k} |-> none]
    BY <2>1 DEF With
  <2>5. QED
    BY <2>3, <2>4
<1>7. Bare(u) = AddHead(b, k, none)
  BY <1>2, <1>4, <1>6 DEF Bare
<1>8. TableInv(Bare(u))
  <2>1. k \notin Nodes(b)
    BY BareIs
  <2>2. QED
    BY <1>1, <1>3, <1>7, <2>1, AddKeepsLinks
<1>9. u \in MapRecords
  <2>1. Bare(u) \in HmRecords
    BY <1>8 DEF TableInv
  <2>2. /\ u.nrows \in Nat \ {0} /\ u.table \in UNION {[0..n - 1 -> Points] : n \in Nat}
        /\ u.next \in LinksOf(Points) /\ u.prev \in LinksOf(Points) /\ u.count \in Int
        /\ u.crow \in Nat /\ u.cnode \in Points
    BY <2>1 DEF HmRecords, Bare
  <2>3. u.data \in LinksOf(SetsOK)
    BY <1>2, <1>5
  <2>4. u = [nrows |-> u.nrows, table |-> u.table, next |-> u.next, prev |-> u.prev,
             data |-> u.data, count |-> u.count, crow |-> u.crow, cnode |-> u.cnode]
    BY <1>2
  <2>5. QED
    BY <2>2, <2>3, <2>4 DEF MapRecords
<1>10. QED
  BY <1>2, <1>5, <1>8, <1>9 DEF MapOK, u

Entries == [host : Keys, paths : Seq(Keys)]

LEMMA NewMapOK ==
  MapOK(HashmapNew(HashmapNodes)) /\ DOMAIN HashmapNew(HashmapNodes).data = {}
<1> DEFINE t == HashmapNew(HashmapNodes)
<1>1. TableInv(t) /\ t.data = [k \in {} |-> NoKey]
  BY AgentAssumption, NewTableOK
<1>2. t = [nrows |-> t.nrows, table |-> t.table, next |-> t.next, prev |-> t.prev,
           data |-> t.data, count |-> t.count, crow |-> t.crow, cnode |-> t.cnode]
  BY DEF HashmapNew
<1> HIDE DEF t
<1>3. Blank(t.data) = t.data /\ DOMAIN t.data = {}
  BY <1>1 DEF Blank
<1>4. Bare(t) = t
  BY <1>2, <1>3 DEF Bare
<1>5. t.data \in LinksOf(SetsOK)
  <2>1. t.data \in [{} -> SetsOK] /\ {} \in SUBSET Keys
    BY <1>1
  <2>2. QED
    BY <2>1 DEF LinksOf
<1>6. t \in MapRecords
  <2>1. t \in HmRecords
    BY <1>1 DEF TableInv
  <2>2. QED
    BY <1>2, <1>5, <2>1 DEF HmRecords, MapRecords
<1>7. QED
  BY <1>1, <1>3, <1>4, <1>6 DEF MapOK, t

(* One turn of the loop of subscribe_map_handler(). *)
Extends(t, u, e, fails) ==
  /\ MapOK(u) /\ DOMAIN t.data \subseteq DOMAIN u.data
  /\ DOMAIN u.data \subseteq DOMAIN t.data \cup {e.host}
  /\ e.host \notin fails => e.host \in DOMAIN u.data
  /\ e.host \in DOMAIN u.data =>
       /\ Range(e.paths) \ fails \subseteq Elements(u.data[e.host])
       /\ \A x \in Elements(u.data[e.host]) :
            (e.host \in DOMAIN t.data /\ x \in Elements(t.data[e.host])) \/ x \in Range(e.paths)
  /\ e.host \in DOMAIN t.data => Elements(t.data[e.host]) \subseteq Elements(u.data[e.host])
  /\ \A h \in DOMAIN t.data : h # e.host => u.data[h] = t.data[h]

LEMMA EntryOK ==
  ASSUME NEW t, MapOK(t), NEW e \in Entries, NEW fails
  PROVE  Extends(t, SubscribeEntry(t, e, fails), e, fails)
<1> DEFINE k == e.host
           ks == e.paths
           u == SubscribeEntry(t, e, fails)
<1>1. k \in Keys /\ ks \in Seq(Keys)
  BY DEF Entries
<1>2. DOMAIN t.data = Nodes(t) /\ (Found(t, k) <=> k \in Nodes(t))
  BY <1>1, MapFacts
<1> HIDE DEF k, ks
<1>3. CASE k \in Nodes(t)
  <2> DEFINE s == AddAllKeys(t.data[k], ks, fails)
  <2>1. /\ SetOK(s) /\ Elements(s) \subseteq Elements(t.data[k]) \cup Range(ks)
        /\ Elements(t.data[k]) \cup (Range(ks) \ fails) \subseteq Elements(s)
    BY <1>1, <1>3, MapFacts, AddAllKeysOK
  <2>2. u = Replaced(t, k, s)
    BY <1>2, <1>3 DEF SubscribeEntry, HashmapAdd, Replaced, k, ks
  <2> HIDE DEF s, u
  <2>3. /\ MapOK(u) /\ DOMAIN u.data = DOMAIN t.data /\ u.data[k] = s
        /\ \A h \in DOMAIN t.data : h # k => u.data[h] = t.data[h]
    BY <1>3, <2>1, <2>2, ReplacedOK
  <2>4. QED
    BY <1>2, <1>3, <2>1, <2>3 DEF Extends, k, ks, u
<1>4. CASE k \notin Nodes(t) /\ k \notin fails
  <2> DEFINE s == AddAllKeys(EmptySet, ks, fails)
  <2>1. SetOK(s) /\ Range(ks) \ fails \subseteq Elements(s) /\ Elements(s) \subseteq Range(ks)
    BY <1>1, WatchSetOK DEF WatchSet, IsBetween
  <2>2. u = AddHead(t, k, s)
    BY <1>2, <1>4 DEF SubscribeEntry, HashmapAdd, k, ks
  <2> HIDE DEF s, u
  <2>3. /\ MapOK(u) /\ DOMAIN u.data = DOMAIN t.data \cup {k} /\ u.data[k] = s
        /\ \A h \in DOMAIN t.data : h # k => u.data[h] = t.data[h]
    BY <1>1, <1>4, <2>1, <2>2, MapAddOK
  <2>4. QED
    BY <1>2, <1>4, <2>1, <2>3 DEF Extends, k, ks, u
<1>5. CASE k \notin Nodes(t) /\ k \in fails
  <2>1. u = t
    BY <1>2, <1>5 DEF SubscribeEntry, HashmapAdd, k
  <2> HIDE DEF u
  <2>2. QED
    BY <1>2, <1>5, <2>1 DEF Extends, k, u
<1>6. QED
  BY <1>3, <1>4, <1>5

(* The map of the first n entries. *)
Subscribed(t, v, n, fails) ==
  /\ MapOK(t)
  /\ \A h \in DOMAIN t.data : \E i \in 1..n : v[i].host = h
  /\ \A i \in 1..n : v[i].host \notin fails => v[i].host \in DOMAIN t.data
  /\ \A h \in DOMAIN t.data : \A x \in Elements(t.data[h]) :
       \E i \in 1..n : v[i].host = h /\ x \in Range(v[i].paths)
  /\ \A i \in 1..n : v[i].host \notin fails =>
       Range(v[i].paths) \ fails \subseteq Elements(t.data[v[i].host])

LEMMA SubscribeTurn ==
  ASSUME NEW v \in Seq(Entries), NEW fails, NEW i \in 1..Len(v), NEW t, Subscribed(t, v, i - 1, fails)
  PROVE  Subscribed(SubscribeEntry(t, v[i], fails), v, i, fails)
<1> DEFINE u == SubscribeEntry(t, v[i], fails)
           e == v[i]
<1>1. v[i] \in Entries /\ MapOK(t)
  BY DEF Subscribed
<1>2. Extends(t, u, e, fails)
  BY <1>1, EntryOK
<1> HIDE DEF u, e
<1>3. \A j : j \in 1..i <=> j \in 1..i - 1 \/ j = i
  OBVIOUS
<1>4. \A h \in DOMAIN u.data : \E j \in 1..i : v[j].host = h
  <2> SUFFICES ASSUME NEW h \in DOMAIN u.data
               PROVE  \E j \in 1..i : v[j].host = h
    OBVIOUS
  <2>1. CASE h = e.host
    BY <1>3, <2>1 DEF e
  <2>2. CASE h \in DOMAIN t.data
    BY <1>3, <2>2 DEF Subscribed
  <2>3. QED
    BY <1>2, <2>1, <2>2 DEF Extends
<1>5. ASSUME NEW j \in 1..i, v[j].host \notin fails
      PROVE  v[j].host \in DOMAIN u.data /\ Range(v[j].paths) \ fails \subseteq Elements(u.data[v[j].host])
  <2>1. CASE j = i
    BY <1>2, <1>5, <2>1 DEF Extends, e
  <2>2. CASE j \in 1..i - 1
    <3> DEFINE h == v[j].host
    <3>1. h \in DOMAIN t.data /\ Range(v[j].paths) \ fails \subseteq Elements(t.data[h])
      BY <1>5, <2>2 DEF Subscribed
    <3> HIDE DEF h
    <3>2. h \in DOMAIN u.data /\ Elements(t.data[h]) \subseteq Elements(u.data[h])
      BY <1>2, <3>1 DEF Extends
    <3>3. QED
      BY <3>1, <3>2 DEF h
  <2>3. QED
    BY <1>3, <2>1, <2>2
<1>6. ASSUME NEW h \in DOMAIN u.data, NEW x \in Elements(u.data[h])
      PROVE  \E j \in 1..i : v[j].host = h /\ x \in Range(v[j].paths)
  <2>1. CASE h = e.host /\ x \in Range(e.paths)
    BY <1>3, <2>1 DEF e
  <2>2. CASE h \in DOMAIN t.data /\ x \in Elements(t.data[h])
    BY <1>3, <2>2 DEF Subscribed
  <2>3. h = e.host => x \in Range(e.paths) \/ (h \in DOMAIN t.data /\ x \in Elements(t.data[h]))
    BY <1>2 DEF Extends
  <2>4. h # e.host => h \in DOMAIN t.data /\ x \in Elements(t.data[h])
    BY <1>2 DEF Extends
  <2>5. QED
    BY <2>1, <2>2, <2>3, <2>4
<1>7. MapOK(u)
  BY <1>2 DEF Extends
<1>8. QED
  BY <1>4, <1>5, <1>6, <1>7 DEF Subscribed, u

Subscribing(v, fails, g) ==
  g = [i \in 0..Len(v) |->
         IF i = 0 THEN HashmapNew(HashmapNodes) ELSE SubscribeEntry(g[i - 1], v[i], fails)]

LEMMA SubscribeMapOK ==
  ASSUME NEW v \in Seq(Entries), NEW fails
  PROVE  Subscribed(SubscribeMap(v, fails), v, Len(v), fails)
<1> DEFINE n == Len(v)
           S == {t \in MapRecords : MapOK(t)}
           x == HashmapNew(HashmapNodes)
           made(y, i) == SubscribeEntry(y, v[i + 1], fails)
           step == [p \in (0..n - 1) \X S |-> made(p[2], p[1])]
           turn == CHOOSE g : Subscribing(v, fails, g)
<1>1. n \in Nat /\ \A i \in 0..n - 1 : i + 1 \in 1..n /\ (i + 1) - 1 = i /\ v[i + 1] \in Entries
  OBVIOUS
<1>2. \A t : t \in S <=> MapOK(t)
  BY DEF MapOK
<1>3. x \in S /\ MapOK(x) /\ DOMAIN x.data = {}
  BY <1>2, NewMapOK
<1> HIDE DEF x, S
<1>4. \A i \in 0..n - 1, y \in S : made(y, i) \in S
  BY <1>1, <1>2, EntryOK DEF Extends
<1>5. \A i \in 0..n - 1, y \in S : step[<<i, y>>] = made(y, i)
  OBVIOUS
<1> HIDE DEF step
<1>6. TurnsTo(n, S, step)
  <2> HIDE DEF made
  <2>1. QED
    BY <1>4, <1>5 DEF TurnsTo
<1>7. PICK f \in LoopStatesTo(n, S, x, step) : TRUE
  BY <1>1, <1>3, <1>6, LoopRunsTo
<1>8. f \in [0..n -> S] /\ f[0] = x /\ \A i \in 0..n - 1 : f[i + 1] = made(f[i], i)
  <2>1. f \in [0..n -> S] /\ f[0] = x /\ \A i \in 0..n - 1 : f[i + 1] = step[<<i, f[i]>>]
    BY <1>7 DEF LoopStatesTo
  <2>2. \A i \in 0..n - 1 : f[i] \in S
    BY <1>1, <2>1
  <2> HIDE DEF made
  <2>3. QED
    BY <1>5, <2>1, <2>2
<1> DEFINE Q == {i \in Nat : i <= n => Subscribed(f[i], v, i, fails)}
<1>9. 0 \in Q
  BY <1>3, <1>8 DEF Subscribed
<1>10. ASSUME NEW i \in Q
       PROVE  i + 1 \in Q
  <2>1. SUFFICES ASSUME i + 1 <= n
                 PROVE  Subscribed(f[i + 1], v, i + 1, fails)
    OBVIOUS
  <2>2. i \in 0..n - 1 /\ Subscribed(f[i], v, i, fails)
    BY <1>1, <2>1
  <2>3. i + 1 \in 1..Len(v) /\ (i + 1) - 1 = i
    BY <1>1, <2>2
  <2>4. Subscribed(SubscribeEntry(f[i], v[i + 1], fails), v, i + 1, fails)
    BY <2>2, <2>3, SubscribeTurn
  <2>5. QED
    BY <1>8, <2>2, <2>4
<1>11. Q = Nat
  <2> HIDE DEF Q
  <2>1. Q \in SUBSET Nat
    BY DEF Q
  <2>2. QED
    BY <1>9, <1>10, <2>1, AllNat
<1>12. Subscribed(f[n], v, n, fails)
  BY <1>1, <1>11
<1> HIDE DEF Q
<1>13. \A i \in 0..n : i # 0 => i - 1 \in 0..n - 1 /\ (i - 1) + 1 = i
  BY <1>1
<1>14. Subscribing(v, fails, f)
  <2>1. \A i \in 0..n : i # 0 => f[i] = SubscribeEntry(f[i - 1], v[i], fails)
    BY <1>8, <1>13
  <2>2. f = [i \in 0..n |-> IF i = 0 THEN x ELSE SubscribeEntry(f[i - 1], v[i], fails)]
    BY <1>8, <2>1
  <2>3. QED
    BY <2>2 DEF Subscribing, x
<1>15. Subscribing(v, fails, turn)
  BY <1>14
<1> HIDE DEF turn
<1>16. turn[0] = x /\ \A i \in 0..n - 1 : turn[i + 1] = made(turn[i], i)
  <2>1. turn = [i \in 0..n |-> IF i = 0 THEN x ELSE SubscribeEntry(turn[i - 1], v[i], fails)]
    BY <1>15 DEF Subscribing, x
  <2>2. \A i \in 0..n : turn[i] = IF i = 0 THEN x ELSE SubscribeEntry(turn[i - 1], v[i], fails)
    BY <2>1
  <2>3. ASSUME NEW i \in 0..n - 1
        PROVE  turn[i + 1] = made(turn[i], i)
    <3>1. i + 1 \in 0..n /\ i + 1 # 0 /\ (i + 1) - 1 = i
      BY <1>1
    <3>2. turn[i + 1] = SubscribeEntry(turn[(i + 1) - 1], v[i + 1], fails)
      BY <2>2, <3>1
    <3>3. QED
      BY <3>1, <3>2
  <2>4. turn[0] = x
    BY <1>1, <2>2
  <2>5. QED
    BY <2>3, <2>4
<1>17. SameTurns(n, f, turn)
  <2> HIDE DEF made
  <2>1. \A i \in 0..n - 1 : turn[i] = f[i] => turn[i + 1] = f[i + 1]
    BY <1>8, <1>16
  <2>2. QED
    BY <1>8, <1>16, <2>1 DEF SameTurns
<1>18. turn[n] = f[n]
  <2>1. \A i \in 0..n : turn[i] = f[i]
    BY <1>1, <1>17, SameLoop
  <2>2. QED
    BY <1>1, <2>1
<1>19. SubscribeMap(v, fails) = turn[n]
  BY DEF SubscribeMap, turn, Subscribing
<1>20. QED
  BY <1>12, <1>18, <1>19

(* The keys of the lines, the fields of a configuration, and the field that *)
(* says what the lines of a key say.                                        *)
ItemKeys ==
  {"daemon", "log_level", "log_dst", "log_file", "mode", "port", "watch_path",
   "subscribe_path", "server_list"}

Fields == ItemKeys \cup {"watch_set", "subscribe_map"}

Says(key) ==
  CASE key = "watch_path" -> "watch_set"
    [] key = "subscribe_path" -> "subscribe_map"
    [] OTHER -> key

LEMMA FieldsAre ==
  /\ DOMAIN NewConfig = Fields /\ NewConfig.server_list = Unset
  /\ \A line : Takes(line) => line.key \in ItemKeys
  /\ \A key \in ItemKeys : Says(key) \in Fields /\ SetBy(Says(key)) = key
  /\ "comment" \notin ItemKeys
<1>1. DOMAIN NewConfig = Fields /\ NewConfig.server_list = Unset
  BY DEF NewConfig, Fields, ItemKeys
<1>2. \A line : Takes(line) => line.key \in ItemKeys
  BY DEF Takes, ItemKeys
<1>3. \A key \in ItemKeys : Says(key) \in Fields /\ SetBy(Says(key)) = key
  BY DEF ItemKeys, Fields, Says, SetBy
<1>4. "comment" \notin ItemKeys
  BY DEF ItemKeys
<1>5. QED
  BY <1>1, <1>2, <1>3, <1>4

LineOK(line) ==
  /\ line.key \in {"watch_path", "server_list"} => line.val \in Seq(Keys)
  /\ line.key = "subscribe_path" =>
       line.val \in Seq([host : Keys \cup {NoKey}, paths : Seq(Keys)])

(* The entries of a line that has none without a ':'.                       *)
LEMMA SplitEntries ==
  ASSUME NEW line, LineOK(line), line.key = "subscribe_path", ~Unsplit(line)
  PROVE  line.val \in Seq(Entries)
<1> DEFINE v == line.val
<1>1. v \in Seq([host : Keys \cup {NoKey}, paths : Seq(Keys)])
  BY DEF LineOK
<1>2. Len(v) \in Nat /\ DOMAIN v = 1..Len(v) /\ v = [i \in 1..Len(v) |-> v[i]]
  BY <1>1
<1>3. ASSUME NEW i \in 1..Len(v)
      PROVE  v[i] \in Entries
  <2>1. i \in DOMAIN v
    BY <1>2
  <2>2. v[i].host # NoKey
    BY <2>1 DEF Unsplit
  <2> HIDE DEF v
  <2>3. v[i] \in [host : Keys \cup {NoKey}, paths : Seq(Keys)]
    BY <1>1, ElementOfSeq
  <2>4. QED
    BY <2>2, <2>3 DEF Entries
<1> HIDE DEF v
<1>4. v \in [1..Len(v) -> Entries]
  BY <1>2, <1>3
<1>5. v \in Seq(Entries)
  BY <1>2, <1>4
<1>6. QED
  BY <1>5 DEF v

LEMMA LinesOK ==
  ASSUME NEW f \in Files
  PROVE  /\ Len(f) \in Nat /\ \A i \in 1..Len(f) : LineOK(f[i])
BY FilesAssumption DEF LineOK

(* What a line says depends on its field alone. *)
LEMMA AgreesSame ==
  ASSUME NEW c, NEW d, NEW line, NEW short,
         d[Says(line.key)] = c[Says(line.key)]
  PROVE  Agrees(d, line, short) <=> Agrees(c, line, short)
<1>1. CASE line.key = "watch_path"
  <2>1. d.watch_set = c.watch_set
    BY <1>1 DEF Says
  <2>2. QED
    BY <1>1, <2>1 DEF Agrees
<1>2. CASE line.key = "subscribe_path"
  <2>1. d.subscribe_map = c.subscribe_map
    BY <1>2 DEF Says
  <2>2. QED
    BY <1>2, <2>1 DEF Agrees
<1>3. CASE line.key = "daemon"
  <2>1. d.daemon = c.daemon
    BY <1>3 DEF Says
  <2>2. QED
    BY <1>3, <2>1 DEF Agrees
<1>4. CASE line.key = "server_list"
  <2>1. d.server_list = c.server_list
    BY <1>4 DEF Says
  <2>2. QED
    BY <1>4, <2>1 DEF Agrees
<1>5. CASE line.key \notin {"watch_path", "subscribe_path", "daemon", "server_list"}
  <2>1. d[line.key] = c[line.key]
    BY <1>5 DEF Says
  <2>2. QED
    BY <1>5, <2>1 DEF Agrees
<1>6. QED
  BY <1>1, <1>2, <1>3, <1>4, <1>5

(* The more names may be missing, the more agrees. *)
LEMMA AgreesMore ==
  ASSUME NEW c, NEW line, NEW short, NEW more, short \subseteq more, Agrees(c, line, short)
  PROVE  Agrees(c, line, more)
<1>1. CASE line.key = "watch_path"
  BY <1>1 DEF Agrees, IsBetween
<1>2. CASE line.key = "server_list"
  BY <1>2 DEF Agrees, IsBetween
<1>3. CASE line.key = "subscribe_path"
  <2> DEFINE m == c.subscribe_map.data
             hosts == {line.val[i].host : i \in DOMAIN line.val}
             low(h, names) == IF h \in names THEN {} ELSE PathsOf(line.val, h) \ names
  <2>1. /\ hosts \ short \subseteq DOMAIN m /\ DOMAIN m \subseteq hosts
        /\ \A h \in DOMAIN m : IsBetween(low(h, short), m[h], PathsOf(line.val, h))
    BY <1>3 DEF Agrees
  <2> HIDE DEF m, hosts
  <2>2. \A h \in DOMAIN m : IsBetween(low(h, more), m[h], PathsOf(line.val, h))
    <3> SUFFICES ASSUME NEW h \in DOMAIN m
                 PROVE  IsBetween(low(h, more), m[h], PathsOf(line.val, h))
      OBVIOUS
    <3>1. low(h, more) \subseteq low(h, short)
      OBVIOUS
    <3>2. IsBetween(low(h, short), m[h], PathsOf(line.val, h))
      BY <2>1
    <3> HIDE DEF low
    <3>3. QED
      BY <3>1, <3>2 DEF IsBetween
  <2>3. hosts \ more \subseteq DOMAIN m
    BY <2>1
  <2>4. QED
    BY <1>3, <2>1, <2>2, <2>3 DEF Agrees, m, hosts
<1>4. CASE line.key \notin {"watch_path", "subscribe_path", "server_list"}
  BY <1>4 DEF Agrees
<1>5. QED
  BY <1>1, <1>2, <1>3, <1>4

(* A line that is taken: it says what it says, and the fields of the other  *)
(* keys stay.                                                               *)
ItemSet(c, d, line, fails) ==
  /\ DOMAIN d = DOMAIN c
  /\ Counts(line) => Agrees(d, line, fails)
  /\ ~Counts(line) => d[Says(line.key)] = c[Says(line.key)]
  /\ \A x \in Fields : SetBy(x) # line.key => d[x] = c[x]
  /\ d.server_list = c.server_list \/ SetOK(d.server_list)

LEMMA MapAgrees ==
  ASSUME NEW v \in Seq(Entries), NEW fails
  PROVE  LET m == SubscribeMap(v, fails).data
             hosts == {v[i].host : i \in DOMAIN v}
         IN /\ hosts \ fails \subseteq DOMAIN m /\ DOMAIN m \subseteq hosts
            /\ \A h \in DOMAIN m :
                 IsBetween(IF h \in fails THEN {} ELSE PathsOf(v, h) \ fails, m[h], PathsOf(v, h))
<1> DEFINE t == SubscribeMap(v, fails)
           hosts == {v[i].host : i \in DOMAIN v}
<1>1. Subscribed(t, v, Len(v), fails)
  BY SubscribeMapOK
<1>2. DOMAIN v = 1..Len(v)
  OBVIOUS
<1> HIDE DEF t
<1>3. hosts \ fails \subseteq DOMAIN t.data /\ DOMAIN t.data \subseteq hosts
  BY <1>1, <1>2 DEF Subscribed
<1>4. ASSUME NEW h \in DOMAIN t.data
      PROVE  IsBetween(IF h \in fails THEN {} ELSE PathsOf(v, h) \ fails, t.data[h], PathsOf(v, h))
  <2>1. \A x : x \in PathsOf(v, h) <=> \E i \in 1..Len(v) : v[i].host = h /\ x \in Range(v[i].paths)
    BY <1>2 DEF PathsOf
  <2>2. Elements(t.data[h]) \subseteq PathsOf(v, h)
    BY <1>1, <1>4, <2>1 DEF Subscribed
  <2>3. h \notin fails => PathsOf(v, h) \ fails \subseteq Elements(t.data[h])
    <3> SUFFICES ASSUME h \notin fails, NEW x \in PathsOf(v, h), x \notin fails
                 PROVE  x \in Elements(t.data[h])
      OBVIOUS
    <3>1. PICK i \in 1..Len(v) : v[i].host = h /\ x \in Range(v[i].paths)
      BY <2>1
    <3>2. QED
      BY <1>1, <3>1 DEF Subscribed
  <2>4. QED
    BY <2>2, <2>3 DEF IsBetween
<1> HIDE DEF hosts
<1>5. QED
  BY <1>3, <1>4 DEF t, hosts

LEMMA ItemIsSet ==
  ASSUME NEW c, DOMAIN c = Fields, NEW line, LineOK(line), Takes(line),
         ~Unsplit(line), NEW fails
  PROVE  ItemSet(c, ConfigItem(c, line, fails), line, fails)
<1> DEFINE d == ConfigItem(c, line, fails)
<1>1. line.key \in ItemKeys
  BY FieldsAre
<1>2. CASE line.key = "daemon"
  <2>1. d = [c EXCEPT !.daemon = (line.val = "yes")]
    BY <1>2 DEF ConfigItem
  <2> HIDE DEF d
  <2>2. DOMAIN d = DOMAIN c /\ \A x \in Fields : x # "daemon" => d[x] = c[x]
    BY <2>1
  <2>3. d.daemon = (line.val = "yes")
    BY <2>1 DEF Fields, ItemKeys
  <2>4. Counts(line) /\ Agrees(d, line, fails)
    BY <1>2, <2>3 DEF Counts, Agrees
  <2>5. \A x \in Fields : SetBy(x) # "daemon" => x # "daemon"
    BY DEF SetBy
  <2>6. "server_list" \in Fields
    BY DEF Fields, ItemKeys
  <2>7. QED
    BY <1>2, <2>2, <2>4, <2>5, <2>6 DEF ItemSet, d
<1>3. CASE line.key = "watch_path" /\ line.val # <<Empty>>
  <2> DEFINE s == WatchSet(line.val, fails)
  <2>1. d = [c EXCEPT !.watch_path = line.val, !.watch_set = s]
    BY <1>3 DEF ConfigItem
  <2>2. IsBetween(Range(line.val) \ fails, s, Range(line.val))
    BY <1>3, WatchSetOK DEF LineOK
  <2> HIDE DEF d, s
  <2>3. /\ DOMAIN d = DOMAIN c
        /\ \A x \in Fields : x # "watch_path" /\ x # "watch_set" => d[x] = c[x]
    BY <2>1
  <2>4. d.watch_set = s
    BY <2>1 DEF Fields
  <2>5. Counts(line) /\ Agrees(d, line, fails)
    BY <1>3, <2>2, <2>4 DEF Counts, Agrees
  <2>6. \A x \in Fields : SetBy(x) # "watch_path" => x # "watch_path" /\ x # "watch_set"
    BY DEF SetBy
  <2>7. "server_list" \in Fields
    BY DEF Fields, ItemKeys
  <2>8. QED
    BY <1>3, <2>3, <2>5, <2>6, <2>7 DEF ItemSet, d
<1>4. CASE line.key = "subscribe_path" /\ line.val # <<>>
  <2> DEFINE m == SubscribeMap(line.val, fails)
  <2>1. d = [c EXCEPT !.subscribe_path = line.val, !.subscribe_map = m]
    BY <1>4 DEF ConfigItem
  <2> DEFINE hosts == {line.val[i].host : i \in DOMAIN line.val}
             low(h) == IF h \in fails THEN {} ELSE PathsOf(line.val, h) \ fails
  <2>2. /\ hosts \ fails \subseteq DOMAIN m.data /\ DOMAIN m.data \subseteq hosts
        /\ \A h \in DOMAIN m.data : IsBetween(low(h), m.data[h], PathsOf(line.val, h))
    BY <1>4, SplitEntries, MapAgrees
  <2> HIDE DEF d, m
  <2>3. /\ DOMAIN d = DOMAIN c
        /\ \A x \in Fields : x # "subscribe_path" /\ x # "subscribe_map" => d[x] = c[x]
    BY <2>1
  <2>4. d.subscribe_map = m
    BY <2>1 DEF Fields
  <2>5. Counts(line) /\ Agrees(d, line, fails)
    BY <1>4, <2>2, <2>4 DEF Counts, Agrees
  <2>6. \A x \in Fields : SetBy(x) # "subscribe_path" => x # "subscribe_path" /\ x # "subscribe_map"
    BY DEF SetBy
  <2>7. "server_list" \in Fields
    BY DEF Fields, ItemKeys
  <2>8. QED
    BY <1>4, <2>3, <2>5, <2>6, <2>7 DEF ItemSet, d
<1>5. CASE line.key = "server_list"
  <2> DEFINE s == WatchSet(line.val, fails)
  <2>1. d = [c EXCEPT !.server_list = s]
    BY <1>5 DEF ConfigItem
  <2>2. SetOK(s) /\ IsBetween(Range(line.val) \ fails, s, Range(line.val))
    BY <1>5, WatchSetOK DEF LineOK
  <2> HIDE DEF d, s
  <2>3. DOMAIN d = DOMAIN c /\ \A x \in Fields : x # "server_list" => d[x] = c[x]
    BY <2>1
  <2>4. d.server_list = s
    BY <2>1 DEF Fields, ItemKeys
  <2>5. Counts(line) /\ Agrees(d, line, fails)
    BY <1>5, <2>2, <2>4 DEF Counts, Agrees
  <2>6. \A x \in Fields : SetBy(x) # "server_list" => x # "server_list"
    BY DEF SetBy
  <2>7. QED
    BY <1>5, <2>2, <2>3, <2>4, <2>5, <2>6 DEF ItemSet, d
<1>6. CASE /\ line.key \notin {"daemon", "server_list"}
           /\ ~(line.key = "watch_path" /\ line.val # <<Empty>>)
           /\ ~(line.key = "subscribe_path" /\ line.val # <<>>)
  <2> DEFINE k == line.key
  <2>1. d = [c EXCEPT ![k] = line.val]
    BY <1>6 DEF ConfigItem
  <2>2. k \in Fields /\ k # "comment"
    BY <1>1, FieldsAre DEF Fields
  <2> HIDE DEF d, k
  <2>3. DOMAIN d = DOMAIN c /\ d[k] = line.val /\ \A x \in Fields : x # k => d[x] = c[x]
    BY <2>1, <2>2
  <2>4. Counts(line) <=> k \notin {"watch_path", "subscribe_path"}
    BY <1>6, <2>2 DEF Counts, k
  <2>5. k \notin {"watch_path", "subscribe_path"} => Agrees(d, line, fails)
    BY <1>6, <2>3 DEF Agrees, k
  <2>6. k \in {"watch_path", "subscribe_path"} => Says(k) \in Fields /\ Says(k) # k
    BY DEF Says, Fields
  <2>7. ASSUME NEW x \in Fields, SetBy(x) # k
        PROVE  x # k
    BY <1>1, <2>7 DEF SetBy, ItemKeys, k
  <2>8. "server_list" \in Fields /\ k # "server_list"
    BY <1>6 DEF Fields, ItemKeys, k
  <2>9. QED
    BY <2>3, <2>4, <2>5, <2>6, <2>7, <2>8 DEF ItemSet, d, k
<1>7. QED
  BY <1>2, <1>3, <1>4, <1>5, <1>6

(* What a configuration says of the first n lines of a file. *)
ConfigSays(c, f, n, short) ==
  /\ DOMAIN c = Fields
  /\ \A i \in 1..n : f[i].key = "comment" \/ (Takes(f[i]) /\ ~Unsplit(f[i]))
  /\ \A i \in 1..n : IsLast(f, n, i) => Agrees(c, f[i], short)
  /\ \A x \in Fields : (\A i \in 1..n : f[i].key # SetBy(x)) => c[x] = NewConfig[x]
  /\ c.server_list = Unset \/ SetOK(c.server_list)

LEMMA NothingRead ==
  ASSUME NEW f
  PROVE  ConfigSays(NewConfig, f, 0, {})
<1>1. 1..0 = {}
  OBVIOUS
<1>2. QED
  BY <1>1, FieldsAre DEF ConfigSays

LEMMA LastBefore ==
  ASSUME NEW f, NEW n \in Nat \ {0}, NEW i \in 1..n - 1, IsLast(f, n, i)
  PROVE  IsLast(f, n - 1, i) /\ (f[n].key = f[i].key => ~Counts(f[n]))
<1>1. n \in i + 1..n /\ i + 1..n - 1 \subseteq i + 1..n
  OBVIOUS
<1>2. QED
  BY <1>1 DEF IsLast

LEMMA CommentRead ==
  ASSUME NEW f, NEW n \in Nat \ {0}, NEW c, NEW short, ConfigSays(c, f, n - 1, short), f[n].key = "comment"
  PROVE  ConfigSays(c, f, n, short)
<1>1. 1..n = (1..n - 1) \cup {n}
  OBVIOUS
<1>2. ~Counts(f[n])
  BY DEF Counts
<1>3. ASSUME NEW i \in 1..n, IsLast(f, n, i)
      PROVE  Agrees(c, f[i], short)
  <2>1. i \in 1..n - 1
    BY <1>1, <1>2, <1>3 DEF IsLast
  <2>2. QED
    BY <1>3, <2>1, LastBefore DEF ConfigSays
<1>4. QED
  BY <1>1, <1>3 DEF ConfigSays

LEMMA LineRead ==
  ASSUME NEW f, NEW n \in Nat \ {0}, NEW c, NEW short, ConfigSays(c, f, n - 1, short),
         LineOK(f[n]), Takes(f[n]), ~Unsplit(f[n]), NEW fails
  PROVE  ConfigSays(ConfigItem(c, f[n], fails), f, n, short \cup fails)
<1> DEFINE d == ConfigItem(c, f[n], fails)
           more == short \cup fails
<1>1. 1..n = (1..n - 1) \cup {n}
  OBVIOUS
<1>2. ItemSet(c, d, f[n], fails) /\ DOMAIN c = Fields
  BY ItemIsSet DEF ConfigSays
<1> HIDE DEF d
<1>3. ASSUME NEW i \in 1..n, IsLast(f, n, i)
      PROVE  Agrees(d, f[i], more)
  <2>1. CASE i = n
    <3>1. Agrees(d, f[n], fails)
      BY <1>2, <1>3, <2>1 DEF IsLast, ItemSet
    <3>2. fails \subseteq more
      OBVIOUS
    <3>3. QED
      BY <2>1, <3>1, <3>2, AgreesMore
  <2>2. CASE i \in 1..n - 1
    <3> DEFINE key == f[i].key
    <3>1. IsLast(f, n - 1, i) /\ (f[n].key = key => ~Counts(f[n]))
      BY <1>3, <2>2, LastBefore
    <3>2. Agrees(c, f[i], short)
      BY <2>2, <3>1 DEF ConfigSays
    <3>3. key \in ItemKeys
      BY <1>3, <2>2, FieldsAre DEF ConfigSays, IsLast, Counts
    <3>4. Says(key) \in Fields /\ SetBy(Says(key)) = key
      BY <3>3, FieldsAre
    <3>5. d[Says(key)] = c[Says(key)]
      BY <1>2, <3>1, <3>4 DEF ItemSet
    <3>6. Agrees(d, f[i], short) /\ short \subseteq more
      BY <3>2, <3>5, AgreesSame
    <3>7. QED
      BY <3>6, AgreesMore
  <2>3. QED
    BY <1>1, <2>1, <2>2
<1>4. ASSUME NEW x \in Fields, \A i \in 1..n : f[i].key # SetBy(x)
      PROVE  d[x] = NewConfig[x]
  <2>1. f[n].key # SetBy(x) /\ \A i \in 1..n - 1 : f[i].key # SetBy(x)
    BY <1>1, <1>4
  <2>2. QED
    BY <1>2, <2>1 DEF ItemSet, ConfigSays
<1>5. \A i \in 1..n : f[i].key = "comment" \/ (Takes(f[i]) /\ ~Unsplit(f[i]))
  BY <1>1 DEF ConfigSays
<1>6. d.server_list = Unset \/ SetOK(d.server_list)
  BY <1>2 DEF ItemSet, ConfigSays
<1>7. QED
  BY <1>2, <1>3, <1>4, <1>5, <1>6 DEF ConfigSays, ItemSet, d

(* The inductive invariant of the start of the program.  What the loop of   *)
(* property_read() has read is what the configuration says, until a line is *)
(* refused.                                                                 *)
Reading(a) ==
  /\ a.pc \in {"args", "load"} => a.at = 1 /\ ~a.result /\ a.short = {}
  /\ a.pc = "read" =>
       /\ a.at \in 1..Len(a.file) + 1
       /\ \/ a.at = Len(a.file) + 1 /\ ~a.result
          \/ /\ ConfigSays(a.config, a.file, a.at - 1, a.short)
             /\ a.result <=> \E i \in 1..a.at - 1 : a.file[i].key # "comment"
  /\ a.pc \in {"log", "daemon", "mode", "server", "client"} =>
       /\ ConfigSays(a.config, a.file, Len(a.file), a.short)
       /\ \E i \in 1..Len(a.file) : a.file[i].key # "comment"

(* The log is untouched until it is set up, and then as it was told.        *)
LogSaid(c, l) ==
  /\ l.level = c.log_level
  /\ c.log_dst = "file" => l.fds[l.fd] = "log"
  /\ c.log_dst = "console" => l.fd = STDOUT_FILENO

Logging(a, l) ==
  /\ a.pc \in {"args", "load", "read", "log"} => l = ElogStart
  /\ a.pc \in {"daemon", "mode", "server", "client"} => LogSaid(a.config, l)

Foreground(a, s) == ~a.session /\ \A d \in 0..2 : s[d] = "tty"

Background(a, s) == a.session /\ \A d \in 0..2 : s[d] = "null"

Streams(a, s) ==
  /\ a.pc \in {"args", "load", "read", "log", "daemon"} => Foreground(a, s)
  /\ a.pc \in {"mode", "server", "client"} =>
       /\ a.config.daemon => Background(a, s)
       /\ ~a.config.daemon => Foreground(a, s)

AgentShape(a) ==
  /\ a = [pc |-> a.pc, file |-> a.file, at |-> a.at, result |-> a.result,
          config |-> a.config, ip |-> a.ip, status |-> a.status, session |-> a.session, short |-> a.short]
  /\ a.file \in Files /\ a.ip \in HostIps

AgentInv ==
  AgentShape(agent) /\ Reading(agent) /\ Logging(agent, lg) /\ Streams(agent, std)

LEMMA AgentInvSays == AgentInv => ConfigIsFile
<1> SUFFICES ASSUME AgentInv, Loaded
             PROVE  LET f == agent.file
                        c == agent.config
                    IN /\ \A i \in 1..Len(f) : f[i].key = "comment" \/ (Takes(f[i]) /\ ~Unsplit(f[i]))
                       /\ \E i \in 1..Len(f) : f[i].key # "comment"
                       /\ \A i \in 1..Len(f) : IsLast(f, Len(f), i) => Agrees(c, f[i], agent.short)
                       /\ \A field \in DOMAIN NewConfig :
                            (\A i \in 1..Len(f) : f[i].key # SetBy(field)) => c[field] = NewConfig[field]
  BY DEF ConfigIsFile
<1>1. /\ ConfigSays(agent.config, agent.file, Len(agent.file), agent.short)
      /\ \E i \in 1..Len(agent.file) : agent.file[i].key # "comment"
  BY DEF AgentInv, Reading, Loaded
<1>2. QED
  BY <1>1, FieldsAre DEF ConfigSays

LEMMA AgentInvStarts == AgentInv => StartsAsConfigured
BY DEF AgentInv, StartsAsConfigured, Logging, LogSaid, Streams, Foreground, Background

LEMMA AgentInitInv == AgentInit => AgentInv
<1> SUFFICES ASSUME AgentInit
             PROVE  AgentInv
  OBVIOUS
<1>1. PICK f \in Files, ip \in HostIps :
        agent = [pc |-> "args", file |-> f, at |-> 1, result |-> FALSE,
                 config |-> Unset, ip |-> ip, status |-> 0, session |-> FALSE, short |-> {}]
  BY DEF AgentInit
<1>2. lg = ElogStart /\ \A d \in 0..2 : std[d] = "tty"
  BY DEF AgentInit, ElogInit
<1>3. AgentShape(agent) /\ Reading(agent)
  BY <1>1 DEF AgentShape, Reading
<1>4. Logging(agent, lg) /\ Streams(agent, std)
  BY <1>1, <1>2 DEF Logging, Streams, Foreground
<1>5. QED
  BY <1>3, <1>4 DEF AgentInv

(* A process that has ended says nothing. *)
LEMMA DoneInv ==
  ASSUME NEW a, AgentShape(a), a.pc = "done"
  PROVE  Reading(a) /\ (\A l : Logging(a, l)) /\ \A s : Streams(a, s)
BY DEF Reading, Logging, Streams

LEMMA ToIs ==
  ASSUME AgentShape(agent), NEW pc, To(pc)
  PROVE  /\ AgentShape(agent') /\ agent'.pc = pc
         /\ agent'.file = agent.file /\ agent'.at = agent.at /\ agent'.result = agent.result
         /\ agent'.config = agent.config /\ agent'.ip = agent.ip
         /\ agent'.session = agent.session /\ agent'.short = agent.short
<1> DEFINE a == agent
           b == agent'
<1>1. a = [pc |-> a.pc, file |-> a.file, at |-> a.at, result |-> a.result,
           config |-> a.config, ip |-> a.ip, status |-> a.status, session |-> a.session, short |-> a.short]
  BY DEF AgentShape
<1>2. b = [a EXCEPT !.pc = pc]
  BY DEF To
<1>3. b = [pc |-> pc, file |-> a.file, at |-> a.at, result |-> a.result,
           config |-> a.config, ip |-> a.ip, status |-> a.status, session |-> a.session, short |-> a.short]
  BY <1>1, <1>2
<1>4. a.file \in Files /\ a.ip \in HostIps
  BY DEF AgentShape
<1> HIDE DEF a, b
<1>5. /\ b.pc = pc /\ b.file = a.file /\ b.at = a.at /\ b.result = a.result
      /\ b.config = a.config /\ b.ip = a.ip /\ b.status = a.status /\ b.session = a.session
      /\ b.short = a.short
  BY <1>3
<1>6. AgentShape(b)
  BY <1>3, <1>4, <1>5 DEF AgentShape
<1>7. QED
  BY <1>5, <1>6 DEF a, b

LEMMA ExitIs ==
  ASSUME AgentShape(agent), NEW n, ExitWith(n)
  PROVE  AgentShape(agent') /\ agent'.pc = "done"
<1> DEFINE a == agent
           b == agent'
           m == [a EXCEPT !.pc = "done"]
<1>1. a = [pc |-> a.pc, file |-> a.file, at |-> a.at, result |-> a.result,
           config |-> a.config, ip |-> a.ip, status |-> a.status, session |-> a.session, short |-> a.short]
  BY DEF AgentShape
<1>2. m = [pc |-> "done", file |-> a.file, at |-> a.at, result |-> a.result,
           config |-> a.config, ip |-> a.ip, status |-> a.status, session |-> a.session, short |-> a.short]
  BY <1>1
<1>3. b = [m EXCEPT !.status = n]
  BY <1>1 DEF ExitWith
<1>4. a.file \in Files /\ a.ip \in HostIps
  BY DEF AgentShape
<1> HIDE DEF a, b, m
<1>5. b = [pc |-> "done", file |-> a.file, at |-> a.at, result |-> a.result,
           config |-> a.config, ip |-> a.ip, status |-> n, session |-> a.session, short |-> a.short]
  BY <1>2, <1>3
<1>6. b.pc = "done" /\ AgentShape(b)
  BY <1>4, <1>5 DEF AgentShape
<1>7. QED
  BY <1>6 DEF b

LEMMA ExitStep ==
  ASSUME AgentInv, NEW n, ExitWith(n)
  PROVE  AgentInv'
<1>1. AgentShape(agent') /\ agent'.pc = "done"
  BY ExitIs DEF AgentInv
<1>2. QED
  BY <1>1, DoneInv DEF AgentInv

LEMMA ParseArgsStep == AgentInv /\ ParseArgs => AgentInv'
<1> SUFFICES ASSUME AgentInv, ParseArgs
             PROVE  AgentInv'
  OBVIOUS
<1>1. agent.pc = "args" /\ UNCHANGED <<std, lg>>
  BY DEF ParseArgs
<1>2. CASE To("load")
  <2>1. /\ AgentShape(agent') /\ agent'.pc = "load" /\ agent'.at = agent.at
        /\ agent'.result = agent.result /\ agent'.session = agent.session
        /\ agent'.short = agent.short
    BY <1>2, ToIs DEF AgentInv
  <2>2. QED
    BY <1>1, <2>1 DEF AgentInv, Reading, Logging, Streams, Foreground
<1>3. CASE ExitWith(0) \/ ExitWith(-1)
  BY <1>1, <1>3, ExitStep
<1>4. QED
  BY <1>2, <1>3 DEF ParseArgs

LEMMA LoadConfigStep == AgentInv /\ LoadConfig => AgentInv'
<1> SUFFICES ASSUME AgentInv, LoadConfig
             PROVE  AgentInv'
  OBVIOUS
<1>1. agent.pc = "load" /\ UNCHANGED <<std, lg>>
  BY DEF LoadConfig
<1>2. CASE agent' = [agent EXCEPT !.pc = "read", !.config = NewConfig]
  <2> DEFINE a == agent
             b == [a EXCEPT !.pc = "read", !.config = NewConfig]
  <2>1. AgentShape(a) /\ a.at = 1 /\ ~a.result /\ a.short = {} /\ Foreground(a, std) /\ lg = ElogStart
    BY <1>1 DEF AgentInv, Reading, Logging, Streams
  <2>2. b = [pc |-> "read", file |-> a.file, at |-> a.at, result |-> a.result,
             config |-> NewConfig, ip |-> a.ip, status |-> a.status, session |-> a.session, short |-> a.short]
    <3> DEFINE m == [a EXCEPT !.pc = "read"]
    <3>1. m = [pc |-> "read", file |-> a.file, at |-> a.at, result |-> a.result,
               config |-> a.config, ip |-> a.ip, status |-> a.status, session |-> a.session, short |-> a.short]
      BY <2>1 DEF AgentShape
    <3>2. b = [m EXCEPT !.config = NewConfig]
      BY <2>1 DEF AgentShape
    <3> HIDE DEF m, b
    <3>3. QED
      BY <3>1, <3>2
  <2> HIDE DEF b
  <2>3. AgentShape(b) /\ Logging(b, lg) /\ Streams(b, std)
    BY <2>1, <2>2 DEF AgentShape, Logging, Streams, Foreground
  <2>4. Reading(b)
    <3>1. ConfigSays(NewConfig, b.file, b.at - 1, b.short) /\ 1..b.at - 1 = {}
      BY <2>1, <2>2, NothingRead
    <3>2. b.at \in 1..Len(b.file) + 1
      BY <2>1, <2>2, LinesOK DEF AgentShape
    <3>3. b.pc = "read" /\ b.config = NewConfig /\ ~b.result
      BY <2>1, <2>2
    <3>4. QED
      BY <3>1, <3>2, <3>3 DEF Reading
  <2>5. QED
    BY <1>1, <1>2, <2>3, <2>4 DEF AgentInv, b
<1>3. CASE ExitWith(-1)
  BY <1>1, <1>3, ExitStep
<1>4. QED
  BY <1>2, <1>3 DEF LoadConfig

LEMMA ReadLineStep == AgentInv /\ ReadLine => AgentInv'
<1> SUFFICES ASSUME AgentInv, ReadLine
             PROVE  AgentInv'
  OBVIOUS
<1> DEFINE a == agent
           b == agent'
           f == agent.file
           n == agent.at
           line == f[n]
           commented == line.key = "comment" /\ b = [a EXCEPT !.at = n + 1]
           refused == b = [a EXCEPT !.at = Len(f) + 1, !.result = FALSE]
           taken(fails) == b = [a EXCEPT !.at = n + 1, !.result = TRUE,
                                         !.config = ConfigItem(a.config, line, fails),
                                         !.short = a.short \cup fails]
<1>1. /\ a.pc = "read" /\ n <= Len(f) /\ UNCHANGED <<std, lg>>
      /\ \/ commented \/ refused \/ ExitWith(139)
         \/ /\ line.key # "comment" /\ Takes(line) /\ ~Unsplit(line)
            /\ \E fails \in Failing : taken(fails)
  BY DEF ReadLine, AgentInv, AgentShape, Takes
<1>2. AgentShape(a) /\ Reading(a) /\ Foreground(a, std) /\ lg = ElogStart /\ f \in Files
  BY <1>1 DEF AgentInv, Logging, Streams, AgentShape
<1>3. Len(f) \in Nat /\ n \in 1..Len(f) + 1 /\ n \in 1..Len(f) /\ LineOK(line)
  <2>1. f \in Files /\ n \in 1..Len(f) + 1 /\ n <= Len(f)
    BY <1>1, <1>2 DEF Reading
  <2> HIDE DEF f, n
  <2>2. Len(f) \in Nat
    BY <2>1, LinesOK
  <2>3. n \in 1..Len(f)
    BY <2>1, <2>2
  <2>4. QED
    BY <2>1, <2>2, <2>3, LinesOK
<1>4. /\ ConfigSays(a.config, f, n - 1, a.short)
      /\ a.result <=> \E i \in 1..n - 1 : f[i].key # "comment"
  <2>1. \/ n = Len(f) + 1 /\ ~a.result
        \/ /\ ConfigSays(a.config, f, n - 1, a.short)
           /\ a.result <=> \E i \in 1..n - 1 : f[i].key # "comment"
    BY <1>1, <1>2 DEF Reading
  <2>2. n # Len(f) + 1
    <3> HIDE DEF n
    <3>1. QED
      BY <1>3
  <2>3. QED
    BY <2>1, <2>2
<1>5. ASSUME NEW at, NEW result, NEW config, NEW short,
             b = [pc |-> "read", file |-> f, at |-> at, result |-> result,
                  config |-> config, ip |-> a.ip, status |-> a.status, session |-> a.session, short |-> short],
             Reading(b)
      PROVE  AgentInv'
  <2>1. AgentShape(b)
    BY <1>2, <1>5 DEF AgentShape
  <2>2. Logging(b, lg) /\ Streams(b, std)
    BY <1>2, <1>5 DEF Logging, Streams, Foreground
  <2>3. QED
    BY <1>1, <1>5, <2>1, <2>2 DEF AgentInv
<1>6. a = [pc |-> "read", file |-> f, at |-> n, result |-> a.result,
           config |-> a.config, ip |-> a.ip, status |-> a.status, session |-> a.session, short |-> a.short]
  BY <1>1, <1>2 DEF AgentShape
<1>7. n + 1 \in 1..Len(f) + 1 /\ (n + 1) - 1 = n /\ 1..n = (1..n - 1) \cup {n} /\ n \in Nat \ {0}
  BY <1>3
<1>8. CASE ExitWith(139)
  BY <1>8, ExitStep
<1> HIDE DEF a, f, n, line
<1>9. CASE commented
  <2>1. b = [pc |-> "read", file |-> f, at |-> n + 1, result |-> a.result,
             config |-> a.config, ip |-> a.ip, status |-> a.status, session |-> a.session, short |-> a.short]
    BY <1>6, <1>9
  <2>2. ConfigSays(a.config, f, n, a.short)
    BY <1>4, <1>7, <1>9, CommentRead DEF line
  <2>3. a.result <=> \E i \in 1..n : f[i].key # "comment"
    BY <1>4, <1>7, <1>9 DEF line
  <2>4. Reading(b)
    <3>1. /\ b.pc = "read" /\ b.at = n + 1 /\ b.file = f /\ b.config = a.config
          /\ b.result = a.result /\ b.short = a.short
      BY <2>1
    <3>2. QED
      BY <1>7, <2>2, <2>3, <3>1 DEF Reading
  <2>5. QED
    BY <1>5, <2>1, <2>4
<1>10. ASSUME line.key # "comment", Takes(line), ~Unsplit(line), NEW fails \in Failing, taken(fails)
       PROVE  AgentInv'
  <2> DEFINE c == ConfigItem(a.config, line, fails)
             short == a.short \cup fails
  <2>1. ConfigSays(c, f, n, short)
    BY <1>3, <1>4, <1>7, <1>10, LineRead DEF line
  <2>2. b = [a EXCEPT !.at = n + 1, !.result = TRUE, !.config = c, !.short = short]
    BY <1>10
  <2> HIDE DEF c, short
  <2>3. b = [pc |-> "read", file |-> f, at |-> n + 1, result |-> TRUE,
             config |-> c, ip |-> a.ip, status |-> a.status, session |-> a.session, short |-> short]
    <3> DEFINE yes == TRUE
               m == [a EXCEPT !.at = n + 1]
               r == [m EXCEPT !.config = c]
               q == [r EXCEPT !.result = yes]
    <3>1. m = [pc |-> "read", file |-> f, at |-> n + 1, result |-> a.result,
               config |-> a.config, ip |-> a.ip, status |-> a.status, session |-> a.session, short |-> a.short]
      BY <1>6
    <3>2. b = [q EXCEPT !.short = short]
      BY <1>6, <2>2
    <3> HIDE DEF m, yes
    <3>3. r = [pc |-> "read", file |-> f, at |-> n + 1, result |-> a.result,
               config |-> c, ip |-> a.ip, status |-> a.status, session |-> a.session, short |-> a.short]
      BY <3>1
    <3> HIDE DEF r
    <3>4. q = [pc |-> "read", file |-> f, at |-> n + 1, result |-> yes,
               config |-> c, ip |-> a.ip, status |-> a.status, session |-> a.session, short |-> a.short]
      BY <3>3
    <3> HIDE DEF q
    <3>5. b = [pc |-> "read", file |-> f, at |-> n + 1, result |-> yes,
               config |-> c, ip |-> a.ip, status |-> a.status, session |-> a.session, short |-> short]
      BY <3>2, <3>4
    <3>6. QED
      BY <3>5 DEF yes
  <2>4. \E i \in 1..n : f[i].key # "comment"
    BY <1>7, <1>10 DEF line
  <2>5. Reading(b)
    <3>1. /\ b.pc = "read" /\ b.at = n + 1 /\ b.file = f /\ b.config = c /\ b.result = TRUE
          /\ b.short = short
      BY <2>3
    <3>2. QED
      BY <1>7, <2>1, <2>4, <3>1 DEF Reading
  <2>6. QED
    BY <1>5, <2>3, <2>5
<1>11. CASE refused
  <2>1. b = [pc |-> "read", file |-> f, at |-> Len(f) + 1, result |-> FALSE,
             config |-> a.config, ip |-> a.ip, status |-> a.status, session |-> a.session, short |-> a.short]
    <3> DEFINE m == [a EXCEPT !.at = Len(f) + 1]
    <3>1. b = [a EXCEPT !.at = Len(f) + 1, !.result = FALSE]
      BY <1>11
    <3>2. m = [pc |-> "read", file |-> f, at |-> Len(f) + 1, result |-> a.result,
               config |-> a.config, ip |-> a.ip, status |-> a.status, session |-> a.session, short |-> a.short]
      BY <1>6
    <3>3. b = [m EXCEPT !.result = FALSE]
      BY <1>6, <3>1
    <3> HIDE DEF m
    <3>4. QED
      BY <3>2, <3>3
  <2>2. Reading(b)
    <3>1. b.pc = "read" /\ b.at = Len(f) + 1 /\ b.file = f /\ b.result = FALSE
      BY <2>1
    <3>2. Len(f) + 1 \in 1..Len(f) + 1
      BY <1>3
    <3>3. QED
      BY <3>1, <3>2 DEF Reading
  <2>3. QED
    BY <1>5, <2>1, <2>2
<1>12. QED
  BY <1>1, <1>8, <1>9, <1>10, <1>11

LEMMA ReadEndStep == AgentInv /\ ReadEnd => AgentInv'
<1> SUFFICES ASSUME AgentInv, ReadEnd
             PROVE  AgentInv'
  OBVIOUS
<1> DEFINE a == agent
<1>1. AgentShape(a) /\ a.pc = "read" /\ a.at > Len(a.file) /\ UNCHANGED <<std, lg>>
  BY DEF ReadEnd, AgentInv
<1>2. Len(a.file) \in Nat /\ a.at \in 1..Len(a.file) + 1
  BY <1>1, LinesOK DEF AgentInv, Reading, AgentShape
<1>3. a.at - 1 = Len(a.file)
  BY <1>1, <1>2
<1>4. CASE a.result
  <2>1. To("log")
    BY <1>4 DEF ReadEnd
  <2>2. /\ ConfigSays(a.config, a.file, Len(a.file), a.short)
        /\ \E i \in 1..Len(a.file) : a.file[i].key # "comment"
    BY <1>1, <1>3, <1>4 DEF AgentInv, Reading
  <2>3. /\ AgentShape(agent') /\ agent'.pc = "log" /\ agent'.file = a.file
        /\ agent'.config = a.config /\ agent'.session = a.session /\ agent'.short = a.short
    BY <1>1, <2>1, ToIs
  <2>4. Reading(agent')
    BY <2>2, <2>3 DEF Reading
  <2>5. Logging(agent', lg) /\ Streams(agent', std)
    BY <1>1, <2>3 DEF AgentInv, Logging, Streams, Foreground
  <2>6. QED
    BY <1>1, <2>3, <2>4, <2>5 DEF AgentInv
<1>5. CASE ~a.result
  <2>1. agent' = [a EXCEPT !.pc = "done", !.status = -1, !.config = Unset]
    BY <1>5 DEF ReadEnd
  <2>2. agent' = [pc |-> "done", file |-> a.file, at |-> a.at, result |-> a.result,
                  config |-> Unset, ip |-> a.ip, status |-> -1, session |-> a.session, short |-> a.short]
    BY <1>1, <2>1 DEF AgentShape
  <2>3. AgentShape(agent') /\ agent'.pc = "done"
    BY <1>1, <2>2 DEF AgentShape
  <2>4. QED
    BY <2>3, DoneInv DEF AgentInv
<1>6. QED
  BY <1>4, <1>5

(* The descriptors of the start: the log gets the lowest free one.          *)
LEMMA LogOpens ==
  FreeFd(ElogStart.fds) # {} /\ ElogStart.fds \in [0..MaxFd -> Owners]
  /\ \A d \in 0..MaxFd : ElogStart.fds[d] = "std" <=> d <= 2
<1> DEFINE start == [d \in 0..MaxFd |-> IF d <= 2 THEN "std" ELSE "free"]
<1>1. ElogStart.fds = start
  BY DEF ElogStart
<1>2. 3 \in 0..MaxFd /\ ~(3 <= 2)
  BY ElogAssumption
<1>3. start \in [0..MaxFd -> Owners]
  BY DEF Owners
<1>4. \A d \in 0..MaxFd : start[d] = "std" <=> d <= 2
  OBVIOUS
<1>5. start[3] = "free" /\ 3 \in DOMAIN start
  BY <1>2
<1> HIDE DEF start
<1>6. QED
  BY <1>1, <1>3, <1>4, <1>5 DEF FreeFd

(* log_set_level() and log_set_file() on the log of the start. *)
LEMMA LogIsSet ==
  ASSUME NEW n
  PROVE  LET l == LogSetLevel(ElogStart, n)
         IN /\ l.level = n /\ l.fd = STDOUT_FILENO
            /\ LogSetFile(l, TRUE).level = n
            /\ LogSetFile(l, TRUE).fds[LogSetFile(l, TRUE).fd] = "log"
<1> DEFINE s == ElogStart
           l == LogSetLevel(s, n)
           m == Min(FreeFd(s.fds))
           u == [l EXCEPT !.fds = Opened(s.fds, "log")]
           w == [u EXCEPT !.fd = m]
           r == [w EXCEPT !.dst = "file"]
<1>1. /\ s.level = 1 /\ s.fd = STDOUT_FILENO
      /\ DOMAIN s = {"level", "fd", "dst", "sock", "facility", "fds", "lost"}
  BY DEF ElogStart, LOG_LEVEL_INFO
<1> HIDE DEF s
<1>2. l = [s EXCEPT !.level = n]
  BY <1>1 DEF LogSetLevel, LOG_LEVEL_DEBUG, LOG_LEVEL_ERROR
<1>4. l.level = n /\ l.fd = STDOUT_FILENO /\ l.fds = s.fds /\ DOMAIN l = DOMAIN s
  BY <1>1, <1>2
<1> HIDE DEF l
<1>5. LogSetFile(l, TRUE) = r
  BY <1>1, <1>4 DEF LogSetFile
<1>6. u.level = n /\ u.fds = Opened(s.fds, "log") /\ DOMAIN u = DOMAIN s
  BY <1>1, <1>4
<1> HIDE DEF u, m
<1>7. w.level = n /\ w.fds = Opened(s.fds, "log") /\ w.fd = m /\ DOMAIN w = DOMAIN s
  BY <1>1, <1>6
<1> HIDE DEF w
<1>8. r.level = n /\ r.fds = Opened(s.fds, "log") /\ r.fd = m
  BY <1>1, <1>7
<1> HIDE DEF r
<1>9. Opened(s.fds, "log")[m] = "log"
  <2>1. s.fds \in [0..MaxFd -> Owners] /\ m \in 0..MaxFd
    BY LogOpens, LowestFree, ElogAssumption DEF s, m
  <2>2. QED
    BY <2>1 DEF Opened, m
<1>10. QED
  BY <1>4, <1>5, <1>8, <1>9 DEF l, s

LEMMA SetLogStep == AgentInv /\ SetLog => AgentInv'
<1> SUFFICES ASSUME AgentInv, SetLog
             PROVE  AgentInv'
  OBVIOUS
<1> DEFINE a == agent
           c == agent.config
           l == LogSetLevel(lg, c.log_level)
<1>1. AgentShape(a) /\ a.pc = "log" /\ std' = std
  BY DEF SetLog, AgentInv
<1>2. lg = ElogStart /\ Foreground(a, std)
  BY <1>1 DEF AgentInv, Logging, Streams
<1>3. PICK ok \in BOOLEAN :
        IF c.log_dst = "file"
        THEN lg' = LogSetFile(l, ok) /\ IF ok THEN To("daemon") ELSE ExitWith(-1)
        ELSE lg' = l /\ To("daemon")
  BY DEF SetLog
<1>4. CASE c.log_dst = "file" /\ ~ok
  BY <1>3, <1>4, ExitStep
<1>5. CASE c.log_dst # "file" \/ ok
  <2>1. To("daemon")
    BY <1>3, <1>5
  <2>2. /\ AgentShape(agent') /\ agent'.pc = "daemon" /\ agent'.file = a.file
        /\ agent'.config = c /\ agent'.session = a.session /\ agent'.short = a.short
    BY <1>1, <2>1, ToIs
  <2>3. Reading(agent') /\ Streams(agent', std')
    BY <1>1, <1>2, <2>2 DEF AgentInv, Reading, Streams, Foreground
  <2>4. LogSaid(c, lg')
    <3>1. CASE c.log_dst = "file"
      <4>1. lg' = LogSetFile(l, TRUE)
        BY <1>3, <1>5, <3>1
      <4>2. LogSetFile(l, TRUE).level = c.log_level
        BY <1>2, LogIsSet
      <4>3. LogSetFile(l, TRUE).fds[LogSetFile(l, TRUE).fd] = "log"
        BY <1>2, LogIsSet
      <4> HIDE DEF l
      <4>4. QED
        BY <3>1, <4>1, <4>2, <4>3 DEF LogSaid
    <3>2. CASE c.log_dst # "file"
      <4>1. lg' = l
        BY <1>3, <3>2
      <4>2. l.level = c.log_level /\ l.fd = STDOUT_FILENO
        BY <1>2, LogIsSet
      <4> HIDE DEF l
      <4>3. QED
        BY <3>2, <4>1, <4>2 DEF LogSaid
    <3>3. QED
      BY <3>1, <3>2
  <2>5. Logging(agent', lg')
    BY <2>2, <2>4 DEF Logging
  <2>6. QED
    BY <2>2, <2>3, <2>5 DEF AgentInv
<1>6. QED
  BY <1>4, <1>5

LEMMA CreateDaemonStep == AgentInv /\ CreateDaemon => AgentInv'
<1> SUFFICES ASSUME AgentInv, CreateDaemon
             PROVE  AgentInv'
  OBVIOUS
<1> DEFINE a == agent
           b == agent'
<1>1. AgentShape(a) /\ a.pc = "daemon" /\ a.config.daemon /\ lg' = lg
  BY DEF CreateDaemon, AgentInv
<1>2. PICK n \in 0..6 :
        /\ std' = [d \in 0..2 |-> IF n >= d + 4 THEN "null" ELSE "tty"]
        /\ b = [a EXCEPT !.session = n >= 2, !.status = IF n < 6 THEN -1 ELSE 0,
                         !.pc = IF n < 6 THEN "done" ELSE "mode"]
  BY DEF CreateDaemon
<1> DEFINE session == n >= 2
           status == IF n < 6 THEN -1 ELSE 0
           pc == IF n < 6 THEN "done" ELSE "mode"
           m == [a EXCEPT !.session = session]
           r == [m EXCEPT !.status = status]
<1>3. a = [pc |-> a.pc, file |-> a.file, at |-> a.at, result |-> a.result,
           config |-> a.config, ip |-> a.ip, status |-> a.status, session |-> a.session, short |-> a.short]
  BY <1>1 DEF AgentShape
<1>4. b = [r EXCEPT !.pc = pc]
  BY <1>2, <1>3
<1> HIDE DEF session, status, pc, b
<1>5. m = [pc |-> a.pc, file |-> a.file, at |-> a.at, result |-> a.result,
           config |-> a.config, ip |-> a.ip, status |-> a.status, session |-> session, short |-> a.short]
  BY <1>3
<1> HIDE DEF m
<1>6. r = [pc |-> a.pc, file |-> a.file, at |-> a.at, result |-> a.result,
           config |-> a.config, ip |-> a.ip, status |-> status, session |-> session, short |-> a.short]
  BY <1>5
<1> HIDE DEF r
<1>7. b = [pc |-> pc, file |-> a.file, at |-> a.at, result |-> a.result,
           config |-> a.config, ip |-> a.ip, status |-> status, session |-> session, short |-> a.short]
  BY <1>4, <1>6
<1>8. /\ b.pc = pc /\ b.file = a.file /\ b.config = a.config /\ b.ip = a.ip
      /\ b.session = session /\ b.short = a.short
  BY <1>7
<1>9. AgentShape(b)
  BY <1>1, <1>7 DEF AgentShape
<1>10. CASE n < 6
  <2>1. b.pc = "done"
    BY <1>8, <1>10 DEF pc
  <2>2. QED
    BY <1>9, <2>1, DoneInv DEF AgentInv, b
<1>11. CASE n = 6
  <2>1. b.pc = "mode" /\ b.session
    <3>1. pc = "mode" /\ session = TRUE
      BY <1>11 DEF pc, session
    <3>2. QED
      BY <1>8, <3>1
  <2>2. \A d \in 0..2 : std'[d] = "null"
    BY <1>2, <1>11
  <2>3. Reading(b) /\ Logging(b, lg')
    BY <1>1, <1>8, <2>1 DEF AgentInv, Reading, Logging
  <2>4. Streams(b, std')
    BY <1>1, <1>8, <2>1, <2>2 DEF Streams, Background
  <2>5. QED
    BY <1>9, <2>3, <2>4 DEF AgentInv, b
<1>12. QED
  BY <1>10, <1>11

LEMMA StayForegroundStep == AgentInv /\ StayForeground => AgentInv'
<1> SUFFICES ASSUME AgentInv, StayForeground
             PROVE  AgentInv'
  OBVIOUS
<1>1. /\ AgentShape(agent) /\ agent.pc = "daemon" /\ ~agent.config.daemon
      /\ To("mode") /\ UNCHANGED <<std, lg>>
  BY DEF StayForeground, AgentInv
<1>2. /\ AgentShape(agent') /\ agent'.pc = "mode" /\ agent'.file = agent.file
      /\ agent'.config = agent.config /\ agent'.session = agent.session
      /\ agent'.short = agent.short
  BY <1>1, ToIs
<1>3. Reading(agent') /\ Logging(agent', lg')
  BY <1>1, <1>2 DEF AgentInv, Reading, Logging
<1>4. Streams(agent', std')
  BY <1>1, <1>2 DEF AgentInv, Streams, Foreground
<1>5. QED
  BY <1>2, <1>3, <1>4 DEF AgentInv

LEMMA ChooseModeStep == AgentInv /\ ChooseMode => AgentInv'
<1> SUFFICES ASSUME AgentInv, ChooseMode
             PROVE  AgentInv'
  OBVIOUS
<1>1. AgentShape(agent) /\ agent.pc = "mode" /\ UNCHANGED <<std, lg>>
  BY DEF ChooseMode, AgentInv
<1>2. CASE ExitWith(134) \/ ExitWith(0)
  BY <1>2, ExitStep
<1>3. ASSUME NEW pc \in {"server", "client"}, To(pc)
      PROVE  AgentInv'
  <2>1. /\ AgentShape(agent') /\ agent'.pc = pc /\ agent'.file = agent.file
        /\ agent'.config = agent.config /\ agent'.session = agent.session
        /\ agent'.short = agent.short
    BY <1>1, <1>3, ToIs
  <2>2. Reading(agent') /\ Logging(agent', lg') /\ Streams(agent', std')
    BY <1>1, <2>1 DEF AgentInv, Reading, Logging, Streams, Foreground, Background
  <2>3. QED
    BY <2>1, <2>2 DEF AgentInv
<1>4. QED
  BY <1>2, <1>3 DEF ChooseMode

LEMMA AgentStutter == AgentInv /\ UNCHANGED agentVars => AgentInv'
BY DEF AgentInv, agentVars

(* The invariant of the start holds for every set of files, names, hashes   *)
(* and addresses, and any number of rows and descriptors.                   *)
THEOREM AgentInvariance == AgentSpec => []AgentInv
<1>1. AgentInv /\ [AgentNext]_agentVars => AgentInv'
  <2> SUFFICES ASSUME AgentInv, [AgentNext]_agentVars
               PROVE  AgentInv'
    OBVIOUS
  <2>1. CASE RunClient
    BY <2>1, ExitStep DEF RunClient
  <2>2. QED
    BY <2>1, ParseArgsStep, LoadConfigStep, ReadLineStep, ReadEndStep, SetLogStep,
       CreateDaemonStep, StayForegroundStep, ChooseModeStep, AgentStutter DEF AgentNext
<1>2. QED
  BY <1>1, AgentInitInv, PTL DEF AgentSpec

(* sync_config.c, eproperty.c: a configuration in use says what its file    *)
(* says: of every key the last line that says something, the elements of    *)
(* the lists as sets but for those whose addition found no memory, for a    *)
(* host the paths of all its entries, nothing for a key without a line; no  *)
(* line of it was refused and no entry of subscribe_path was without ':'.   *)
THEOREM ConfigIsFileHolds == AgentSpec => []ConfigIsFile
BY AgentInvariance, AgentInvSays, PTL

(* sync_agent.c: when the process takes its side, the log and the streams   *)
(* are those of its configuration.                                          *)
THEOREM StartsAsConfiguredHolds == AgentSpec => []StartsAsConfigured
BY AgentInvariance, AgentInvStarts, PTL
=============================================================================
