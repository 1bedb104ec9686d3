---------------------------- MODULE EQueueProofs ----------------------------
(***************************************************************************)
(* Proofs about EQueue, for any threads, data, initial size and bound on   *)
(* the growth: type correctness, and that the ring buffer implements the   *)
(* FIFO queue of Fifo until memory runs out.  QueueInv adds to the types   *)
(* who may be in the middle of a push, what a push that grows the buffer   *)
(* leaves of the fields, and that the slots in use hold data.              *)
(***************************************************************************)
EXTENDS EQueue, TLAPS

(* Whoever is in the middle of a push holds the lock. *)
LockOK ==
  /\ \A t \in Threads : pc[t] # "idle" <=> lock = t
  /\ \A t \in Threads : pc[t] # "idle" => ~lost /\ arg[t] \in Data

(* A buffer that grows was full and has doubled its size. *)
GrowOK == Growing =>
  /\ size = 2 * orgSize
  /\ front < orgSize /\ rear < orgSize
  /\ front = IF rear + 1 = orgSize THEN 0 ELSE rear + 1

(* There is room for the element of a push that stores. *)
RoomOK == \A t \in Threads : pc[t] = "store" => ~Full

HeldOK == ~lost => \A i \in 1..Count : q[Slot(i)] \in Data

QueueInv == TypeOK /\ LockOK /\ GrowOK /\ RoomOK /\ HeldOK

-----------------------------------------------------------------------------
(* Ring arithmetic, and sequences given by their elements.                  *)

LEMMA NextSlot ==
  ASSUME NEW n \in Nat, NEW a \in 0..n-1
  PROVE  (a + 1) % n = IF a + 1 = n THEN 0 ELSE a + 1
OBVIOUS

LEMMA FunSeq ==
  ASSUME NEW S, NEW n \in Nat, NEW f \in [1..n -> S]
  PROVE  f \in Seq(S) /\ Len(f) = n /\ DOMAIN f = 1..n
OBVIOUS

LEMMA AppendIs ==
  ASSUME NEW S, NEW n \in Nat, NEW f \in [1..n -> S], NEW d \in S, NEW g \in [1..n+1 -> S],
         \A i \in 1..n : g[i] = f[i], g[n+1] = d
  PROVE  g = Append(f, d)
BY FunSeq

LEMMA TailIs ==
  ASSUME NEW S, NEW n \in Nat, NEW f \in [1..n+1 -> S], NEW g \in [1..n -> S],
         \A i \in 1..n : g[i] = f[i+1]
  PROVE  g = Tail(f) /\ Head(f) = f[1] /\ f # <<>>
BY FunSeq

-----------------------------------------------------------------------------
(* The fields as integers. *)
LEMMA FieldFacts ==
  ASSUME QueueInv
  PROVE  /\ size \in Nat /\ size >= 2 /\ orgSize \in Nat /\ orgSize >= 2
         /\ front \in Nat /\ rear \in Nat /\ front < size /\ rear < size
         /\ Span \in Nat /\ front < Span /\ rear < Span
         /\ Count \in 0..Span-1
         /\ \A i \in 1..Count : Slot(i) \in 0..Span-1
         /\ front = rear <=> Count = 0
<1>1. /\ size \in Nat /\ size >= 2 /\ orgSize \in Nat /\ orgSize >= 2
      /\ front \in Nat /\ rear \in Nat /\ front < size /\ rear < size
  BY DEF QueueInv, TypeOK
<1>2. Span \in Nat /\ front < Span /\ rear < Span
  BY <1>1 DEF QueueInv, GrowOK, Span
<1> HIDE DEF Span
<1>3. Count \in 0..Span-1 /\ (front = rear <=> Count = 0)
  BY <1>1, <1>2 DEF Count
<1>4. \A i \in 1..Count : Slot(i) \in 0..Span-1
  BY <1>1, <1>2, <1>3 DEF Slot
<1> QED BY <1>1, <1>2, <1>3, <1>4

LEMMA ItemsFacts ==
  ASSUME QueueInv, ~lost
  PROVE  /\ Items \in [1..Count -> Data]
         /\ \A i \in 1..Count : Items[i] = q[Slot(i)]
         /\ Count = 0 => Items = <<>>
<1>1. \A i \in 1..Count : q[Slot(i)] \in Data
  BY DEF QueueInv, HeldOK
<1>2. Items \in [1..Count -> Data] /\ \A i \in 1..Count : Items[i] = q[Slot(i)]
  BY <1>1 DEF Items
<1>3. Count = 0 => Items = <<>>
  BY <1>2
<1> QED BY <1>2, <1>3

LEMMA NotGrowing ==
  ASSUME QueueInv, lock = Null
  PROVE  \A t \in Threads : pc[t] = "idle"
BY NullAssumption DEF QueueInv, LockOK

(* A thread in its push is the only one. *)
LEMMA Alone ==
  ASSUME QueueInv, NEW t \in Threads, pc[t] # "idle"
  PROVE  /\ lock = t /\ ~lost /\ arg[t] \in Data
         /\ \A u \in Threads : u # t => pc[u] = "idle"
         /\ Growing <=> pc[t] \in {"realloc", "move"}
<1>1. lock = t /\ ~lost /\ arg[t] \in Data /\ \A u \in Threads : u # t => pc[u] = "idle"
  BY DEF QueueInv, LockOK
<1>2. Growing <=> pc[t] \in {"realloc", "move"}
  BY <1>1 DEF Growing
<1> QED BY <1>1, <1>2

LEMMA InitQueue ==
  ASSUME Init
  PROVE  QueueInv
<1> USE InitSizeAssumption, NullAssumption DEF Init
<1>1. \A t \in Threads : pc[t] = "idle"
  OBVIOUS
<1>2. ~Growing
  BY <1>1 DEF Growing
<1>3. Slots = InitSize
  BY <1>1 DEF Slots
<1>4. TypeOK
  <2>1. q \in [0..Slots-1 -> Data \cup {Junk}]
    BY <1>3
  <2>2. arg \in [Threads -> Data \cup {Null}] /\ lock \in Threads \cup {Null} /\ lost \in BOOLEAN
    OBVIOUS
  <2>3. ret \in [Threads -> {Null} \cup ({"push"} \X BOOLEAN)
                            \cup ({"pop"} \X (Data \cup {Null}))
                            \cup ({"head"} \X (Data \cup {Junk}))]
    OBVIOUS
  <2>4. pc \in [Threads -> {"idle", "realloc", "move", "store"}]
    OBVIOUS
  <2>5. /\ size \in Nat /\ size >= 2 /\ orgSize \in Nat /\ orgSize >= 2
        /\ front \in 0..size-1 /\ rear \in 0..size-1
    OBVIOUS
  <2> QED BY <2>1, <2>2, <2>3, <2>4, <2>5 DEF TypeOK
<1>5. LockOK /\ GrowOK /\ RoomOK
  BY <1>1, <1>2 DEF LockOK, GrowOK, RoomOK
<1>6. HeldOK
  BY DEF HeldOK, Count
<1> QED BY <1>4, <1>5, <1>6 DEF QueueInv

(* queue_push() up to its realloc() changes nothing that lies in the queue. *)
LEMMA PushStartStep ==
  ASSUME QueueInv, NEW t \in Threads, NEW d \in Data, PushStart(t, d)
  PROVE  QueueInv' /\ Items' = Items /\ lost' = lost /\ ret' = ret
<1>a. /\ lock = Null /\ ~lost /\ lock' = t
      /\ arg' = [arg EXCEPT ![t] = d]
      /\ UNCHANGED <<q, front, rear, lost, ret>>
  BY DEF PushStart, Enter
<1>b. \A u \in Threads : pc[u] = "idle"
  BY <1>a, NotGrowing
<1>c. ~Growing /\ Span = size /\ Slots = size
  BY <1>a, <1>b DEF Growing, Span, Slots
<1>d. pc \in [Threads -> {"idle", "realloc", "move", "store"}] /\ t # Null
  BY NullAssumption DEF QueueInv, TypeOK
<1>1. CASE Full /\ orgSize' = size /\ size' = 2 * size /\ pc' = [pc EXCEPT ![t] = "realloc"]
  <2>1. Growing' /\ Span' = size /\ Slots' = size
    BY <1>1, <1>d DEF Growing, Span, Slots
  <2>2. Count' = Count /\ \A i \in Nat : Slot(i)' = Slot(i)
    BY <2>1, <1>a, <1>c DEF Count, Slot
  <2>3. front = IF rear + 1 = size THEN 0 ELSE rear + 1
    BY <1>1, FieldFacts, NextSlot DEF Full
  <2>4. TypeOK'
    <3>1. size' \in Nat /\ size' >= 2 /\ front' \in 0..size'-1 /\ rear' \in 0..size'-1
      BY <1>a, <1>1, FieldFacts
    <3>2. q' \in [0..Slots'-1 -> Data \cup {Junk}]
      BY <1>a, <1>c, <2>1 DEF QueueInv, TypeOK
    <3> QED BY <3>1, <3>2, <1>a, <1>1 DEF QueueInv, TypeOK
  <2>5. LockOK'
    BY <1>a, <1>b, <1>d, <1>1 DEF QueueInv, TypeOK, LockOK
  <2>6. GrowOK' /\ RoomOK'
    BY <1>a, <1>b, <1>d, <1>1, <2>3, FieldFacts DEF GrowOK, RoomOK
  <2>7. HeldOK' /\ Items' = Items
    BY <1>a, <2>2, FieldFacts DEF QueueInv, HeldOK, Items
  <2> QED BY <1>a, <2>4, <2>5, <2>6, <2>7 DEF QueueInv
<1>2. CASE ~Full /\ pc' = [pc EXCEPT ![t] = "store"] /\ UNCHANGED <<orgSize, size>>
  <2>1. ~Growing' /\ Span' = size /\ Slots' = size
    BY <1>a, <1>b, <1>2, <1>d DEF Growing, Span, Slots
  <2>2. Count' = Count /\ \A i \in Nat : Slot(i)' = Slot(i)
    BY <2>1, <1>a, <1>c DEF Count, Slot
  <2>3. TypeOK'
    <3>1. q' \in [0..Slots'-1 -> Data \cup {Junk}]
      BY <1>a, <1>c, <2>1 DEF QueueInv, TypeOK
    <3> QED BY <3>1, <1>a, <1>2 DEF QueueInv, TypeOK
  <2>4. LockOK'
    BY <1>a, <1>b, <1>d, <1>2 DEF QueueInv, TypeOK, LockOK
  <2>5. GrowOK' /\ RoomOK'
    BY <1>a, <1>b, <1>d, <1>2, <2>1 DEF GrowOK, RoomOK, Full
  <2>6. HeldOK' /\ Items' = Items
    BY <1>a, <2>2, FieldFacts DEF QueueInv, HeldOK, Items
  <2> QED BY <1>a, <2>3, <2>4, <2>5, <2>6 DEF QueueInv
<1> QED BY <1>1, <1>2 DEF PushStart

LEMMA ReallocStep ==
  ASSUME QueueInv, NEW t \in Threads, Realloc(t)
  PROVE  QueueInv' /\ Items' = Items /\ lost' = lost /\ ret' = ret
<1>a. /\ pc[t] = "realloc"
      /\ q' = [i \in 0..size-1 |-> IF i < orgSize THEN q[i] ELSE Junk]
      /\ pc' = [pc EXCEPT ![t] = "move"]
      /\ UNCHANGED <<front, rear, size, lock, arg, orgSize, lost, ret>>
  BY DEF Realloc, fields
<1>b. /\ lock = t /\ ~lost /\ Growing
      /\ \A u \in Threads : u # t => pc[u] = "idle"
  BY <1>a, Alone
<1>c. pc \in [Threads -> {"idle", "realloc", "move", "store"}]
  BY DEF QueueInv, TypeOK
<1>d. /\ Growing' /\ Span = orgSize /\ Span' = orgSize
      /\ Slots = orgSize /\ Slots' = size
  BY <1>a, <1>b, <1>c DEF Growing, Span, Slots
<1>e. Count' = Count /\ \A i \in Nat : Slot(i)' = Slot(i)
  BY <1>a, <1>d DEF Count, Slot
<1>f. size = 2 * orgSize
  BY <1>b DEF QueueInv, GrowOK
<1>g. \A i \in 1..Count : q'[Slot(i)] = q[Slot(i)]
  BY <1>a, <1>d, <1>f, FieldFacts
<1>1. TypeOK'
  <2>1. q \in [0..orgSize-1 -> Data \cup {Junk}]
    BY <1>d DEF QueueInv, TypeOK
  <2>2. q' \in [0..Slots'-1 -> Data \cup {Junk}]
    BY <2>1, <1>a, <1>d, FieldFacts
  <2> QED BY <2>2, <1>a DEF QueueInv, TypeOK
<1>2. LockOK'
  BY <1>a, <1>b, <1>c DEF QueueInv, LockOK
<1>3. GrowOK' /\ RoomOK'
  BY <1>a, <1>b, <1>c, <1>d DEF QueueInv, GrowOK, RoomOK
<1>4. HeldOK' /\ Items' = Items
  <2>1. \A i \in 1..Count : i \in Nat /\ q'[Slot(i)'] = q[Slot(i)]
    BY <1>e, <1>g, FieldFacts
  <2>2. Items' = Items
    BY <2>1, <1>e DEF Items
  <2>3. HeldOK'
    BY <2>1, <1>b, <1>e DEF QueueInv, HeldOK
  <2> QED BY <2>2, <2>3
<1> QED BY <1>a, <1>1, <1>2, <1>3, <1>4 DEF QueueInv

LEMMA ReallocFailureStep ==
  ASSUME QueueInv, NEW t \in Threads, ReallocFailure(t)
  PROVE  QueueInv' /\ lost'
<1>a. /\ pc[t] = "realloc"
      /\ lost' = TRUE /\ lock' = Null
      /\ ret' = [ret EXCEPT ![t] = <<"push", FALSE>>]
      /\ pc' = [pc EXCEPT ![t] = "idle"]
      /\ UNCHANGED <<q, front, rear, size, arg, orgSize>>
  BY DEF ReallocFailure, fields
<1>b. lock = t /\ \A u \in Threads : u # t => pc[u] = "idle"
  BY <1>a, Alone
<1>c. pc \in [Threads -> {"idle", "realloc", "move", "store"}]
  BY DEF QueueInv, TypeOK
<1>d. \A u \in Threads : pc'[u] = "idle"
  BY <1>a, <1>b, <1>c
<1>1. TypeOK'
  <2>1. Slots = orgSize /\ Slots' = orgSize
    BY <1>a DEF Slots
  <2>2. q' \in [0..Slots'-1 -> Data \cup {Junk}]
    BY <2>1, <1>a DEF QueueInv, TypeOK
  <2>3. ret' \in [Threads -> {Null} \cup ({"push"} \X BOOLEAN)
                             \cup ({"pop"} \X (Data \cup {Null}))
                             \cup ({"head"} \X (Data \cup {Junk}))]
    BY <1>a DEF QueueInv, TypeOK
  <2> QED BY <2>2, <2>3, <1>a DEF QueueInv, TypeOK
<1>2. LockOK' /\ GrowOK' /\ RoomOK' /\ HeldOK'
  BY <1>a, <1>d, NullAssumption DEF LockOK, GrowOK, RoomOK, HeldOK, Growing
<1> QED BY <1>a, <1>1, <1>2 DEF QueueInv

(* The wrapped data is moved behind the old end: the queue stays the same.  *)
LEMMA MoveStep ==
  ASSUME QueueInv, NEW t \in Threads, Move(t)
  PROVE  QueueInv' /\ Items' = Items /\ lost' = lost /\ ret' = ret
<1>a. /\ pc[t] = "move"
      /\ pc' = [pc EXCEPT ![t] = "store"]
      /\ UNCHANGED <<front, size, lock, arg, orgSize, lost, ret>>
  BY DEF Move
<1>b. /\ lock = t /\ ~lost /\ Growing
      /\ \A u \in Threads : u # t => pc[u] = "idle"
  BY <1>a, Alone
<1>c. pc \in [Threads -> {"idle", "realloc", "move", "store"}]
  BY DEF QueueInv, TypeOK
<1>d. /\ ~Growing' /\ Span = orgSize /\ Span' = size
      /\ Slots = size /\ Slots' = size
  BY <1>a, <1>b, <1>c DEF Growing, Span, Slots
<1>e. /\ size = 2 * orgSize /\ front < orgSize /\ rear < orgSize
      /\ front = IF rear + 1 = orgSize THEN 0 ELSE rear + 1
  BY <1>b DEF QueueInv, GrowOK
<1>f. q \in [0..size-1 -> Data \cup {Junk}]
  BY <1>d DEF QueueInv, TypeOK
<1>g. /\ q' \in [0..size-1 -> Data \cup {Junk}]
      /\ rear' \in 0..size-1 /\ ~Full'
      /\ Count' = Count
      /\ \A i \in 1..Count : q'[Slot(i)'] = q[Slot(i)]
  <2>1. CASE rear < front
    <3>1. /\ q' = [i \in 0..size-1 |->
                     IF i \in orgSize..orgSize+rear THEN q[i-orgSize] ELSE q[i]]
          /\ rear' = orgSize + rear
      BY <2>1 DEF Move
    <3>2. q' \in [0..size-1 -> Data \cup {Junk}] /\ rear' \in 0..size-1
      <4>1. \A i \in orgSize..orgSize+rear : i - orgSize \in 0..size-1
        BY <1>e, FieldFacts
      <4>2. rear' \in 0..size-1
        BY <3>1, <2>1, <1>e, FieldFacts
      <4> QED BY <3>1, <4>1, <4>2, <1>f
    <3>3. rear' + 1 < size /\ rear' + 1 # front
      BY <3>1, <2>1, <1>e, FieldFacts, SMTT(30)
    <3>4. (rear' + 1) % size # front
      BY <3>2, <3>3, FieldFacts, NextSlot
    <3>5. Count = rear - front + orgSize /\ Count' = Count
      BY <3>1, <2>1, <1>a, <1>d, <1>e, FieldFacts, SMTT(30) DEF Count
    <3>6. ASSUME NEW i \in 1..Count PROVE q'[Slot(i)'] = q[Slot(i)]
      <4>1. /\ Slot(i) = IF front + i < orgSize THEN front + i ELSE front + i - orgSize
            /\ Slot(i)' = front + i /\ front + i \in 0..size-1 /\ front + i <= orgSize + rear
        <5>a. i \in Nat /\ i <= rear - front + orgSize
          BY <3>5, FieldFacts
        <5>1. i \in Nat /\ front + i <= orgSize + rear /\ front + i < size
          <6>1. front \in Nat /\ rear \in Nat /\ orgSize \in Nat
            BY FieldFacts
          <6>2. size = orgSize + orgSize /\ rear < orgSize
            BY <1>e, <6>1
          <6> QED BY <5>a, <6>1, <6>2
        <5> QED BY <5>1, <1>a, <1>d, FieldFacts DEF Slot
      <4>2. orgSize \in Nat /\ rear \in Nat /\ front \in Nat /\ i \in Nat
        BY FieldFacts, <3>5
      <4>3. CASE front + i < orgSize
        <5>1. front + i \notin orgSize..orgSize+rear
          BY <4>2, <4>3
        <5> QED BY <5>1, <4>1, <4>3, <3>1
      <4>4. CASE ~(front + i < orgSize)
        <5>1. front + i <= orgSize + rear
          BY <4>1
        <5>2. front + i \in orgSize..orgSize+rear
          BY <4>2, <4>4, <5>1
        <5>3. PICK k : k = front + i
          OBVIOUS
        <5>4. q'[k] = q[k - orgSize]
          <6>1. k \in orgSize..orgSize+rear /\ k \in 0..size-1
            BY <5>2, <5>3, <4>1
          <6> QED BY <6>1, <3>1
        <5>5. Slot(i)' = front + i /\ Slot(i) = front + i - orgSize
          BY <4>1, <4>4
        <5>6. Slot(i)' = k
          BY <5>3, <5>5
        <5>7. Slot(i) = k - orgSize
          BY <4>2, <5>3, <5>5
        <5> QED BY <5>4, <5>6, <5>7
      <4> QED BY <4>3, <4>4
    <3> QED BY <3>2, <3>4, <3>5, <3>6, <1>a DEF Full
  <2>2. CASE ~(rear < front)
    <3>1. q' = q /\ rear' = rear
      BY <2>2 DEF Move
    <3>2. front = 0 /\ rear + 1 = orgSize
      BY <2>2, <1>e, FieldFacts
    <3>3. (rear' + 1) % size # front
      BY <3>1, <3>2, <1>e, FieldFacts, NextSlot
    <3>4. Count = rear /\ Count' = rear
      BY <3>1, <3>2, <1>a, FieldFacts DEF Count
    <3>5. \A i \in 1..Count : Slot(i)' = Slot(i)
      BY <3>2, <3>4, <1>a, <1>d, <1>e, FieldFacts DEF Slot
    <3>6. rear' \in 0..size-1
      BY <3>1, FieldFacts
    <3> QED BY <3>1, <3>3, <3>4, <3>5, <3>6, <1>a, <1>f DEF Full
  <2> QED BY <2>1, <2>2
<1>1. TypeOK'
  BY <1>a, <1>d, <1>g DEF QueueInv, TypeOK
<1>2. LockOK'
  BY <1>a, <1>b, <1>c DEF QueueInv, LockOK
<1>3. GrowOK' /\ RoomOK'
  BY <1>d, <1>g DEF GrowOK, RoomOK
<1>4. HeldOK'
  BY <1>b, <1>g DEF QueueInv, HeldOK
<1>5. Items' = Items
  BY <1>g DEF Items
<1> QED BY <1>a, <1>1, <1>2, <1>3, <1>4, <1>5 DEF QueueInv

(* A push takes effect when it stores. *)
LEMMA StoreStep ==
  ASSUME QueueInv, NEW t \in Threads, Store(t)
  PROVE  QueueInv' /\ Items' = Append(Items, arg[t]) /\ ~lost /\ lost' = lost
<1> DEFINE r == (rear + 1) % size
<1>a. /\ pc[t] = "store"
      /\ rear' = r /\ q' = [q EXCEPT ![r] = arg[t]]
      /\ lock' = Null
      /\ ret' = [ret EXCEPT ![t] = <<"push", TRUE>>]
      /\ pc' = [pc EXCEPT ![t] = "idle"]
      /\ UNCHANGED <<front, size, arg, orgSize, lost>>
  BY DEF Store
<1>b. /\ lock = t /\ ~lost /\ arg[t] \in Data /\ ~Growing
      /\ \A u \in Threads : u # t => pc[u] = "idle"
  BY <1>a, Alone
<1>c. pc \in [Threads -> {"idle", "realloc", "move", "store"}]
  BY DEF QueueInv, TypeOK
<1>d. \A u \in Threads : pc'[u] = "idle"
  BY <1>a, <1>b, <1>c
<1>e. ~Growing' /\ Span = size /\ Span' = size /\ Slots = size /\ Slots' = size
  BY <1>a, <1>b, <1>d DEF Growing, Span, Slots
<1>f. r = (IF rear + 1 = size THEN 0 ELSE rear + 1) /\ r \in 0..size-1
  BY FieldFacts, NextSlot
<1>g. r # front
  BY <1>a DEF QueueInv, RoomOK, Full
<1> HIDE DEF r
<1>h. q \in [0..size-1 -> Data \cup {Junk}]
  BY <1>e DEF QueueInv, TypeOK
<1>n. PICK n \in Nat : n = Count
  BY FieldFacts
<1>i. Count' = n + 1
  BY <1>n, <1>a, <1>e, <1>f, <1>g, FieldFacts DEF Count
<1>j. /\ \A i \in 1..n+1 : Slot(i)' = Slot(i)
      /\ \A i \in 1..n : Slot(i) # r /\ Slot(i) \in 0..size-1
      /\ Slot(n + 1) = r
  <2>1. \A i \in 1..n+1 : Slot(i)' = Slot(i)
    BY <1>a, <1>e DEF Slot
  <2>2. \A i \in 1..n : Slot(i) # r /\ Slot(i) \in 0..size-1
    BY <1>n, <1>e, <1>f, <1>g, FieldFacts DEF Slot, Count
  <2>3. Slot(n + 1) = r
    BY <1>n, <1>e, <1>f, <1>g, FieldFacts DEF Slot, Count
  <2> QED BY <2>1, <2>2, <2>3
<1>k. /\ \A i \in 1..n : q'[Slot(i)'] = q[Slot(i)]
      /\ q'[Slot(n + 1)'] = arg[t]
  <2>1. \A i \in 1..n : i \in 1..n+1
    OBVIOUS
  <2>2. \A i \in 1..n : q'[Slot(i)'] = q[Slot(i)]
    BY <2>1, <1>a, <1>h, <1>j
  <2>3. n + 1 \in 1..n+1
    OBVIOUS
  <2>4. Slot(n + 1)' = r
    BY <2>3, <1>j
  <2>5. q'[r] = arg[t]
    BY <1>a, <1>f, <1>h
  <2> QED BY <2>2, <2>4, <2>5
<1>1. TypeOK'
  <2>1. q' \in [0..Slots'-1 -> Data \cup {Junk}]
    BY <1>a, <1>b, <1>e, <1>h
  <2>2. ret' \in [Threads -> {Null} \cup ({"push"} \X BOOLEAN)
                             \cup ({"pop"} \X (Data \cup {Null}))
                             \cup ({"head"} \X (Data \cup {Junk}))]
    BY <1>a DEF QueueInv, TypeOK
  <2> QED BY <2>1, <2>2, <1>a, <1>f DEF QueueInv, TypeOK
<1>2. LockOK' /\ GrowOK' /\ RoomOK'
  BY <1>a, <1>d, <1>e, NullAssumption DEF LockOK, GrowOK, RoomOK
<1>3. Items \in [1..n -> Data] /\ \A i \in 1..n : Items[i] = q[Slot(i)]
  BY <1>b, <1>n, ItemsFacts
<1>4. HeldOK'
  <2>1. \A i \in 1..n : q[Slot(i)] \in Data
    BY <1>3
  <2>2. \A i \in 1..n+1 : i \in 1..n \/ i = n + 1
    OBVIOUS
  <2>3. \A i \in 1..n+1 : q'[Slot(i)'] \in Data
    BY <2>1, <2>2, <1>b, <1>k
  <2> QED BY <2>3, <1>i DEF HeldOK
<1>5. /\ Items' \in [1..n+1 -> Data]
      /\ \A i \in 1..n : Items'[i] = Items[i]
      /\ Items'[n + 1] = arg[t]
  <2>1. Items' = [i \in 1..n+1 |-> q'[Slot(i)']]
    BY <1>i DEF Items
  <2>2. \A i \in 1..n+1 : q'[Slot(i)'] \in Data
    <3>1. \A i \in 1..n+1 : i \in 1..n \/ i = n + 1
      OBVIOUS
    <3> QED BY <3>1, <1>3, <1>b, <1>k
  <2> QED BY <2>1, <2>2, <1>3, <1>k, FieldFacts
<1>6. Items' = Append(Items, arg[t])
  BY <1>3, <1>5, <1>b, AppendIs, FieldFacts
<1> QED BY <1>a, <1>b, <1>1, <1>2, <1>4, <1>6 DEF QueueInv

(* queue_pop() takes the oldest element. *)
LEMMA PopStep ==
  ASSUME QueueInv, NEW t \in Threads, Pop(t)
  PROVE  /\ QueueInv' /\ ~lost /\ lost' = lost
         /\ \/ /\ Items = <<>> /\ Items' = Items
               /\ ret' = [ret EXCEPT ![t] = <<"pop", Null>>]
            \/ /\ Items # <<>> /\ Items' = Tail(Items)
               /\ ret' = [ret EXCEPT ![t] = <<"pop", Head(Items)>>]
<1>a. lock = Null /\ ~lost /\ UNCHANGED <<q, rear, size, lock, pc, arg, orgSize, lost>>
  BY DEF Pop, Enter
<1>b. \A u \in Threads : pc[u] = "idle"
  BY <1>a, NotGrowing
<1>c. /\ ~Growing /\ ~Growing' /\ Span = size /\ Span' = size
      /\ Slots = size /\ Slots' = size
  BY <1>a, <1>b DEF Growing, Span, Slots
<1>d. /\ Items \in [1..Count -> Data] /\ \A i \in 1..Count : Items[i] = q[Slot(i)]
      /\ Count = 0 => Items = <<>>
  BY <1>a, ItemsFacts
<1>1. LockOK' /\ GrowOK' /\ RoomOK'
  BY <1>a, <1>b, <1>c DEF QueueInv, LockOK, GrowOK, RoomOK
<1>2. CASE front = rear
  <2>1. ret' = [ret EXCEPT ![t] = <<"pop", Null>>] /\ front' = front
    BY <1>2 DEF Pop
  <2>2. TypeOK'
    <3>1. ret' \in [Threads -> {Null} \cup ({"push"} \X BOOLEAN)
                               \cup ({"pop"} \X (Data \cup {Null}))
                               \cup ({"head"} \X (Data \cup {Junk}))]
      BY <2>1 DEF QueueInv, TypeOK
    <3>2. q' \in [0..Slots'-1 -> Data \cup {Junk}]
      BY <1>a, <1>c DEF QueueInv, TypeOK
    <3> QED BY <3>1, <3>2, <2>1, <1>a DEF QueueInv, TypeOK
  <2>3. Count = 0 /\ Count' = 0 /\ Items = <<>> /\ Items' = <<>>
    <3>1. Count = 0 /\ Count' = 0
      BY <1>2, <2>1, <1>a, FieldFacts DEF Count
    <3>2. Items = <<>>
      BY <3>1, <1>d
    <3>3. Items' = <<>>
      BY <3>1 DEF Items
    <3> QED BY <3>1, <3>2, <3>3
  <2>4. HeldOK'
    BY <2>3 DEF HeldOK
  <2> QED BY <2>1, <2>2, <2>3, <2>4, <1>1, <1>a DEF QueueInv
<1>3. CASE front # rear
  <2> DEFINE r == (front + 1) % size
  <2>1. front' = r /\ ret' = [ret EXCEPT ![t] = <<"pop", q[r]>>]
    BY <1>3 DEF Pop
  <2>2. r = (IF front + 1 = size THEN 0 ELSE front + 1) /\ r \in 0..size-1
    BY FieldFacts, NextSlot
  <2> HIDE DEF r
  <2>3. Count \in Nat \ {0} /\ Count' = Count - 1
    BY <1>3, <2>1, <2>2, <1>a, <1>c, FieldFacts DEF Count
  <2>4. Slot(1) = r /\ \A i \in 1..Count-1 : Slot(i)' = Slot(i + 1)
    BY <2>1, <2>2, <1>a, <1>c, FieldFacts DEF Slot
  <2>5. \A i \in 1..Count : q[Slot(i)] \in Data
    BY <1>a DEF QueueInv, HeldOK
  <2>6. q[r] \in Data /\ q[r] = Items[1]
    BY <2>3, <2>4, <2>5, <1>d
  <2>7. TypeOK'
    <3>1. ret' \in [Threads -> {Null} \cup ({"push"} \X BOOLEAN)
                               \cup ({"pop"} \X (Data \cup {Null}))
                               \cup ({"head"} \X (Data \cup {Junk}))]
      BY <2>1, <2>6 DEF QueueInv, TypeOK
    <3>2. q' \in [0..Slots'-1 -> Data \cup {Junk}]
      BY <1>a, <1>c DEF QueueInv, TypeOK
    <3> QED BY <3>1, <3>2, <2>1, <2>2, <1>a DEF QueueInv, TypeOK
  <2>8. \A i \in 1..Count-1 : q'[Slot(i)'] = q[Slot(i + 1)]
    BY <2>4, <1>a
  <2>9. HeldOK'
    BY <2>3, <2>5, <2>8 DEF HeldOK
  <2>10. Items' \in [1..Count-1 -> Data] /\ \A i \in 1..Count-1 : Items'[i] = Items[i + 1]
    <3>1. Items' = [i \in 1..Count-1 |-> q'[Slot(i)']]
      BY <2>3 DEF Items
    <3> QED BY <3>1, <2>3, <2>5, <2>8, <1>d
  <2>11. Items' = Tail(Items) /\ Head(Items) = Items[1] /\ Items # <<>>
    <3>1. Count - 1 \in Nat /\ (Count - 1) + 1 = Count
      BY <2>3
    <3> HIDE DEF Items
    <3> QED BY <3>1, <2>10, <1>d, TailIs
  <2> QED BY <2>1, <2>6, <2>7, <2>9, <2>11, <1>1, <1>a DEF QueueInv
<1> QED BY <1>2, <1>3

LEMMA PeekStep ==
  ASSUME QueueInv, NEW t \in Threads, Peek(t)
  PROVE  /\ QueueInv' /\ ~lost /\ lost' = lost /\ Items' = Items
         /\ \/ /\ Items = <<>>
               /\ \E d \in Data \cup {Junk} : ret' = [ret EXCEPT ![t] = <<"head", d>>]
            \/ /\ Items # <<>>
               /\ ret' = [ret EXCEPT ![t] = <<"head", Head(Items)>>]
<1> DEFINE r == (front + 1) % size
<1>a. /\ lock = Null /\ ~lost
      /\ ret' = [ret EXCEPT ![t] = <<"head", q[r]>>]
      /\ UNCHANGED <<q, front, rear, size, lock, pc, arg, orgSize, lost>>
  BY DEF Peek, Enter, fields
<1>b. \A u \in Threads : pc[u] = "idle"
  BY <1>a, NotGrowing
<1>c. Span = size /\ Slots = size
  BY <1>a, <1>b DEF Growing, Span, Slots
<1>d. r = (IF front + 1 = size THEN 0 ELSE front + 1) /\ r \in 0..size-1
  BY FieldFacts, NextSlot
<1> HIDE DEF r
<1>e. q[r] \in Data \cup {Junk}
  BY <1>c, <1>d DEF QueueInv, TypeOK
<1>f. Slots' = Slots /\ Span' = Span /\ Growing' = Growing /\ Count' = Count
  BY <1>a DEF Slots, Span, Growing, Count
<1>g. Items' = Items
  BY <1>a, <1>f DEF Items, Slot
<1>1. TypeOK'
  <2>1. ret' \in [Threads -> {Null} \cup ({"push"} \X BOOLEAN)
                             \cup ({"pop"} \X (Data \cup {Null}))
                             \cup ({"head"} \X (Data \cup {Junk}))]
    BY <1>a, <1>e DEF QueueInv, TypeOK
  <2> QED BY <2>1, <1>a, <1>f DEF QueueInv, TypeOK
<1>2. LockOK' /\ GrowOK' /\ RoomOK' /\ HeldOK'
  BY <1>a, <1>f DEF QueueInv, LockOK, GrowOK, RoomOK, HeldOK, Full, Slot
<1>3. CASE Count = 0
  <2>1. Items = <<>>
    BY <1>3, <1>a, ItemsFacts
  <2> QED BY <2>1, <1>a, <1>e, <1>g, <1>1, <1>2 DEF QueueInv
<1>4. CASE Count # 0
  <2>1. Count \in Nat \ {0}
    BY <1>4, FieldFacts
  <2>2. Slot(1) = r
    BY <1>c, <1>d, FieldFacts DEF Slot
  <2>3. Items \in [1..Count -> Data] /\ Items[1] = q[r]
    BY <2>1, <2>2, <1>a, ItemsFacts
  <2>4. Items # <<>> /\ Head(Items) = Items[1]
    BY <2>1, <2>3, FunSeq
  <2> QED BY <2>3, <2>4, <1>a, <1>g, <1>1, <1>2 DEF QueueInv
<1> QED BY <1>3, <1>4

LEMMA StutterQueue ==
  ASSUME QueueInv, UNCHANGED vars
  PROVE  QueueInv' /\ Items' = Items
<1> USE DEF vars, fields
<1>1. Slots' = Slots /\ Span' = Span /\ Growing' = Growing /\ Count' = Count
  BY DEF Slots, Span, Growing, Count
<1>2. TypeOK'
  BY <1>1 DEF QueueInv, TypeOK
<1>3. LockOK' /\ GrowOK' /\ RoomOK' /\ HeldOK'
  BY <1>1 DEF QueueInv, LockOK, GrowOK, RoomOK, HeldOK, Full, Slot
<1>4. Items' = Items
  BY <1>1 DEF Items, Slot
<1> QED BY <1>2, <1>3, <1>4 DEF QueueInv

LEMMA QueueStep ==
  ASSUME QueueInv, [Next]_vars
  PROVE  QueueInv'
BY PushStartStep, ReallocStep, ReallocFailureStep, MoveStep, StoreStep, PopStep, PeekStep,
   StutterQueue DEF Next

(* equeue.c: what QueueInv says of the lock, the fields and the slots.      *)
THEOREM QueueInvariance == Spec => []QueueInv
<1>1. Init => QueueInv
  BY InitQueue
<1>2. QueueInv /\ [Next]_vars => QueueInv'
  BY QueueStep
<1> QED BY <1>1, <1>2, PTL DEF Spec

(* The fields, the slots and the results of the calls keep their types.     *)
THEOREM QueueTypeCorrect == Spec => []TypeOK
<1>1. QueueInv => TypeOK
  BY DEF QueueInv
<1> QED BY <1>1, QueueInvariance, PTL

(* However the pushes that grow the buffer interleave with the other calls, *)
(* the ring buffer is the FIFO queue of Fifo until a realloc() fails.       *)
THEOREM FifoUntilLostHolds == Spec => FifoUntilLost
<1> DEFINE abs == IF lost THEN <<>> ELSE Items
<1>1. Init => F!Init
  <2>1. Init => Items = <<>>
    BY DEF Init, Items, Count
  <2> QED BY <2>1 DEF Init, F!Init
<1>2. QueueInv /\ [Next]_vars => [F!Next \/ lost']_<<abs, ret>>
  <2> SUFFICES ASSUME QueueInv, [Next]_vars
               PROVE  F!Next \/ lost' \/ UNCHANGED <<abs, ret>>
    OBVIOUS
  <2>1. ASSUME NEW t \in Threads, NEW d \in Data, PushStart(t, d)
        PROVE  UNCHANGED <<abs, ret>>
    BY <2>1, PushStartStep
  <2>2. ASSUME NEW t \in Threads, Realloc(t) \/ Move(t)
        PROVE  UNCHANGED <<abs, ret>>
    BY <2>2, ReallocStep, MoveStep
  <2>3. ASSUME NEW t \in Threads, ReallocFailure(t)
        PROVE  lost'
    BY <2>3, ReallocFailureStep
  <2>4. ASSUME NEW t \in Threads, Store(t)
        PROVE  F!Next
    <3>1. pc[t] = "store" /\ ret' = [ret EXCEPT ![t] = <<"push", TRUE>>]
      BY <2>4 DEF Store
    <3>2. arg[t] \in Data
      BY <3>1, Alone
    <3>3. Items' = Append(Items, arg[t]) /\ ~lost /\ ~lost'
      BY <2>4, StoreStep
    <3>4. F!Push(t, arg[t])
      BY <3>1, <3>3 DEF F!Push
    <3> QED BY <3>2, <3>4 DEF F!Next
  <2>5. ASSUME NEW t \in Threads, Pop(t)
        PROVE  F!Next
    <3>1. /\ ~lost /\ ~lost'
          /\ \/ /\ Items = <<>> /\ Items' = Items
                /\ ret' = [ret EXCEPT ![t] = <<"pop", Null>>]
             \/ /\ Items # <<>> /\ Items' = Tail(Items)
                /\ ret' = [ret EXCEPT ![t] = <<"pop", Head(Items)>>]
      BY <2>5, PopStep
    <3>2. F!Pop(t) \/ F!PopEmpty(t)
      BY <3>1 DEF F!Pop, F!PopEmpty
    <3> QED BY <3>2 DEF F!Next
  <2>6. ASSUME NEW t \in Threads, Peek(t)
        PROVE  F!Next
    <3>1. /\ ~lost /\ ~lost' /\ Items' = Items
          /\ \/ /\ Items = <<>>
                /\ \E d \in Data \cup {Junk} : ret' = [ret EXCEPT ![t] = <<"head", d>>]
             \/ /\ Items # <<>>
                /\ ret' = [ret EXCEPT ![t] = <<"head", Head(Items)>>]
      BY <2>6, PeekStep
    <3>2. F!Peek(t) \/ F!PeekEmpty(t)
      BY <3>1 DEF F!Peek, F!PeekEmpty
    <3> QED BY <3>2 DEF F!Next
  <2>7. CASE UNCHANGED vars
    BY <2>7, StutterQueue DEF vars
  <2> QED BY <2>1, <2>2, <2>3, <2>4, <2>5, <2>6, <2>7 DEF Next
<1> QED BY <1>1, <1>2, QueueInvariance, PTL DEF Spec, FifoUntilLost
=============================================================================
