------------------------------- MODULE EQueue -------------------------------
(***************************************************************************)
(* The growing ring buffer of src/src/core/base/equeue.c, used by several  *)
(* threads.  The slot `front` is always empty: the data lies in the slots  *)
(* after it up to `rear`.  queue_push(), queue_pop() and queue_head() hold *)
(* queue->lock; queue_element_count() reads the fields without it, so a    *)
(* push that grows the buffer is cut where those fields change.            *)
(***************************************************************************)
EXTENDS Integers, Sequences

CONSTANTS
  Threads,      \* the callers
  Data,         \* what they queue
  Null,         \* NULL
  Junk,         \* what an unused slot of malloc() holds
  InitSize,     \* the size queue_create() was given; 0 and 1 give 1024
  MaxSize,      \* bound on the size (the code has none: see the README)
  ReallocFails  \* whether realloc() can return NULL

ASSUME InitSizeAssumption == InitSize \in Nat /\ InitSize >= 2
ASSUME MaxSizeAssumption == MaxSize \in Nat /\ InitSize <= MaxSize
ASSUME NullAssumption == Null \notin Threads \cup Data \cup BOOLEAN

VARIABLES
  q,        \* queue->q
  front, rear, size,
  lock,     \* the thread that holds queue->lock, or Null
  pc,       \* where each thread is in its call
  arg,      \* the data it pushes
  orgSize,  \* its local org_size
  lost,     \* queue->q is NULL
  ret       \* the last call of each thread and what it returned

fields == <<front, rear, size>>
vars == <<q, fields, lock, pc, arg, orgSize, lost, ret>>

Full == (rear + 1) % size = front

(* queue_create() *)
Init ==
  /\ q = [i \in 0..InitSize-1 |-> Junk]
  /\ front = 0 /\ rear = 0 /\ size = InitSize
  /\ lock = Null
  /\ pc = [t \in Threads |-> "idle"]
  /\ arg = [t \in Threads |-> Null]
  /\ orgSize = InitSize
  /\ lost = FALSE
  /\ ret = [t \in Threads |-> Null]

Enter(t) == pc[t] = "idle" /\ lock = Null /\ ~lost

(* queue_push(): take the lock; a full buffer doubles its size first. *)
PushStart(t, d) ==
  /\ Enter(t)
  /\ lock' = t
  /\ arg' = [arg EXCEPT ![t] = d]
  /\ \/ /\ Full
        /\ 2 * size <= MaxSize
        /\ orgSize' = size
        /\ size' = 2 * size
        /\ pc' = [pc EXCEPT ![t] = "realloc"]
     \/ /\ ~Full
        /\ pc' = [pc EXCEPT ![t] = "store"]
        /\ UNCHANGED <<orgSize, size>>
  /\ UNCHANGED <<q, front, rear, lost, ret>>

Realloc(t) ==
  /\ pc[t] = "realloc"
  /\ q' = [i \in 0..size-1 |-> IF i < orgSize THEN q[i] ELSE Junk]
  /\ pc' = [pc EXCEPT ![t] = "move"]
  /\ UNCHANGED <<fields, lock, arg, orgSize, lost, ret>>

(* queue->q is overwritten with NULL before it is looked at. *)
ReallocFailure(t) ==
  /\ pc[t] = "realloc"
  /\ ReallocFails
  /\ lost' = TRUE
  /\ lock' = Null
  /\ ret' = [ret EXCEPT ![t] = <<"push", FALSE>>]
  /\ pc' = [pc EXCEPT ![t] = "idle"]
  /\ UNCHANGED <<q, fields, arg, orgSize>>

(* Mutant: for (i = 0; i < queue->rear; i++). *)
MoveShort(t) ==
  /\ pc[t] = "move"
  /\ IF rear < front
     THEN /\ q' = [i \in 0..size-1 |->
                     IF i \in orgSize..orgSize+rear-1 THEN q[i-orgSize] ELSE q[i]]
          /\ rear' = orgSize + rear
     ELSE UNCHANGED <<q, rear>>
  /\ pc' = [pc EXCEPT ![t] = "store"]
  /\ UNCHANGED <<front, size, lock, arg, orgSize, lost, ret>>

(* Data that had wrapped round goes behind the old end. *)
Move(t) ==
  /\ pc[t] = "move"
  /\ IF rear < front
     THEN /\ q' = [i \in 0..size-1 |->
                     IF i \in orgSize..orgSize+rear THEN q[i-orgSize] ELSE q[i]]
          /\ rear' = orgSize + rear
     ELSE UNCHANGED <<q, rear>>
  /\ pc' = [pc EXCEPT ![t] = "store"]
  /\ UNCHANGED <<front, size, lock, arg, orgSize, lost, ret>>

Store(t) ==
  /\ pc[t] = "store"
  /\ rear' = (rear + 1) % size
  /\ q' = [q EXCEPT ![(rear + 1) % size] = arg[t]]
  /\ lock' = Null
  /\ ret' = [ret EXCEPT ![t] = <<"push", TRUE>>]
  /\ pc' = [pc EXCEPT ![t] = "idle"]
  /\ UNCHANGED <<front, size, arg, orgSize, lost>>

(* queue_pop() *)
Pop(t) ==
  /\ Enter(t)
  /\ IF front = rear
     THEN ret' = [ret EXCEPT ![t] = <<"pop", Null>>] /\ UNCHANGED front
     ELSE /\ front' = (front + 1) % size
          /\ ret' = [ret EXCEPT ![t] = <<"pop", q[(front + 1) % size]>>]
  /\ UNCHANGED <<q, rear, size, lock, pc, arg, orgSize, lost>>

(* queue_head(): the slot after front, also when the queue is empty. *)
Peek(t) ==
  /\ Enter(t)
  /\ ret' = [ret EXCEPT ![t] = <<"head", q[(front + 1) % size]>>]
  /\ UNCHANGED <<q, fields, lock, pc, arg, orgSize, lost>>

Next ==
  \E t \in Threads :
    \/ \E d \in Data : PushStart(t, d)
    \/ Realloc(t) \/ ReallocFailure(t) \/ Move(t) \/ Store(t)
    \/ Pop(t) \/ Peek(t)

Spec == Init /\ [][Next]_vars

-----------------------------------------------------------------------------
(* queue_element_count(), without the lock. *)
ElementCount == (rear - front + size) % size

Growing == \E t \in Threads : pc[t] \in {"realloc", "move"}

(* The size by which the data lies in q, and the data, oldest first. *)
Span == IF Growing THEN orgSize ELSE size
Slot(i) == IF front + i < Span THEN front + i ELSE front + i - Span
Count == IF front <= rear THEN rear - front ELSE rear - front + Span
Items == [i \in 1..Count |-> q[Slot(i)]]

(* The slots that are allocated; a realloc() that fails frees none. *)
Slots == IF lost \/ \E t \in Threads : pc[t] = "realloc" THEN orgSize ELSE size

TypeOK ==
  /\ size \in Nat /\ size >= 2
  /\ orgSize \in Nat /\ orgSize >= 2
  /\ front \in 0..size-1
  /\ rear \in 0..size-1
  /\ q \in [0..Slots-1 -> Data \cup {Junk}]
  /\ lock \in Threads \cup {Null}
  /\ pc \in [Threads -> {"idle", "realloc", "move", "store"}]
  /\ arg \in [Threads -> Data \cup {Null}]
  /\ lost \in BOOLEAN
  /\ ret \in [Threads -> {Null} \cup ({"push"} \X BOOLEAN)
                          \cup ({"pop"} \X (Data \cup {Null}))
                          \cup ({"head"} \X (Data \cup {Junk}))]

F == INSTANCE Fifo WITH items <- IF lost THEN <<>> ELSE Items

(* equeue.h:53-54: queue_push() returns "whether the data is in the queue", *)
(* so a push that fails has changed nothing: the ring buffer is one FIFO    *)
(* queue even when memory runs out.                                         *)
FifoSpec == F!Spec

(* Until a realloc() fails, however the pushes that grow the buffer, move   *)
(* the wrapped data and store interleave with the pops, every call is one   *)
(* step of one FIFO queue.                                                  *)
FifoUntilLost == F!Init /\ [][F!Next \/ lost']_<<IF lost THEN <<>> ELSE Items, ret>>

(* equeue.h:85: "the number of elements in the queue", at every moment.     *)
CountIsCount == ~lost => ElementCount = Len(Items)
=============================================================================
