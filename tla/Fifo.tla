-------------------------------- MODULE Fifo --------------------------------
(***************************************************************************)
(* What queue_push() and queue_pop() of src/src/core/base/equeue.h promise *)
(* their callers: one first-in first-out sequence, each call taking effect *)
(* at once, and a push that fails leaving the queue as it was.             *)
(***************************************************************************)
EXTENDS Sequences

CONSTANTS
  Threads,  \* the callers
  Data,     \* what they queue
  Null,     \* queue_pop() of an empty queue
  Junk      \* what lies in memory that was never written

VARIABLES
  items,    \* the queued data, oldest first
  ret       \* the last call of each thread and what it returned

Init == items = <<>> /\ ret = [t \in Threads |-> Null]

Push(t, d) ==
  /\ items' = Append(items, d)
  /\ ret' = [ret EXCEPT ![t] = <<"push", TRUE>>]

PushFails(t) ==
  /\ ret' = [ret EXCEPT ![t] = <<"push", FALSE>>]
  /\ UNCHANGED items

Pop(t) ==
  /\ items # <<>>
  /\ items' = Tail(items)
  /\ ret' = [ret EXCEPT ![t] = <<"pop", Head(items)>>]

PopEmpty(t) ==
  /\ items = <<>>
  /\ ret' = [ret EXCEPT ![t] = <<"pop", Null>>]
  /\ UNCHANGED items

Peek(t) ==
  /\ items # <<>>
  /\ ret' = [ret EXCEPT ![t] = <<"head", Head(items)>>]
  /\ UNCHANGED items

(* Nothing is promised of the head of an empty queue. *)
PeekEmpty(t) ==
  /\ items = <<>>
  /\ \E d \in Data \cup {Junk} : ret' = [ret EXCEPT ![t] = <<"head", d>>]
  /\ UNCHANGED items

Next ==
  \E t \in Threads :
    \/ \E d \in Data : Push(t, d)
    \/ PushFails(t) \/ Pop(t) \/ PopEmpty(t) \/ Peek(t) \/ PeekEmpty(t)

Spec == Init /\ [][Next]_<<items, ret>>
=============================================================================
