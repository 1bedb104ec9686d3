------------------------------- MODULE Queues -------------------------------
(***************************************************************************)
(* The lists of queue.h that the runtime keeps its lthreads in: TAILQ (the *)
(* ready, the deferred, the blocked ones) and LIST (the busy ones), at the *)
(* level of their pointers.  A prev pointer and tqh_last point to a link,  *)
(* which is named by the item it is in, or HeadLink.                       *)
(***************************************************************************)
EXTENDS Integers, FiniteSets, SequencesExt

CONSTANTS Items, HeadLink, None     \* the elements; the head of a list; NULL

ASSUME QueuesAssumption == {HeadLink, None} \cap Items = {} /\ HeadLink # None

VARIABLES
  tailq,          \* a TAILQ: [next, prev, last]; next[HeadLink] is tqh_first
  list,           \* a LIST: [next, prev]
  order           \* per list, the items in the order the callers want

queuesVars == <<tailq, list, order>>

Unlinked == [next |-> [x \in Items \cup {HeadLink} |-> None],
             prev |-> [x \in Items |-> None], last |-> HeadLink]

(* An assignment to the prev field of a successor, made when there is one. *)
SetPrev(q, x, p) == IF x = None THEN q ELSE [q EXCEPT !.prev[x] = p]

(* tqh_last follows a change of the last link only. *)
SetLast(q, x, p) == IF x = None THEN [q EXCEPT !.last = p] ELSE q

(* x into the link that p names: TAILQ_INSERT_HEAD for p = HeadLink,        *)
(* TAILQ_INSERT_AFTER for an item.                                          *)
TailqInsertAfter(q, p, x) ==
  LET s == q.next[p]
  IN SetLast(SetPrev([q EXCEPT !.next = [@ EXCEPT ![x] = s, ![p] = x], !.prev[x] = p], s, x), s, x)

TailqInsertBefore(q, s, x) ==
  LET p == q.prev[s]
  IN [q EXCEPT !.prev = [@ EXCEPT ![x] = p, ![s] = x], !.next = [@ EXCEPT ![x] = s, ![p] = x]]

TailqInsertTail(q, x) ==
  [q EXCEPT !.next = [@ EXCEPT ![x] = None, ![q.last] = x], !.prev[x] = q.last, !.last = x]

(* Mutant: tqh_last is not moved back when the last item goes. *)
TailqRemoveKeepsLast(q, x) ==
  [SetPrev(q, q.next[x], q.prev[x]) EXCEPT !.next = [@ EXCEPT ![q.prev[x]] = q.next[x], ![x] = None],
                                           !.prev[x] = None]

(* TAILQ_REMOVE; the links of the removed item are not read again. *)
TailqRemove(q, x) ==
  [SetLast(SetPrev(q, q.next[x], q.prev[x]), q.next[x], q.prev[x])
     EXCEPT !.next = [@ EXCEPT ![q.prev[x]] = q.next[x], ![x] = None], !.prev[x] = None]

(* LIST_INSERT_AFTER, and LIST_INSERT_HEAD for p = HeadLink *)
ListInsertAfter(q, p, x) ==
  LET s == q.next[p]
  IN SetPrev([q EXCEPT !.next = [@ EXCEPT ![x] = s, ![p] = x], !.prev[x] = p], s, x)

ListRemove(q, x) ==
  [SetPrev(q, q.next[x], q.prev[x])
     EXCEPT !.next = [@ EXCEPT ![q.prev[x]] = q.next[x], ![x] = None], !.prev[x] = None]

----------------------------------------------------------------------------
QueuesInit ==
  /\ tailq = Unlinked /\ list = Unlinked
  /\ order = [tailq |-> <<>>, list |-> <<>>]

PlaceIn(which, x) == CHOOSE i \in DOMAIN order[which] : order[which][i] = x

Absent(which, x) == x \notin {order[which][i] : i \in DOMAIN order[which]}

Keep(which, i, x) == order' = [order EXCEPT ![which] = InsertAt(@, i, x)]

QueuesTailq == \E x \in Items :
  /\ UNCHANGED list
  /\ \/ /\ Absent("tailq", x)
        /\ \/ tailq' = TailqInsertTail(tailq, x) /\ Keep("tailq", Len(order.tailq) + 1, x)
           \/ tailq' = TailqInsertAfter(tailq, HeadLink, x) /\ Keep("tailq", 1, x)
           \/ \E y \in Items : /\ ~Absent("tailq", y)
                               /\ \/ /\ tailq' = TailqInsertAfter(tailq, y, x)
                                     /\ Keep("tailq", PlaceIn("tailq", y) + 1, x)
                                  \/ /\ tailq' = TailqInsertBefore(tailq, y, x)
                                     /\ Keep("tailq", PlaceIn("tailq", y), x)
     \/ /\ ~Absent("tailq", x)
        /\ tailq' = TailqRemove(tailq, x)
        /\ order' = [order EXCEPT !.tailq = RemoveAt(@, PlaceIn("tailq", x))]

QueuesList == \E x \in Items :
  /\ UNCHANGED tailq
  /\ \/ /\ Absent("list", x)
        /\ \/ list' = ListInsertAfter(list, HeadLink, x) /\ Keep("list", 1, x)
           \/ \E y \in Items : /\ ~Absent("list", y)
                               /\ list' = ListInsertAfter(list, y, x)
                               /\ Keep("list", PlaceIn("list", y) + 1, x)
     \/ /\ ~Absent("list", x)
        /\ list' = ListRemove(list, x)
        /\ order' = [order EXCEPT !.list = RemoveAt(@, PlaceIn("list", x))]

QueuesNext == QueuesTailq \/ QueuesList

QueuesSpec == QueuesInit /\ [][QueuesNext]_queuesVars

----------------------------------------------------------------------------
(* The links of q are those of the sequence s, forward and backward. *)
Links(q, s) ==
  LET At(i) == IF i = 0 THEN HeadLink ELSE IF i > Len(s) THEN None ELSE s[i]
  IN \A i \in 0..Len(s) : /\ q.next[At(i)] = At(i + 1)
                          /\ i > 0 => q.prev[At(i)] = At(i - 1)

(* After any insertions and removals, at either end and in the middle, a    *)
(* walk over the list in either direction meets exactly the items that were *)
(* inserted and not removed, in order, and tqh_last points to the link that *)
(* TAILQ_INSERT_TAIL must fill.                                             *)
QueuesLinked ==
  /\ Links(tailq, order.tailq) /\ Links(list, order.list)
  /\ tailq.last = IF order.tailq = <<>> THEN HeadLink ELSE Last(order.tailq)
=============================================================================
