------------------------------ MODULE HashSet ------------------------------
(***************************************************************************)
(* hashset (src/src/thirdparty/hashset/hashset.c): open addressing over    *)
(* the values themselves, 0 for an empty slot and 1 for a removed one.     *)
(* A removed slot is taken by the next add that passes it, so a value that *)
(* lies further along the probe can be stored a second time.               *)
(***************************************************************************)
EXTENDS Integers, FiniteSets, FiniteSetsExt, SequencesExt

CONSTANTS
  Values,         \* the items, as the integers their pointers are
  MaxSlots,       \* bound: the table is not grown past this size
  MaxDeleted      \* bound: removed slots in a table of that size

(* 0 and 1 are no pointers.                                                 *)
ASSUME HashsetAssumption ==
  /\ Values \subseteq Nat \ {0, 1}
  /\ MaxSlots \in Nat /\ MaxSlots >= 8
  /\ MaxDeleted \in Nat

VARIABLE hset     \* the hashset_st: [capacity, items, nitems, n_deleted]

(* The capacity is 1 << nbits and the mask one less. *)
HashsetTable(n) ==
  [capacity |-> n, items |-> [i \in 0..n - 1 |-> 0], nitems |-> 0, n_deleted |-> 0]

(* The j-th slot that a lookup of v visits: prime_1 * value, then steps of  *)
(* prime_2, under the mask.                                                 *)
Slot(s, v, j) == (73 * v + 5009 * j) % s.capacity

Halts(s, v, stop) == {j \in 0..s.capacity - 1 : s.items[Slot(s, v, j)] \in stop}

(* The first slot of v's probe whose item is in stop; every loop of the     *)
(* file has this form and none ends when there is no such slot.             *)
Probe(s, v, stop) == Slot(s, v, Min(Halts(s, v, stop)))

(* hashset_add_member() *)
AddMember(s, v) ==
  LET i == Probe(s, v, {0, 1, v})
  IN IF v \in {0, 1} THEN [set |-> s, ret |-> -1]
     ELSE IF s.items[i] = v THEN [set |-> s, ret |-> 0]
     ELSE [set |-> [s EXCEPT !.items[i] = v, !.nitems = @ + 1,
                             !.n_deleted = @ - s.items[i]],
           ret |-> 1]

Overloaded(s) == 100 * (s.nitems + s.n_deleted) >= 85 * s.capacity

(* maybe_rehash(): the old items, in order, into a table twice the size. *)
MaybeRehash(s) ==
  LET turn[i \in 0..s.capacity] ==
        IF i = 0 THEN HashsetTable(2 * s.capacity)
        ELSE AddMember(turn[i - 1], s.items[i - 1]).set
  IN IF Overloaded(s) THEN turn[s.capacity] ELSE s

HashsetAdd(s, v) == LET r == AddMember(s, v) IN [r EXCEPT !.set = MaybeRehash(@)]

(* Mutant: the slot is emptied, so that probes that passed it stop there. *)
HashsetRemoveEmpties(s, v) ==
  LET i == Probe(s, v, {0, v})
  IN IF s.items[i] # v \/ v = 0 THEN [set |-> s, ret |-> 0]
     ELSE [set |-> [s EXCEPT !.items[i] = 0, !.nitems = @ - 1], ret |-> 1]

(* hashset_remove() *)
HashsetRemove(s, v) ==
  LET i == Probe(s, v, {0, v})
  IN IF s.items[i] # v \/ v = 0 THEN [set |-> s, ret |-> 0]
     ELSE [set |-> [s EXCEPT !.items[i] = 1, !.nitems = @ - 1, !.n_deleted = @ + 1],
           ret |-> 1]

HashsetIsMember(s, v) == v # 0 /\ s.items[Probe(s, v, {0, v})] = v

----------------------------------------------------------------------------
HashsetInit == hset = HashsetTable(8)

(* The items of the program are pointers: 0 and 1 are the two that are no   *)
(* pointers, and hashset_remove() of 1 would remove a removed slot again.   *)
HashsetAddAction == \E v \in Values \cup {0, 1} :
  /\ HashsetAdd(hset, v).set.capacity <= MaxSlots
  /\ hset' = HashsetAdd(hset, v).set

HashsetRemoveAction == \E v \in Values :
  /\ hset.capacity = MaxSlots => hset.n_deleted < MaxDeleted
  /\ hset' = HashsetRemove(hset, v).set

HashsetNext == HashsetAddAction \/ HashsetRemoveAction

HashsetSpec == HashsetInit /\ [][HashsetNext]_hset

----------------------------------------------------------------------------
Copies(s, v) == Cardinality({i \in DOMAIN s.items : s.items[i] = v})

(* The counts are those of the slots and there is an empty slot.            *)
HashsetLayout ==
  /\ hset.n_deleted = Copies(hset, 1)
  /\ hset.nitems + hset.n_deleted + Copies(hset, 0) = hset.capacity
  /\ Copies(hset, 0) > 0
  /\ \A v \in Values : HashsetIsMember(hset, v) <=> Copies(hset, v) > 0

(* hashset_add() stores an absent value once, hashset_remove() takes away   *)
(* one copy, and neither touches another value's membership; what a second  *)
(* copy shows of hashset_add() is ZeroIfPresent.                            *)
HashsetCalls ==
  \A v \in Values :
    LET a == HashsetAdd(hset, v)
        r == HashsetRemove(hset, v)
    IN /\ a.ret = 1 \/ (a.ret = 0 /\ Copies(hset, v) > 0)
       /\ Copies(hset, v) = 0 => a.ret = 1 /\ Copies(a.set, v) = 1
       /\ r.ret = Copies(hset, v) - Copies(r.set, v)
       /\ r.ret = 0 <=> Copies(hset, v) = 0
       /\ Copies(a.set, 0) > 0
       /\ \A w \in Values : /\ HashsetIsMember(a.set, w) <=> HashsetIsMember(hset, w) \/ w = v
                            /\ w # v => Copies(r.set, w) = Copies(hset, w)

(* After any sequence of adds and removes, with rehashes between them: a    *)
(* value is found exactly when it is stored, in one slot or in two, a       *)
(* removal says whether it took a copy away, a 0 from an addition says      *)
(* that the value was there, and there is an empty slot for every lookup to *)
(* stop at, without which none of the loops would end.                      *)
HashsetSound == HashsetLayout /\ HashsetCalls

(* hashset.h:52: hashset_add() "returns zero if the item already in the set *)
(* and non-zero otherwise".                                                 *)
ZeroIfPresent == \A v \in Values : HashsetAdd(hset, v).ret = 0 <=> HashsetIsMember(hset, v)
=============================================================================
