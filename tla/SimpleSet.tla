----------------------------- MODULE SimpleSet -----------------------------
(***************************************************************************)
(* simple_set (src/src/thirdparty/hashset/set.c), the set of strings that  *)
(* keeps the watched paths, the subscribed paths and the server list: an   *)
(* array of node pointers with linear probing that doubles when more than  *)
(* a quarter of it is used and is laid out again after a removal.          *)
(* A node's key determines its hash, so a slot holds a key or NoKey.       *)
(***************************************************************************)
EXTENDS ContainerKeys

CONSTANTS
  InitialNodes,   \* INITIAL_NUM_ELEMENTS, scaled down
  MaxNodes,       \* bound: the array is not grown past this size
  Failing         \* bound: the keys whose additions in one loop find no memory

ASSUME SetAssumption ==
  /\ InitialNodes \in Nat /\ InitialNodes >= 2
  /\ MaxNodes \in Nat /\ MaxNodes >= InitialNodes
  /\ Failing \subseteq SUBSET Keys /\ {} \in Failing

VARIABLES
  set,            \* a SimpleSet: [nodes, number_nodes, used_nodes]
  other           \* a second one, for the set algebra

setVars == <<set, other>>

SET_TRUE == 0
SET_FALSE == -1
SET_MALLOC_ERROR == -2
SET_CIRCULAR_ERROR == -3
SET_ALREADY_PRESENT == 1

(* set_init_alt(): an empty array; set_clear() reallocates to the same. *)
EmptySet ==
  [nodes |-> [i \in 0..InitialNodes - 1 |-> NoKey],
   number_nodes |-> InitialNodes, used_nodes |-> 0]

(* set_clear(): when its realloc() fails the nodes are gone already and the *)
(* sizes stay.                                                              *)
SetCleared(s, oom) ==
  IF oom THEN [s EXCEPT !.nodes = [i \in DOMAIN @ |-> NoKey]] ELSE EmptySet

(* The j-th slot that a lookup of k visits, and where it stops: at a slot   *)
(* that is free or holds k.                                                 *)
ProbeAt(s, k, j) == (KeyHash[k] + j) % s.number_nodes

ProbeEnds(s, k) == {j \in 0..s.number_nodes - 1 : s.nodes[ProbeAt(s, k, j)] \in {NoKey, k}}

(* __get_index() *)
GetIndex(s, k) ==
  LET ends == ProbeEnds(s, k)
      i == ProbeAt(s, k, Min(ends))
  IN IF ends = {} THEN [ret |-> SET_CIRCULAR_ERROR, index |-> 0]
     ELSE [ret |-> IF s.nodes[i] = k THEN SET_TRUE ELSE SET_FALSE, index |-> i]

SetContains(s, k) == GetIndex(s, k).ret

(* One turn of the loop of __relayout_nodes(): node i moves to the slot its *)
(* lookup reaches.                                                          *)
MoveNode(s, i) ==
  LET k == s.nodes[i]
      to == GetIndex(s, k).index
  IN IF k = NoKey THEN s
     ELSE [s EXCEPT !.nodes = [@ EXCEPT ![i] = NoKey, ![to] = k]]

RelayoutPass(s) ==
  LET turn[i \in 0..s.number_nodes] ==
        IF i = 0 THEN s ELSE MoveNode(turn[i - 1], i - 1)
  IN turn[s.number_nodes]

(* Mutant: a single pass over the nodes. *)
RelayoutOnce(s) == RelayoutPass(s)

(* __relayout_nodes(): passes until no node moves. A move brings a node     *)
(* nearer to its own slot, so there are no more of them than this.          *)
Relayout(s) ==
  LET pass[n \in Nat] == IF n = 0 THEN s ELSE RelayoutPass(pass[n - 1])
  IN pass[CHOOSE n \in 0..s.number_nodes * s.number_nodes : pass[n + 1] = pass[n]]

(* Whether __set_add() doubles the array first (MAX_FULLNESS_PERCENT). *)
SetFull(s) == 4 * s.used_nodes > s.number_nodes

SetGrown(s) ==
  LET n == 2 * s.number_nodes
  IN Relayout([s EXCEPT !.number_nodes = n,
                        !.nodes = [i \in 0..n - 1 |->
                                     IF i \in DOMAIN @ THEN @[i] ELSE NoKey]])

(* __set_add() *)
SetAdd(s, k, oom) ==
  LET t == IF SetFull(s) THEN SetGrown(s) ELSE s
      g == GetIndex(t, k)
  IN IF SetContains(s, k) = SET_TRUE THEN [set |-> s, ret |-> SET_ALREADY_PRESENT]
     ELSE IF SetFull(s) /\ oom THEN [set |-> s, ret |-> SET_MALLOC_ERROR]
     ELSE IF g.ret # SET_FALSE THEN [set |-> t, ret |-> g.ret]
     ELSE [set |-> [t EXCEPT !.nodes[g.index] = k, !.used_nodes = @ + 1],
           ret |-> SET_TRUE]

(* set_remove() *)
SetRemove(s, k) ==
  LET g == GetIndex(s, k)
      t == Relayout([s EXCEPT !.nodes[g.index] = NoKey])
  IN IF g.ret # SET_TRUE THEN [set |-> s, ret |-> g.ret]
     ELSE [set |-> [t EXCEPT !.used_nodes = @ - 1], ret |-> SET_TRUE]

(* The loops of the set algebra: the nodes of s in array order, those in    *)
(* keep added to res. The result of __set_add() is not looked at: a key of  *)
(* fails is left out when the array would have to grow for it.              *)
AddAll(res, s, keep, fails) ==
  LET turn[i \in 0..s.number_nodes] ==
        IF i = 0 THEN res
        ELSE IF s.nodes[i - 1] \in keep
             THEN SetAdd(turn[i - 1], s.nodes[i - 1], s.nodes[i - 1] \in fails).set
        ELSE turn[i - 1]
  IN turn[s.number_nodes]

(* The keys that __set_contains() finds. *)
Contained(s) == {k \in Keys : SetContains(s, k) = SET_TRUE}

(* set_union() and its kin into a fresh set; all return SET_TRUE. *)
SetUnion(s1, s2, f, g) == AddAll(AddAll(EmptySet, s1, Keys, f), s2, Keys, g)

SetIntersection(s1, s2, f) == AddAll(EmptySet, s1, Contained(s2), f)

SetDifference(s1, s2, f) == AddAll(EmptySet, s1, Keys \ Contained(s2), f)

(* Mutant: what both sets have is kept. *)
SymmetricKeepsCommon(s1, s2, f, g) == SetUnion(s1, s2, f, g)

SetSymmetricDifference(s1, s2, f, g) ==
  AddAll(SetDifference(s1, s2, f), s2, Keys \ Contained(s1), g)

SetIsSubset(test, against) ==
  \A i \in DOMAIN test.nodes :
    test.nodes[i] = NoKey \/ SetContains(against, test.nodes[i]) # SET_FALSE

SetIsSubsetStrict(test, against) ==
  test.used_nodes < against.used_nodes /\ SetIsSubset(test, against)

----------------------------------------------------------------------------
(* The contents, and whether used_nodes counts them. *)
Elements(s) == {s.nodes[i] : i \in DOMAIN s.nodes} \ {NoKey}

Exact(s) == s.used_nodes = Cardinality(Elements(s))

SetInit == set = EmptySet /\ other = EmptySet

(* The bound: what an addition may double. *)
MayAdd(s) == SetFull(s) => 2 * s.number_nodes <= MaxNodes

SetAddAction == \E k \in Keys, oom \in BOOLEAN :
  MayAdd(set) /\ set' = SetAdd(set, k, oom).set /\ UNCHANGED other

SetRemoveAction == \E k \in Keys : set' = SetRemove(set, k).set /\ UNCHANGED other

SetClearAction == \E oom \in BOOLEAN : set' = SetCleared(set, oom) /\ UNCHANGED other

SetUnionAction == \E f, g \in Failing :
  set' = SetUnion(set, other, f, g) /\ UNCHANGED other

OtherAddAction == \E k \in Keys :
  MayAdd(other) /\ other' = SetAdd(other, k, FALSE).set /\ UNCHANGED set

SetNext ==
  SetAddAction \/ SetRemoveAction \/ SetClearAction \/ SetUnionAction \/ OtherAddAction

SetSpec == SetInit /\ [][SetNext]_setVars

----------------------------------------------------------------------------
(* The layout: every stored key is where its lookup ends and is stored      *)
(* once; the count is never below the number of keys (above it once a       *)
(* set_clear() has failed) and at most one over a quarter of the slots.     *)
SetLayout ==
  /\ Cardinality({i \in DOMAIN set.nodes : set.nodes[i] # NoKey}) = Cardinality(Elements(set))
  /\ \A k \in Keys : SetContains(set, k) = IF k \in Elements(set) THEN SET_TRUE ELSE SET_FALSE
  /\ Cardinality(Elements(set)) <= set.used_nodes
  /\ 4 * (set.used_nodes - 1) <= set.number_nodes

(* set_add() and set_remove() change the contents by exactly their key and  *)
(* say what they did; a failed one changes nothing.                         *)
SetCalls ==
  \A k \in Keys :
    /\ \A oom \in BOOLEAN :
         LET r == SetAdd(set, k, oom)
         IN /\ (r.ret = SET_ALREADY_PRESENT) <=> k \in Elements(set)
            /\ Elements(r.set) = IF r.ret = SET_TRUE THEN Elements(set) \cup {k} ELSE Elements(set)
            /\ r.ret \in {SET_TRUE, SET_ALREADY_PRESENT} \/ oom
    /\ LET r == SetRemove(set, k)
       IN /\ (r.ret = SET_TRUE) <=> k \in Elements(set)
          /\ Elements(r.set) = Elements(set) \ {k}

(* Whatever was added, removed, cleared and rehashed, every key is found    *)
(* where the probing left it and nothing else is, each call does what it    *)
(* reports, and a lookup always finds a free slot, so that                  *)
(* SET_CIRCULAR_ERROR is never returned.                                    *)
SetSound == SetLayout /\ SetCalls

IsBetween(low, s, high) == low \subseteq Elements(s) /\ Elements(s) \subseteq high

(* set_union(), set_intersection(), set_difference(),                       *)
(* set_symmetric_difference() and set_is_subset() are the operations of     *)
(* mathematics on the contents, in any layout of the operands; the strict   *)
(* subset too, unless a failed set_clear() has left a count too high. When  *)
(* memory runs out on the way they still return SET_TRUE, and leave out at  *)
(* most the keys whose additions failed: a key of both operands is in the   *)
(* union if either of its two additions found memory, and nothing is ever   *)
(* in a result that does not belong there.                                  *)
SetAlgebra ==
  LET a == Elements(set)
      b == Elements(other)
  IN /\ \A f, g \in Failing :
          /\ IsBetween((a \ f) \cup (b \ g), SetUnion(set, other, f, g), a \cup b)
          /\ IsBetween((a \cap b) \ f, SetIntersection(set, other, f), a \cap b)
          /\ IsBetween((a \ b) \ f, SetDifference(set, other, f), a \ b)
          /\ IsBetween((b \ a) \ f, SetDifference(other, set, f), b \ a)
          /\ IsBetween(((a \ b) \ f) \cup ((b \ a) \ g),
                     SetSymmetricDifference(set, other, f, g), (a \ b) \cup (b \ a))
     /\ SetIsSubset(set, other) <=> a \subseteq b
     /\ SetIsSubset(other, set) <=> b \subseteq a
     /\ Exact(set) /\ Exact(other) =>
          /\ SetIsSubsetStrict(set, other) <=> (a \subseteq b /\ a # b)
          /\ SetIsSubsetStrict(other, set) <=> (b \subseteq a /\ a # b)
=============================================================================
