------------------------------ MODULE HashMap ------------------------------
(***************************************************************************)
(* hashmap (src/src/thirdparty/hashmap/hashmap.c): rows of doubly linked   *)
(* nodes, a count, and one cursor for findfirst/findnext that already      *)
(* stands on the node after the one returned, so that the caller may       *)
(* remove the node it was given.                                           *)
(* Keys are unique in the table, so a node is named by its key; the links  *)
(* of a freed node are forgotten.                                          *)
(***************************************************************************)
EXTENDS ContainerKeys, PrimeTable

CONSTANTS
  Data,           \* what the callers store
  RowArgs,        \* the nrows arguments of hashmap_new()
  Splay           \* hashmap_splaymode()

ASSUME HashmapAssumption ==
  /\ RowArgs \subseteq Int
  /\ \A n \in RowArgs : n > 0 => NearestPrime(n) \in Nat
  /\ Data # {} /\ Splay \in BOOLEAN

VARIABLES
  hm,             \* the hashmap_t and its nodes
  walk            \* an iteration of the caller: [on, last, seen]

hmVars == <<hm, walk>>

(* hashmap_new(): a positive size becomes a prime, a negative one is taken  *)
(* as it is; hash_fcn_new() divides by the result.                          *)
Rows(n) == IF n > 0 THEN NearestPrime(n) ELSE -n

HashmapNew(n) ==
  [nrows |-> Rows(n), table |-> [r \in 0..Rows(n) - 1 |-> NoKey],
   next |-> [k \in {} |-> NoKey], prev |-> [k \in {} |-> NoKey],
   data |-> [k \in {} |-> NoKey], count |-> 0, crow |-> 0, cnode |-> NoKey]

Nodes(t) == DOMAIN t.next

Row(t, k) == KeyHash[k] % t.nrows

(* A walk that starts with from and goes from each node to the one that     *)
(* after names comes to k: k is in whatever holds from and keeps the walk.  *)
Meets(after, from, k) ==
  \A S \in SUBSET (Keys \cup {NoKey}) :
    from \in S /\ (\A n \in S \cap DOMAIN after : after[n] \in S) => k \in S

(* The loops over a row that compare the key of each node. *)
Found(t, k) == Meets(t.next, t.table[Row(t, k)], k)

With(f, k, v) == [n \in DOMAIN f \cup {k} |-> IF n = k THEN v ELSE f[n]]

Without(f, k) == [n \in DOMAIN f \ {k} |-> f[n]]

Relink(f, from, to) == [k \in DOMAIN f |-> IF from # NoKey /\ k = from THEN to ELSE f[k]]

(* Mutant: the old head keeps its NULL prev. *)
AddHeadNoPrev(t, k, d) ==
  LET head == t.table[Row(t, k)]
  IN [t EXCEPT !.next = With(@, k, head), !.prev = With(@, k, NoKey),
               !.data = With(@, k, d), !.table[Row(t, k)] = k, !.count = @ + 1]

(* The new node of hashmap_add() goes to the head of its row. *)
AddHead(t, k, d) ==
  LET head == t.table[Row(t, k)]
  IN [t EXCEPT !.next = With(@, k, head), !.prev = With(Relink(@, head, k), k, NoKey),
               !.data = With(@, k, d), !.table[Row(t, k)] = k, !.count = @ + 1]

(* hashmap_add(): a key in the table leaves the cursor on its node. *)
HashmapAdd(t, k, d, oom) ==
  IF Found(t, k) THEN [t |-> [t EXCEPT !.cnode = k], ret |-> "INTABLE"]
  ELSE IF oom THEN [t |-> t, ret |-> "NOMEM"]
  ELSE [t |-> AddHead(t, k, d), ret |-> "OK"]

(* movetofront(): the node is linked before the head, which stays the head. *)
MoveToFront(t, k) ==
  LET head == t.table[Row(t, k)]
  IN IF head = k THEN t
     ELSE [t EXCEPT
             !.next = [Relink(@, t.prev[k], t.next[k]) EXCEPT ![k] = head],
             !.prev = [Relink(Relink(@, t.next[k], t.prev[k]), head, k) EXCEPT ![k] = NoKey]]

(* hashmap_find_node() *)
HashmapFind(t, k) ==
  IF ~Found(t, k) THEN [t |-> t, node |-> NoKey]
  ELSE [t |-> IF Splay THEN MoveToFront(t, k) ELSE t, node |-> k]

(* The node that takes the place of k: the first one is taken from its row, *)
(* any other from between its neighbours.                                   *)
Successor(t, k) == IF t.prev[k] = NoKey THEN t.next[t.table[Row(t, k)]] ELSE t.next[k]

(* Mutant: the next node keeps its prev link to the node that is freed. *)
FreeNodeKeepsPrev(t, k) ==
  [t EXCEPT
     !.next = Without(Relink(@, t.prev[k], Successor(t, k)), k),
     !.prev = Without(@, k), !.data = Without(@, k),
     !.table[Row(t, k)] = IF t.prev[k] = NoKey THEN Successor(t, k) ELSE @,
     !.count = @ - 1]

(* hashmap_free_node(); the cursor is left where it is. *)
FreeNode(t, k) ==
  [t EXCEPT
     !.next = Without(Relink(@, t.prev[k], Successor(t, k)), k),
     !.prev = Without(Relink(@, Successor(t, k), t.prev[k]), k),
     !.data = Without(@, k),
     !.table[Row(t, k)] = IF t.prev[k] = NoKey THEN Successor(t, k) ELSE @,
     !.count = @ - 1]

HashmapRemove(t, k) ==
  IF Found(t, k) THEN [t |-> FreeNode(t, k), ret |-> "OK"] ELSE [t |-> t, ret |-> "ERR"]

(* The cursor on the first node of the first row from r on that has one. *)
FromRow(t, r) ==
  LET full == {q \in r..t.nrows - 1 : t.table[q] # NoKey}
  IN IF full = {} THEN [t EXCEPT !.crow = t.nrows, !.cnode = NoKey]
     ELSE [t EXCEPT !.crow = Min(full), !.cnode = t.table[Min(full)]]

(* Mutant: the search for the next row starts with the current one. *)
NextSameRow(t) ==
  IF t.cnode = NoKey THEN t
  ELSE IF t.next[t.cnode] # NoKey THEN [t EXCEPT !.cnode = t.next[t.cnode]]
  ELSE FromRow(t, t.crow)

(* hashmap_next() *)
HashmapNext(t) ==
  IF t.cnode = NoKey THEN t
  ELSE IF t.next[t.cnode] # NoKey THEN [t EXCEPT !.cnode = t.next[t.cnode]]
  ELSE FromRow(t, t.crow + 1)

(* hashmap_findnext(); hashmap_findfirst() is the same from the first row. *)
FindNext(t) == [t |-> HashmapNext(t), node |-> t.cnode]

FindFirst(t) == FindNext(FromRow(t, 0))

----------------------------------------------------------------------------
NoWalk == [on |-> FALSE, last |-> NoKey, seen |-> {}]

HmInit ==
  /\ \E n \in RowArgs : Rows(n) # 0 /\ hm = HashmapNew(n)
  /\ walk = NoWalk

HmAdd == \E k \in Keys, d \in Data, oom \in BOOLEAN :
  /\ ~walk.on
  /\ hm' = HashmapAdd(hm, k, d, oom).t
  /\ UNCHANGED walk

HmFind == \E k \in Keys : hm' = HashmapFind(hm, k).t /\ UNCHANGED walk

(* Within an iteration the callers remove the node they were given. *)
HmRemove == \E k \in Keys :
  /\ walk.on => k = walk.last
  /\ hm' = HashmapRemove(hm, k).t
  /\ UNCHANGED walk

Walked(r, seen) ==
  /\ hm' = r.t
  /\ walk' = IF r.node = NoKey THEN NoWalk
             ELSE [on |-> TRUE, last |-> r.node, seen |-> seen \cup {r.node}]

HmFindFirst == Walked(FindFirst(hm), {})

HmFindNext == walk.on /\ Walked(FindNext(hm), walk.seen)

HmStop == walk.on /\ walk' = NoWalk /\ UNCHANGED hm

HmNext == HmAdd \/ HmFind \/ HmRemove \/ HmFindFirst \/ HmFindNext \/ HmStop

HmSpec == HmInit /\ [][HmNext]_hmVars

----------------------------------------------------------------------------
(* From the head of a row the next links lead to the nodes of that row and  *)
(* no others, and to an end; prev undoes next; and the count is the number  *)
(* of nodes.                                                                *)
HashmapChains ==
  /\ \A r \in DOMAIN hm.table :
       /\ \A k \in Keys \cup {NoKey} :
            Meets(hm.next, hm.table[r], k) <=> k = NoKey \/ (k \in Nodes(hm) /\ Row(hm, k) = r)
       /\ hm.table[r] # NoKey => hm.prev[hm.table[r]] = NoKey
  /\ \A k \in Nodes(hm) : hm.next[k] # NoKey => hm.prev[hm.next[k]] = k
  /\ hm.count = Cardinality(Nodes(hm))

(* Where the cursor goes from each node. *)
After(t) ==
  [k \in Nodes(t) |-> HashmapNext([t EXCEPT !.crow = Row(t, k), !.cnode = k]).cnode]

(* An iteration returns every node once, also when its caller removes the   *)
(* nodes it is given: the cursor never stands on a freed node, what is      *)
(* ahead of it is what has not been returned yet, and it comes to an end.   *)
HashmapWalk ==
  walk.on =>
    /\ hm.cnode \in Nodes(hm) \cup {NoKey}
    /\ hm.cnode # NoKey => hm.crow = Row(hm, hm.cnode)
    /\ \A k \in Keys \cup {NoKey} :
         Meets(After(hm), hm.cnode, k) <=> k \in (Nodes(hm) \ walk.seen) \cup {NoKey}

(* A lookup, an add and a removal of any key do to the contents what their  *)
(* results say: an add never replaces data, a removal of a present key      *)
(* succeeds and takes only that key.                                        *)
HashmapCalls ==
  \A k \in Keys :
    LET f == HashmapFind(hm, k)
        r == HashmapRemove(hm, k)
    IN /\ (f.node = k) <=> k \in Nodes(hm)
       /\ f.t.data = hm.data
       /\ r.t.data = Without(hm.data, k)
       /\ (r.ret = "OK") <=> k \in Nodes(hm)
       /\ \A d \in Data :
            LET a == HashmapAdd(hm, k, d, FALSE)
            IN a.t.data = IF k \in Nodes(hm) THEN hm.data ELSE With(hm.data, k, d)

(* No add or remove loses a node or leaves a link to a freed one, so that   *)
(* hashmap_delete(), which follows the chains, frees them all, and every    *)
(* call does to the contents what its result says.                          *)
HashmapLinked == HashmapChains /\ HashmapCalls
=============================================================================
