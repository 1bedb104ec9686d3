------------------------------- MODULE RbTree -------------------------------
(***************************************************************************)
(* The red-black tree of tree.h (RB_GENERATE), which holds the sleeping    *)
(* and the waiting lthreads of a scheduler in the order of their wake-up   *)
(* times and of their descriptors.  Elements are their own keys.  The      *)
(* mirrored halves of the source are one definition with a direction.      *)
(***************************************************************************)
EXTENDS Integers, FiniteSets, FiniteSetsExt

CONSTANT Elems    \* the elements, as the integers that cmp compares

ASSUME RbAssumption == Elems \subseteq Nat \ {0} /\ IsFiniteSet(Elems)

VARIABLES
  rb,             \* the tree: [root, child, parent, red]
  inserted        \* the elements inserted and not removed since

rbVars == <<rb, inserted>>

Nil == 0

Sides == {"left", "right"}

Pointers == Elems \cup {Nil}

(* red is the set of the red elements; NULL counts as black. *)
Trees ==
  [root : Pointers, child : [Sides -> [Elems -> Pointers]],
   parent : [Elems -> Pointers], red : SUBSET Elems]

RbEmpty ==
  [root |-> Nil, child |-> [d \in Sides |-> [e \in Elems |-> Nil]],
   parent |-> [e \in Elems |-> Nil], red |-> {}]

Other(d) == IF d = "left" THEN "right" ELSE "left"

(* x comes before y in the direction d. *)
Before(d, x, y) == IF d = "left" THEN x < y ELSE y < x

(* Where the search for e goes from at. *)
Way(e, at) == IF e < at THEN "left" ELSE "right"

(* On which side of p the element hangs, as the source tests it. *)
Side(t, p, e) == IF t.child["left"][p] = e THEN "left" ELSE "right"

SetChild(t, d, e, c) == [t EXCEPT !.child[d][e] = c]

(* Guarded where the source asks first whether the pointer is NULL. *)
SetParent(t, e, p) == IF e = Nil THEN t ELSE [t EXCEPT !.parent[e] = p]

Paint(t, black, red) == [t EXCEPT !.red = (@ \ black) \cup red]

(* What pointed to `from`, its parent p or the head, points to `to`. *)
Replace(t, p, from, to) ==
  IF p = Nil THEN [t EXCEPT !.root = to] ELSE SetChild(t, Side(t, p, from), p, to)

(* m takes the place of e. *)
Rise(t, m, e) == SetParent(Replace(t, t.parent[e], e, m), m, t.parent[e])

(* Mutant: the parent of the child that changes sides is not set. *)
RotateNoParent(t, e, d) ==
  LET m == t.child[Other(d)][e]
      r == SetChild(t, Other(d), e, t.child[d][m])
  IN SetParent(SetChild(Rise(r, m, e), d, m, e), e, m)

(* RB_ROTATE_LEFT, RB_ROTATE_RIGHT *)
Rotate(t, e, d) ==
  LET m == t.child[Other(d)][e]
      r == SetParent(SetChild(t, Other(d), e, t.child[d][m]), t.child[d][m], e)
  IN SetParent(SetChild(Rise(r, m, e), d, m, e), e, m)

(* A while loop: step is one turn, and leaves a state in which the loop has *)
(* ended as it is. No loop over a tree takes more turns than there are      *)
(* elements.                                                                *)
Loop(step, x) ==
  LET turn[i \in 0..Cardinality(Elems)] == IF i = 0 THEN x ELSE step[turn[i - 1]]
  IN turn[Cardinality(Elems)]

(* A turn of RB_INSERT_COLOR: e is red, and so may be its parent. *)
InsertTurn(t, e) ==
  LET p == t.parent[e]
      g == t.parent[p]
      d == Side(t, g, p)
      uncle == t.child[Other(d)][g]
      inside == t.child[Other(d)][p] = e
      s == IF inside THEN Rotate(t, p, d) ELSE t
      top == IF inside THEN e ELSE p
      low == IF inside THEN p ELSE e
  IN IF ~(p \in t.red) THEN [t |-> t, e |-> e]
     ELSE IF uncle \in t.red THEN [t |-> Paint(t, {uncle, p}, {g}), e |-> g]
     ELSE [t |-> Rotate(Paint(s, {top}, {g}), g, Other(d)), e |-> low]

(* RB_INSERT_COLOR *)
InsertColor(t, e) ==
  LET end == Loop([v \in [t : Trees, e : Elems] |-> InsertTurn(v.t, v.e)], [t |-> t, e |-> e]).t
  IN Paint(end, {end.root}, {})

(* The last element on the way from at down to e, or e itself. *)
Descend(t, at, e) ==
  Loop([x \in Elems |-> LET next == t.child[Way(e, x)][x]
                        IN IF x = e \/ next = Nil THEN x ELSE next], at)

(* The element RB_INSERT is given, with RB_SET() and the link to it. *)
Link(t, p, e) ==
  LET s == [root |-> t.root, child |-> [d \in Sides |-> [t.child[d] EXCEPT ![e] = Nil]],
            parent |-> [t.parent EXCEPT ![e] = p], red |-> t.red \cup {e}]
  IN IF p = Nil THEN [s EXCEPT !.root = e] ELSE SetChild(s, Way(e, p), p, e)

(* RB_INSERT: an equal element that is in the tree is returned instead. *)
RbInsert(t, e) ==
  LET p == IF t.root = Nil THEN Nil ELSE Descend(t, t.root, e)
  IN IF p = e THEN [t |-> t, ret |-> e] ELSE [t |-> InsertColor(Link(t, p, e), e), ret |-> Nil]

(* A red sibling goes up, so that the side d of p has a black one. *)
BlackSibling(t, p, d) ==
  LET w == t.child[Other(d)][p]
  IN IF w \in t.red THEN Rotate(Paint(t, {w}, {p}), p, d) ELSE t

(* If the outer child of the sibling is black the inner one takes its place.*)
RedOutside(t, p, d) ==
  LET w == t.child[Other(d)][p]
  IN IF t.child[Other(d)][w] \in t.red THEN t
     ELSE Rotate(Paint(t, {t.child[d][w]}, {w}), w, Other(d))

(* The sibling w, whose outer child f is red, takes the colour of p. *)
Recolour(t, p, w, f) == Paint(t, {w, p, f}, IF p \in t.red THEN {w} ELSE {})

Finish(t, p, d) ==
  LET w == t.child[Other(d)][p]
  IN Rotate(Recolour(t, p, w, t.child[Other(d)][w]), p, d)

(* A turn of RB_REMOVE_COLOR: the side of e under p is one black short. *)
RemoveTurn(t, p, e) ==
  LET d == Side(t, p, e)
      s == BlackSibling(t, p, d)
      w == s.child[Other(d)][p]
      q == Finish(RedOutside(s, p, d), p, d)
  IN IF e \in t.red \/ e = t.root THEN [t |-> t, p |-> p, e |-> e]
     ELSE IF s.child["left"][w] \notin s.red /\ s.child["right"][w] \notin s.red
     THEN [t |-> Paint(s, {}, {w}), p |-> s.parent[p], e |-> p]
     ELSE [t |-> q, p |-> p, e |-> q.root]

(* RB_REMOVE_COLOR *)
RemoveColor(t, p, e) ==
  LET end == Loop([v \in [t : Trees, p : Pointers, e : Pointers] |-> RemoveTurn(v.t, v.p, v.e)],
                  [t |-> t, p |-> p, e |-> e])
  IN Paint(end.t, {end.e}, {})

(* The last element below e in the direction d: RB_MINMAX from e on. *)
Extreme(t, e, d) ==
  Loop([x \in Elems |-> IF t.child[d][x] = Nil THEN x ELSE t.child[d][x]], e)

RbMinMax(t, d) == IF t.root = Nil THEN Nil ELSE Extreme(t, t.root, d)

(* The one child of e, or NULL. *)
OnlyChild(t, e) ==
  IF t.child["left"][e] = Nil THEN t.child["right"][e] ELSE t.child["left"][e]

(* e with at most one child leaves its place to it. What RB_REMOVE leaves   *)
(* in the links and the colour of e is initialised before it is used again. *)
Unlink(t, e) ==
  LET s == Rise(t, OnlyChild(t, e), e)
  IN [root |-> s.root, child |-> [d \in Sides |-> [s.child[d] EXCEPT ![e] = Nil]],
      parent |-> [s.parent EXCEPT ![e] = Nil], red |-> s.red \ {e}]

(* e, which is in no tree, takes the place and the colour of old, which has *)
(* a left child.                                                            *)
TakePlace(t, e, old) ==
  LET s == [root |-> t.root,
            child |-> [d \in Sides |-> [t.child[d] EXCEPT ![e] = t.child[d][old], ![old] = Nil]],
            parent |-> [t.parent EXCEPT ![e] = t.parent[old], ![old] = Nil],
            red |-> IF old \in t.red THEN (t.red \ {old}) \cup {e} ELSE t.red]
  IN SetParent(SetParent(Replace(s, t.parent[old], old, e), t.child["left"][old], e),
               t.child["right"][old], e)

(* RB_REMOVE: an element with two children leaves its place to the next one.*)
RbRemove(t, old) ==
  LET inner == \A d \in Sides : t.child[d][old] # Nil
      e == IF inner THEN Extreme(t, t.child["right"][old], "left") ELSE old
      p == IF inner /\ t.parent[e] = old THEN e ELSE t.parent[e]
      s == IF inner THEN TakePlace(Unlink(t, e), e, old) ELSE Unlink(t, e)
  IN IF e \in t.red THEN s ELSE RemoveColor(s, p, OnlyChild(t, e))

(* RB_FIND *)
RbFind(t, e) == IF t.root # Nil /\ Descend(t, t.root, e) = e THEN e ELSE Nil

(* RB_NFIND: res is the last element at which the search went left. *)
RbNFind(t, e) ==
  LET end == Loop([v \in [at : Pointers, res : Pointers] |->
                     IF v.at \in {Nil, e} THEN v
                     ELSE [at |-> t.child[Way(e, v.at)][v.at],
                           res |-> IF e < v.at THEN v.at ELSE v.res]],
                  [at |-> t.root, res |-> Nil])
  IN IF end.at = Nil THEN end.res ELSE end.at

(* Up from e past every parent on whose d side it hangs. *)
Climb(t, e, d) ==
  t.parent[Loop([x \in Elems |->
                   IF t.parent[x] # Nil /\ t.child[d][t.parent[x]] = x THEN t.parent[x] ELSE x], e)]

(* RB_NEXT (d = "right") and RB_PREV (d = "left") *)
RbStep(t, e, d) ==
  IF t.child[d][e] # Nil THEN Extreme(t, t.child[d][e], Other(d)) ELSE Climb(t, e, d)

----------------------------------------------------------------------------
RbInit == rb = RbEmpty /\ inserted = {}

RbInsertAction == \E e \in Elems :
  rb' = RbInsert(rb, e).t /\ inserted' = inserted \cup {e}

RbRemoveAction == \E e \in inserted :
  rb' = RbRemove(rb, e) /\ inserted' = inserted \ {e}

RbNext == RbInsertAction \/ RbRemoveAction

RbSpec == RbInit /\ [][RbNext]_rbVars

----------------------------------------------------------------------------
(* For each element it and those that hang below it. *)
Under(t) ==
  LET under[x \in Pointers] ==
        IF x = Nil THEN {}
        ELSE {x} \cup under[t.child["left"][x]] \cup under[t.child["right"][x]]
  IN under

(* For each element the black ones on its leftmost way down. *)
Blacks(t) ==
  LET blacks[x \in Pointers] ==
        IF x = Nil THEN 0
        ELSE blacks[t.child["left"][x]] + (IF x \in t.red THEN 0 ELSE 1)
  IN blacks

(* The tree is in order, every link down has its link up, no red element    *)
(* has a red child and every way down is equally black.                     *)
RbShape ==
  LET under == Under(rb)
      blacks == Blacks(rb)
  IN /\ under[rb.root] = inserted
     /\ rb.root # Nil => rb.root \notin rb.red /\ rb.parent[rb.root] = Nil
     /\ \A e \in inserted : \A d \in Sides :
          LET c == rb.child[d][e]
          IN /\ \A x \in under[c] : Before(d, x, e)
             /\ c # Nil => rb.parent[c] = e /\ ~(e \in rb.red /\ c \in rb.red)
             /\ blacks[c] = blacks[rb.child[Other(d)][e]]

(* What the scheduler asks of the trees is right in each of them: RB_MIN is *)
(* the lthread that sleeps the shortest, RB_FIND finds what is there and    *)
(* nothing else, RB_NFIND the next one from a key on, RB_NEXT and RB_PREV   *)
(* the neighbours in order.                                                 *)
RbSearch ==
  LET NextFrom(S) == IF S = {} THEN Nil ELSE Min(S)
      PrevFrom(S) == IF S = {} THEN Nil ELSE Max(S)
  IN /\ RbMinMax(rb, "left") = NextFrom(inserted)
     /\ RbMinMax(rb, "right") = PrevFrom(inserted)
     /\ \A e \in Elems :
          /\ RbFind(rb, e) = IF e \in inserted THEN e ELSE Nil
          /\ RbNFind(rb, e) = NextFrom({x \in inserted : x >= e})
          /\ e \in inserted => /\ RbStep(rb, e, "right") = NextFrom({x \in inserted : x > e})
                               /\ RbStep(rb, e, "left") = PrevFrom({x \in inserted : x < e})

(* After any insertions and removals the tree holds exactly the elements    *)
(* inserted and not removed, no way down is more than twice as long as      *)
(* another, and what the scheduler asks of it, the first, the next and the  *)
(* one with a key, is answered rightly.                                     *)
RbBalanced == RbShape /\ RbSearch
=============================================================================
