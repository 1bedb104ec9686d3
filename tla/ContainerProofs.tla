-------------------------- MODULE ContainerProofs --------------------------
(***************************************************************************)
(* Proofs about the containers that move what they hold while it is held:  *)
(* the red-black trees of the scheduler, and the hash tables of the fds     *)
(* that several lthreads wait for.                                         *)
(***************************************************************************)
EXTENDS RbTree, CfuHash, SequenceTheorems, FiniteSetTheorems, NaturalsInduction,
  WellFoundedInduction, TLAPS

(* A non-empty set of natural numbers has a least one.                     *)
LEMMA LeastOf ==
  ASSUME NEW S, S \subseteq Nat, S # {}
  PROVE  Min(S) \in S /\ \A n \in S : Min(S) <= n
<1>1. IsWellFoundedOn(OpToRel(<, Nat), Nat)
  BY NatLessThanWellFounded
<1>2. PICK m \in S : \A n \in S : ~(<<n, m>> \in OpToRel(<, Nat))
  BY <1>1, WFMin
<1>3. \A n \in S : ~(n < m)
  BY <1>2 DEF OpToRel
<1>4. \A n \in S : m <= n
  BY <1>3
<1>5. QED
  BY <1>4 DEF Min

(* Induction, said of a set of numbers. *)
LEMMA AllNat ==
  ASSUME NEW Q \in SUBSET Nat, 0 \in Q, \A n \in Q : n + 1 \in Q
  PROVE  Q = Nat
<1>1. SUFFICES ASSUME Nat \ Q # {}
               PROVE  FALSE
  OBVIOUS
<1> DEFINE m == Min(Nat \ Q)
<1>2. m \in Nat \ Q /\ \A y \in Nat \ Q : m <= y
  BY <1>1, LeastOf
<1> HIDE DEF m
<1>3. m # 0 /\ m - 1 \in Nat /\ m - 1 \in Q
  BY <1>2
<1>4. QED
  BY <1>2, <1>3

(* The states of a loop that starts with x, where step takes the number of  *)
(* a turn and the state before it to the state after it.                    *)
Turns(S, step) == \A i \in Nat, y \in S : step[<<i, y>>] \in S

LoopStates(S, x, step) ==
  {f \in [Nat -> S] : f[0] = x /\ \A i \in Nat : f[i + 1] = step[<<i, f[i]>>]}

(* A loop whose turns stay in S has a state after each of them.             *)
LEMMA LoopRuns ==
  ASSUME NEW S, NEW x \in S, NEW step, Turns(S, step)
  PROVE  LoopStates(S, x, step) # {}
<1> USE DEF Turns, LoopStates
<1> DEFINE Runs(n) == {g \in [0..n -> S] : g[0] = x /\ \A i \in 0..n - 1 : g[i + 1] = step[<<i, g[i]>>]}
           Q == {n \in Nat : Runs(n) # {}}
<1>1. 0 \in Q
  <2>1. [i \in 0..0 |-> x] \in Runs(0)
    OBVIOUS
  <2>2. QED
    BY <2>1
<1>2. ASSUME NEW n \in Q
      PROVE  n + 1 \in Q
  <2>1. PICK g \in Runs(n) : TRUE
    OBVIOUS
  <2> DEFINE h == [i \in 0..n + 1 |-> IF i <= n THEN g[i] ELSE step[<<n, g[n]>>]]
  <2>2. n \in Nat /\ g \in [0..n -> S] /\ g[0] = x /\ \A i \in 0..n - 1 : g[i + 1] = step[<<i, g[i]>>]
    OBVIOUS
  <2>3. g[n] \in S /\ step[<<n, g[n]>>] \in S
    BY <2>2
  <2>4. h \in [0..n + 1 -> S]
    BY <2>2, <2>3
  <2>5. h[0] = x
    BY <2>2
  <2>6. ASSUME NEW i \in 0..n + 1 - 1
        PROVE  h[i + 1] = step[<<i, h[i]>>]
    <3>1. CASE i < n
      <4>1. i + 1 \in 0..n + 1 /\ i + 1 <= n /\ i \in 0..n + 1 /\ i <= n /\ i \in 0..n - 1
        BY <2>2, <3>1
      <4>2. QED
        BY <2>2, <4>1
    <3>2. CASE i = n
      <4>1. i + 1 \in 0..n + 1 /\ ~(i + 1 <= n) /\ i \in 0..n + 1 /\ i <= n
        BY <2>2, <3>2
      <4>2. QED
        BY <3>2, <4>1
    <3>3. QED
      BY <2>2, <3>1, <3>2
  <2> HIDE DEF h
  <2>7. h \in Runs(n + 1)
    BY <2>4, <2>5, <2>6
  <2>8. QED
    BY <2>2, <2>7
<1>3. Q = Nat
  <2> HIDE DEF Q
  <2>1. Q \in SUBSET Nat
    BY DEF Q
  <2>2. QED
    BY <1>1, <1>2, <2>1, AllNat
<1>4. \A n \in Nat : Runs(n) # {}
  BY <1>3
<1> DEFINE run(n) == CHOOSE g : g \in Runs(n)
<1>5. \A n \in Nat : run(n) \in Runs(n)
  BY <1>4
<1>6. ASSUME NEW n \in Nat, NEW m \in Nat, n <= m
      PROVE  run(n)[n] = run(m)[n]
  <2> DEFINE R == {i \in Nat : i <= n => run(n)[i] = run(m)[i]}
  <2> HIDE DEF run
  <2>1. run(n) \in Runs(n) /\ run(m) \in Runs(m)
    BY <1>5
  <2>2. 0 \in R
    BY <2>1
  <2>3. ASSUME NEW i \in R
        PROVE  i + 1 \in R
    <3>1. CASE i + 1 <= n
      <4>1. i \in 0..n - 1 /\ i \in 0..m - 1 /\ run(n)[i] = run(m)[i]
        BY <1>6, <3>1
      <4>2. run(n)[i + 1] = step[<<i, run(n)[i]>>] /\ run(m)[i + 1] = step[<<i, run(m)[i]>>]
        BY <2>1, <4>1
      <4>3. QED
        BY <4>1, <4>2
    <3>2. QED
      BY <3>1
  <2>4. R = Nat
    <3> HIDE DEF R
    <3>1. R \in SUBSET Nat
      BY DEF R
    <3>2. QED
      BY <2>2, <2>3, <3>1, AllNat
  <2>5. QED
    BY <2>4
<1> DEFINE f == [n \in Nat |-> run(n)[n]]
<1> HIDE DEF run
<1>7. \A n \in Nat : run(n)[n] \in S
  BY <1>5
<1>8. f \in [Nat -> S]
  BY <1>7
<1>9. f[0] = x
  <2>1. run(0) \in Runs(0)
    BY <1>5
  <2>2. QED
    BY <2>1
<1>10. ASSUME NEW i \in Nat
       PROVE  f[i + 1] = step[<<i, f[i]>>]
  <2>1. run(i + 1) \in Runs(i + 1) /\ i \in 0..i + 1 - 1
    BY <1>5
  <2>2. run(i + 1)[i + 1] = step[<<i, run(i + 1)[i]>>]
    BY <2>1
  <2>3. run(i)[i] = run(i + 1)[i]
    BY <1>6
  <2>4. QED
    BY <2>2, <2>3
<1>11. QED
  BY <1>8, <1>9, <1>10

(* The same loop with turns 0 to n - 1.                                     *)
TurnsTo(n, S, step) == \A i \in 0..n - 1, y \in S : step[<<i, y>>] \in S

LoopStatesTo(n, S, x, step) ==
  {f \in [0..n -> S] : f[0] = x /\ \A i \in 0..n - 1 : f[i + 1] = step[<<i, f[i]>>]}

LEMMA LoopRunsTo ==
  ASSUME NEW n \in Nat, NEW S, NEW x \in S, NEW step, TurnsTo(n, S, step)
  PROVE  LoopStatesTo(n, S, x, step) # {}
<1> USE DEF TurnsTo, LoopStatesTo
<1> DEFINE all == [p \in Nat \X S |-> IF p[1] < n THEN step[p] ELSE p[2]]
<1>1. \A i \in Nat, y \in S : all[<<i, y>>] = IF i < n THEN step[<<i, y>>] ELSE y
  OBVIOUS
<1>2. \A i \in Nat, y \in S : all[<<i, y>>] \in S
  <2>1. SUFFICES ASSUME NEW i \in Nat, NEW y \in S, i < n
                 PROVE  step[<<i, y>>] \in S
    BY <1>1
  <2>2. i \in 0..n - 1
    BY <2>1
  <2>3. QED
    BY <2>2
<1> HIDE DEF all
<1>3. Turns(S, all)
  BY <1>2 DEF Turns
<1>4. PICK h \in LoopStates(S, x, all) : TRUE
  BY <1>3, LoopRuns
<1>5. h \in [Nat -> S] /\ h[0] = x /\ \A i \in Nat : h[i + 1] = all[<<i, h[i]>>]
  BY <1>4 DEF LoopStates
<1> DEFINE f == [i \in 0..n |-> h[i]]
<1>6. f \in [0..n -> S] /\ f[0] = x
  BY <1>5
<1>7. ASSUME NEW i \in 0..n - 1
      PROVE  f[i + 1] = step[<<i, f[i]>>]
  <2>1. i \in Nat /\ i + 1 \in 0..n /\ i \in 0..n /\ i < n
    OBVIOUS
  <2>2. h[i + 1] = all[<<i, h[i]>>] /\ h[i] \in S
    BY <1>5, <2>1
  <2>3. QED
    BY <1>1, <2>1, <2>2
<1> HIDE DEF f
<1>8. QED
  BY <1>6, <1>7

(* Two loops that start alike and whose turns are alike are alike.          *)
SameTurns(n, f, g) == g[0] = f[0] /\ \A i \in 0..n - 1 : g[i] = f[i] => g[i + 1] = f[i + 1]

LEMMA SameLoop ==
  ASSUME NEW n \in Nat, NEW f, NEW g, SameTurns(n, f, g)
  PROVE  \A i \in 0..n : g[i] = f[i]
<1> USE DEF SameTurns
<1> DEFINE Q == {i \in Nat : i <= n => g[i] = f[i]}
<1>1. 0 \in Q
  OBVIOUS
<1>2. ASSUME NEW i \in Q
      PROVE  i + 1 \in Q
  <2>1. SUFFICES ASSUME i + 1 <= n
                 PROVE  g[i + 1] = f[i + 1]
    OBVIOUS
  <2>2. i \in 0..n - 1 /\ g[i] = f[i]
    BY <2>1
  <2>3. QED
    BY <2>2
<1>3. Q = Nat
  <2> HIDE DEF Q
  <2>1. Q \in SUBSET Nat
    BY DEF Q
  <2>2. QED
    BY <1>1, <1>2, <2>1, AllNat
<1>4. QED
  BY <1>3

----------------------------------------------------------------------------
(* A loop of the tree: what its first state has and every turn keeps, its  *)
(* last state has.                                                         *)
LoopKeeps(step, V, Q) ==
  \A i \in 0..Cardinality(Elems) - 1, v \in V : <<i, v>> \in Q => <<i + 1, step[v]>> \in Q

LEMMA LoopEnds ==
  ASSUME NEW V, NEW Q \in SUBSET (Nat \X V), NEW step, NEW x, <<0, x>> \in Q, LoopKeeps(step, V, Q)
  PROVE  <<Cardinality(Elems), Loop(step, x)>> \in Q
<1> DEFINE n == Cardinality(Elems)
           all == [p \in (0..n - 1) \X V |-> IF <<p[1] + 1, step[p[2]]>> \in Q THEN step[p[2]] ELSE p[2]]
<1>1. n \in Nat
  BY RbAssumption, FS_CardinalityType
<1>2. x \in V /\ \A i \in Nat : \A v : <<i, v>> \in Q => v \in V
  OBVIOUS
<1>3. \A i \in 0..n - 1, v \in V : <<i, v>> \in Q => <<i + 1, step[v]>> \in Q
  BY DEF LoopKeeps
<1> HIDE DEF n
<1>4. \A i \in 0..n - 1, v \in V :
        all[<<i, v>>] = IF <<i + 1, step[v]>> \in Q THEN step[v] ELSE v
  OBVIOUS
<1> HIDE DEF all
<1>5. TurnsTo(n, V, all)
  <2>1. SUFFICES ASSUME NEW i \in 0..n - 1, NEW v \in V
                 PROVE  all[<<i, v>>] \in V
    BY DEF TurnsTo
  <2>2. i + 1 \in Nat
    BY <1>1
  <2>3. QED
    BY <1>2, <1>4, <2>2
<1>6. PICK f \in LoopStatesTo(n, V, x, all) : TRUE
  BY <1>1, <1>2, <1>5, LoopRunsTo
<1>7. f \in [0..n -> V] /\ f[0] = x /\ \A i \in 0..n - 1 : f[i + 1] = all[<<i, f[i]>>]
  BY <1>6 DEF LoopStatesTo
<1>8. ASSUME NEW i \in 0..n - 1, <<i, f[i]>> \in Q
      PROVE  f[i + 1] = step[f[i]] /\ <<i + 1, f[i + 1]>> \in Q
  <2>1. f[i] \in V
    BY <1>1, <1>7
  <2>2. <<i + 1, step[f[i]]>> \in Q
    BY <1>3, <1>8, <2>1
  <2>3. QED
    BY <1>4, <1>7, <2>1, <2>2
<1> DEFINE R == {i \in Nat : i <= n => <<i, f[i]>> \in Q}
<1>9. 0 \in R
  BY <1>7
<1>10. ASSUME NEW i \in R
       PROVE  i + 1 \in R
  <2>1. SUFFICES ASSUME i + 1 <= n
                 PROVE  <<i + 1, f[i + 1]>> \in Q
    OBVIOUS
  <2>2. i \in 0..n - 1 /\ <<i, f[i]>> \in Q
    BY <1>1, <2>1
  <2>3. QED
    BY <1>8, <2>2
<1>11. R = Nat
  <2> HIDE DEF R
  <2>1. R \in SUBSET Nat
    BY DEF R
  <2>2. QED
    BY <1>9, <1>10, <2>1, AllNat
<1>12. \A i \in 0..n : <<i, f[i]>> \in Q
  BY <1>11
<1> HIDE DEF R
<1> DEFINE Turn(g) == g = [i \in 0..n |-> IF i = 0 THEN x ELSE step[g[i - 1]]]
           turn == CHOOSE g : Turn(g)
<1>13. \A i \in 0..n : i # 0 => i - 1 \in 0..n - 1 /\ (i - 1) + 1 = i
  BY <1>1
<1>14. Turn(f)
  <2>1. ASSUME NEW i \in 0..n, i # 0
        PROVE  f[i] = step[f[i - 1]]
    <3>1. i - 1 \in 0..n - 1 /\ (i - 1) + 1 = i /\ i - 1 \in 0..n
      BY <1>1, <2>1
    <3>2. f[(i - 1) + 1] = step[f[i - 1]]
      BY <1>8, <1>12, <3>1
    <3>3. QED
      BY <3>1, <3>2
  <2>2. QED
    BY <1>7, <2>1
<1>15. Turn(turn)
  <2> HIDE DEF Turn
  <2>1. QED
    BY <1>14
<1>16. Loop(step, x) = turn[n]
  BY DEF Loop, n
<1> HIDE DEF turn
<1>17. turn[0] = x /\ \A i \in 0..n - 1 : turn[i + 1] = step[turn[i]]
  <2>1. \A i \in 0..n : turn[i] = IF i = 0 THEN x ELSE step[turn[i - 1]]
    BY <1>15
  <2>2. ASSUME NEW i \in 0..n - 1
        PROVE  turn[i + 1] = step[turn[i]]
    <3>1. i + 1 \in 0..n /\ i + 1 # 0 /\ (i + 1) - 1 = i
      BY <1>1
    <3>2. turn[i + 1] = step[turn[(i + 1) - 1]]
      BY <2>1, <3>1
    <3>3. QED
      BY <3>1, <3>2
  <2>3. QED
    BY <1>1, <2>1, <2>2
<1>18. SameTurns(n, f, turn)
  <2>1. \A i \in 0..n - 1 : turn[i] = f[i] => turn[i + 1] = f[i + 1]
    <3>1. \A i \in 0..n - 1 : <<i, f[i]>> \in Q
      BY <1>1, <1>12
    <3>2. QED
      BY <1>8, <1>17, <3>1
  <2>2. QED
    BY <1>7, <1>17, <2>1 DEF SameTurns
<1>19. turn[n] = f[n]
  <2>1. \A i \in 0..n : turn[i] = f[i]
    BY <1>1, <1>18, SameLoop
  <2>2. QED
    BY <1>1, <2>1
<1>20. QED
  BY <1>1, <1>12, <1>16, <1>19 DEF n

----------------------------------------------------------------------------
(* Sides, the order of the elements, and what an assignment changes. *)

LEMMA SidesAre ==
  \A d \in Sides : /\ Other(d) \in Sides /\ Other(d) # d /\ Other(Other(d)) = d
                   /\ \A c \in Sides : c = d \/ c = Other(d)
BY DEF Sides, Other

LEMMA ElemsAre == Elems \subseteq Nat /\ Nil \notin Elems /\ Elems \subseteq Pointers /\ Nil \in Pointers
                  /\ \A x \in Pointers : x # Nil => x \in Elems
BY RbAssumption DEF Nil, Pointers

LEMMA BeforeIs ==
  ASSUME NEW d \in Sides
  PROVE  \A x, y \in Elems :
           /\ ~Before(d, x, x)
           /\ Before(d, x, y) <=> Before(Other(d), y, x)
           /\ x # y => Before(d, x, y) \/ Before(Other(d), x, y)
           /\ ~(Before(d, x, y) /\ Before(Other(d), x, y))
           /\ \A z \in Elems : Before(d, x, y) /\ Before(d, y, z) => Before(d, x, z)
<1>1. Elems \subseteq Nat
  BY ElemsAre
<1>2. CASE d = "left"
  BY <1>1, <1>2 DEF Before, Other
<1>3. CASE d = "right"
  BY <1>1, <1>3 DEF Before, Other
<1>4. QED
  BY <1>2, <1>3 DEF Sides

LEMMA WayIs ==
  ASSUME NEW e \in Elems, NEW x \in Elems, e # x
  PROVE  Way(e, x) \in Sides /\ Before(Way(e, x), e, x)
BY ElemsAre DEF Way, Before, Sides

LEMMA TreeParts ==
  ASSUME NEW t \in Trees
  PROVE  /\ t.root \in Pointers /\ t.red \in SUBSET Elems
         /\ \A e \in Elems : t.parent[e] \in Pointers /\ \A d \in Sides : t.child[d][e] \in Pointers
BY DEF Trees

LEMMA SetChildIs ==
  ASSUME NEW t \in Trees, NEW d \in Sides, NEW e \in Elems, NEW c \in Pointers
  PROVE  LET u == SetChild(t, d, e, c)
         IN /\ u \in Trees /\ u.root = t.root /\ u.red = t.red /\ u.parent = t.parent
            /\ \A b \in Sides, x \in Elems :
                 u.child[b][x] = IF b = d /\ x = e THEN c ELSE t.child[b][x]
BY DEF SetChild, Trees

LEMMA SetParentIs ==
  ASSUME NEW t \in Trees, NEW e \in Pointers, NEW p \in Pointers
  PROVE  LET u == SetParent(t, e, p)
         IN /\ u \in Trees /\ u.root = t.root /\ u.red = t.red /\ u.child = t.child
            /\ \A x \in Elems : u.parent[x] = IF x = e THEN p ELSE t.parent[x]
<1>1. CASE e = Nil
  BY <1>1, ElemsAre DEF SetParent, Trees
<1>2. CASE e # Nil
  <2>1. e \in Elems
    BY <1>2, ElemsAre
  <2>2. QED
    BY <1>2, <2>1 DEF SetParent, Trees
<1>3. QED
  BY <1>1, <1>2

LEMMA PaintIs ==
  ASSUME NEW t \in Trees, NEW black, NEW red \in SUBSET Elems
  PROVE  LET u == Paint(t, black, red)
         IN /\ u \in Trees /\ u.root = t.root /\ u.child = t.child /\ u.parent = t.parent
            /\ u.red = (t.red \ black) \cup red
BY DEF Paint, Trees

LEMMA ReplaceIs ==
  ASSUME NEW t \in Trees, NEW p \in Pointers, NEW from, NEW to \in Pointers
  PROVE  LET u == Replace(t, p, from, to)
         IN /\ u \in Trees /\ u.red = t.red /\ u.parent = t.parent
            /\ u.root = IF p = Nil THEN to ELSE t.root
            /\ \A b \in Sides, x \in Elems :
                 u.child[b][x] = IF x = p /\ b = Side(t, p, from) THEN to ELSE t.child[b][x]
<1>1. CASE p = Nil
  <2>1. Replace(t, p, from, to) = [t EXCEPT !.root = to]
    BY <1>1 DEF Replace
  <2>2. \A x \in Elems : x # p
    BY <1>1, ElemsAre
  <2>3. QED
    BY <1>1, <2>1, <2>2 DEF Trees
<1>2. CASE p # Nil
  <2>1. p \in Elems /\ Side(t, p, from) \in Sides
    BY <1>2, ElemsAre DEF Side, Sides
  <2>2. Replace(t, p, from, to) = SetChild(t, Side(t, p, from), p, to)
    BY <1>2 DEF Replace
  <2>3. QED
    BY <1>2, <2>1, <2>2, SetChildIs
<1>3. QED
  BY <1>1, <1>2

LEMMA RiseIs ==
  ASSUME NEW t \in Trees, NEW m \in Pointers, NEW e \in Elems
  PROVE  LET u == Rise(t, m, e)
             p == t.parent[e]
         IN /\ u \in Trees /\ u.red = t.red
            /\ u.root = IF p = Nil THEN m ELSE t.root
            /\ \A x \in Elems : u.parent[x] = IF x = m THEN p ELSE t.parent[x]
            /\ \A b \in Sides, x \in Elems :
                 u.child[b][x] = IF x = p /\ b = Side(t, p, e) THEN m ELSE t.child[b][x]
<1> DEFINE p == t.parent[e]
           r == Replace(t, p, e, m)
           u == SetParent(r, m, p)
<1>1. Rise(t, m, e) = u
  BY DEF Rise
<1>2. p \in Pointers
  BY TreeParts
<1> HIDE DEF p
<1>3. /\ r \in Trees /\ r.red = t.red /\ r.parent = t.parent
      /\ r.root = IF p = Nil THEN m ELSE t.root
      /\ \A b \in Sides, x \in Elems :
           r.child[b][x] = IF x = p /\ b = Side(t, p, e) THEN m ELSE t.child[b][x]
  BY <1>2, ReplaceIs
<1> HIDE DEF r
<1>4. /\ u \in Trees /\ u.root = r.root /\ u.red = r.red /\ u.child = r.child
      /\ \A x \in Elems : u.parent[x] = IF x = m THEN p ELSE r.parent[x]
  BY <1>2, <1>3, SetParentIs
<1> HIDE DEF u
<1>5. QED
  BY <1>1, <1>3, <1>4 DEF p

----------------------------------------------------------------------------
(* The links of a tree, seen locally: sub[x] are the elements that hang    *)
(* below x, with x. An element in no tree has no links.                    *)
Forest(t, sub) ==
  /\ t \in Trees /\ sub \in [Pointers -> SUBSET Elems] /\ sub[Nil] = {}
  /\ \A x, z \in Elems : z \in sub[x] <=> z = x \/ \E d \in Sides : z \in sub[t.child[d][x]]
  /\ \A x \in Elems, d \in Sides : \A z \in sub[t.child[d][x]] : Before(d, z, x)
  /\ \A x \in Elems, d \in Sides : t.child[d][x] # Nil => t.parent[t.child[d][x]] = x
  /\ \A x \in Elems : t.parent[x] # Nil => \E d \in Sides : t.child[d][t.parent[x]] = x
  /\ t.root # Nil => t.parent[t.root] = Nil
  /\ \A x \in Elems : x \notin sub[t.root] => t.parent[x] = Nil /\ \A d \in Sides : t.child[d][x] = Nil

(* What is below a child is below the element, but on that side only. *)
LEMMA ChildIs ==
  ASSUME NEW t, NEW sub, Forest(t, sub), NEW x \in Elems, NEW d \in Sides
  PROVE  /\ t.child[d][x] \in Pointers /\ t.parent[x] \in Pointers
         /\ x \in sub[x] /\ sub[x] \subseteq Elems
         /\ sub[t.child[d][x]] \subseteq sub[x] /\ x \notin sub[t.child[d][x]]
         /\ sub[x] = {x} \cup sub[t.child[d][x]] \cup sub[t.child[Other(d)][x]]
         /\ \A z \in sub[t.child[d][x]] : z \notin sub[t.child[Other(d)][x]]
<1>1. /\ t \in Trees /\ sub \in [Pointers -> SUBSET Elems]
      /\ \A z \in Elems : z \in sub[x] <=> z = x \/ \E b \in Sides : z \in sub[t.child[b][x]]
      /\ \A b \in Sides : \A z \in sub[t.child[b][x]] : Before(b, z, x)
  BY DEF Forest
<1>2. t.parent[x] \in Pointers /\ \A b \in Sides : t.child[b][x] \in Pointers
  BY <1>1, TreeParts
<1>3. x \in Pointers /\ \A y \in Pointers : sub[y] \subseteq Elems
  BY <1>1, ElemsAre
<1>4. Other(d) \in Sides /\ \A b \in Sides : b = d \/ b = Other(d)
  BY SidesAre
<1>5. ASSUME NEW z \in sub[t.child[d][x]]
      PROVE  z \in sub[x] /\ z # x /\ z \notin sub[t.child[Other(d)][x]]
  <2>1. z \in Elems /\ Before(d, z, x)
    BY <1>1, <1>2, <1>3
  <2>2. ~Before(Other(d), z, x) /\ z # x
    BY <2>1, BeforeIs
  <2>3. QED
    BY <1>1, <1>4, <2>1, <2>2
<1>6. \A z \in Elems : z \in sub[x] <=> z = x \/ z \in sub[t.child[d][x]] \/ z \in sub[t.child[Other(d)][x]]
  BY <1>1, <1>4
<1>7. QED
  BY <1>1, <1>2, <1>3, <1>4, <1>5, <1>6

(* A child hangs in one place only. *)
LEMMA OnePlace ==
  ASSUME NEW t, NEW sub, Forest(t, sub), NEW x \in Elems, NEW d \in Sides,
         t.child[d][x] # Nil
  PROVE  /\ t.child[d][x] \in Elems /\ t.child[d][x] # x /\ t.parent[t.child[d][x]] = x
         /\ t.child[d][x] \in sub[x] /\ x \notin sub[t.child[d][x]]
         /\ \A y \in Elems, b \in Sides : t.child[b][y] = t.child[d][x] => y = x /\ b = d
<1> DEFINE c == t.child[d][x]
<1>1. c \in Elems
  BY ChildIs, ElemsAre
<1>2. c \in sub[c] /\ c \in sub[x] /\ c # x /\ x \notin sub[c]
  BY <1>1, ChildIs
<1>3. t.parent[c] = x /\ \A y \in Elems, b \in Sides : t.child[b][y] = c => t.parent[c] = y
  BY <1>1, ElemsAre DEF Forest
<1>4. ASSUME NEW b \in Sides, t.child[b][x] = c
      PROVE  b = d
  <2>1. c \notin sub[t.child[Other(d)][x]]
    BY <1>2, ChildIs
  <2>2. QED
    BY <1>2, <1>4, <2>1, SidesAre
<1>5. QED
  BY <1>1, <1>2, <1>3, <1>4

(* Induction from the children to their parents, ... *)
LEMMA UpFromLeaves ==
  ASSUME NEW t, NEW sub, Forest(t, sub), NEW G \in SUBSET Elems,
         \A x \in Elems : (\A d \in Sides : t.child[d][x] # Nil => t.child[d][x] \in G) => x \in G
  PROVE  G = Elems
<1> SUFFICES ASSUME Elems \ G # {}
             PROVE  FALSE
  OBVIOUS
<1> DEFINE size(x) == Cardinality(sub[x])
           S == {size(x) : x \in Elems \ G}
<1>1. \A x \in Elems : sub[x] \subseteq Elems /\ IsFiniteSet(sub[x]) /\ size(x) \in Nat
  <2>1. SUFFICES ASSUME NEW x \in Elems
                 PROVE  sub[x] \subseteq Elems /\ IsFiniteSet(sub[x]) /\ size(x) \in Nat
    OBVIOUS
  <2>2. sub[x] \subseteq Elems
    BY ElemsAre DEF Forest
  <2>3. QED
    BY <2>2, RbAssumption, FS_Subset, FS_CardinalityType
<1> HIDE DEF size
<1>2. S \subseteq Nat /\ S # {}
  BY <1>1
<1>3. PICK m \in S : \A n \in S : m <= n
  BY <1>2, LeastOf
<1>4. PICK x \in Elems \ G : size(x) = m
  BY <1>3
<1>5. PICK d \in Sides : t.child[d][x] # Nil /\ t.child[d][x] \notin G
  BY <1>4
<1> DEFINE c == t.child[d][x]
<1>6. c \in Elems \ G
  BY <1>5, OnePlace
<1>7. sub[c] \subseteq sub[x] /\ x \in sub[x] /\ x \notin sub[c]
  BY <1>4, ChildIs
<1> HIDE DEF c
<1>8. size(c) \in Nat /\ size(x) \in Nat /\ size(c) < size(x)
  <2>1. size(c) <= size(x) /\ (size(c) = size(x) => sub[c] = sub[x])
    BY <1>1, <1>7, FS_Subset DEF size
  <2>2. QED
    BY <1>1, <1>6, <1>7, <2>1
<1>9. size(c) \in S
  BY <1>6
<1>10. QED
  BY <1>3, <1>4, <1>8, <1>9

(* ... and from the root down. *)
LEMMA DownFromRoot ==
  ASSUME NEW t, NEW sub, Forest(t, sub), NEW G \in SUBSET Elems,
         t.root # Nil => t.root \in G,
         \A x \in G, d \in Sides : t.child[d][x] # Nil => t.child[d][x] \in G
  PROVE  sub[t.root] \subseteq G
<1> DEFINE H == {y \in Elems : y \in G => sub[y] \subseteq G}
<1>1. ASSUME NEW x \in Elems, \A d \in Sides : t.child[d][x] # Nil => t.child[d][x] \in H
      PROVE  x \in H
  <2>1. SUFFICES ASSUME x \in G
                 PROVE  sub[x] \subseteq G
    OBVIOUS
  <2>2. ASSUME NEW d \in Sides
        PROVE  sub[t.child[d][x]] \subseteq G
    <3>1. CASE t.child[d][x] = Nil
      BY <3>1 DEF Forest
    <3>2. CASE t.child[d][x] # Nil
      BY <1>1, <2>1, <3>2
    <3>3. QED
      BY <3>1, <3>2
  <2>3. sub[x] = {x} \cup sub[t.child["left"][x]] \cup sub[t.child[Other("left")][x]]
    BY ChildIs DEF Sides
  <2>4. "left" \in Sides /\ Other("left") \in Sides
    BY DEF Sides, Other
  <2>5. QED
    BY <2>1, <2>2, <2>3, <2>4
<1> HIDE DEF H
<1>2. H \in SUBSET Elems
  BY DEF H
<1>3. H = Elems
  BY <1>1, <1>2, UpFromLeaves
<1>4. CASE t.root = Nil
  BY <1>4 DEF Forest
<1>5. CASE t.root # Nil
  BY <1>3, <1>5 DEF H
<1>6. QED
  BY <1>4, <1>5

(* What is below an element that is below x is below x, and so is the       *)
(* parent of what is below x but x.                                         *)
LEMMA BelowBelow ==
  ASSUME NEW t, NEW sub, Forest(t, sub), NEW x \in Elems, NEW z \in sub[x]
  PROVE  z \in Elems /\ sub[z] \subseteq sub[x] /\ (z # x => t.parent[z] \in sub[x])
<1> DEFINE G == {y \in Elems : \A w \in sub[y] : sub[w] \subseteq sub[y] /\ (w # y => t.parent[w] \in sub[y])}
<1>1. ASSUME NEW y \in Elems, \A d \in Sides : t.child[d][y] # Nil => t.child[d][y] \in G,
             NEW w \in sub[y], w # y
      PROVE  sub[w] \subseteq sub[y] /\ t.parent[w] \in sub[y]
  <2>1. w \in Elems
    BY ChildIs, SidesAre DEF Sides
  <2>2. PICK d \in Sides : w \in sub[t.child[d][y]]
    BY <1>1, <2>1 DEF Forest
  <2>3. t.child[d][y] # Nil
    BY <2>2 DEF Forest
  <2>4. sub[t.child[d][y]] \subseteq sub[y] /\ y \in sub[y] /\ t.parent[t.child[d][y]] = y
    BY <2>3, ChildIs, OnePlace
  <2>5. t.child[d][y] \in G
    BY <1>1, <2>3
  <2>6. QED
    BY <2>2, <2>4, <2>5
<1>2. \A y \in Elems : (\A d \in Sides : t.child[d][y] # Nil => t.child[d][y] \in G) => y \in G
  BY <1>1
<1>3. G \in SUBSET Elems
  OBVIOUS
<1> HIDE DEF G
<1>4. G = Elems
  BY <1>2, <1>3, UpFromLeaves
<1>5. z \in Elems
  BY ChildIs DEF Sides
<1>6. QED
  BY <1>4, <1>5 DEF G

(* The elements below one of the tree have no other element of the tree     *)
(* between them.                                                            *)
LEMMA BelowIsConvex ==
  ASSUME NEW t, NEW sub, Forest(t, sub), NEW x \in sub[t.root], NEW d \in Sides,
         NEW y \in sub[x], NEW z \in sub[x], NEW w \in sub[t.root],
         Before(d, y, w), Before(d, w, z)
  PROVE  w \in sub[x]
<1> DEFINE S == sub[t.root]
           G == {v \in Elems : \A a, b \in sub[v], c \in S, s \in Sides :
                                 Before(s, a, c) /\ Before(s, c, b) => c \in sub[v]}
<1>1. S \subseteq Elems /\ t.root \in Pointers
  BY TreeParts DEF Forest
<1>2. t.root # Nil => t.root \in G
  BY <1>1, ElemsAre
<1>3. ASSUME NEW v \in G, NEW e \in Sides, t.child[e][v] # Nil
      PROVE  t.child[e][v] \in G
  <2> DEFINE k == t.child[e][v]
  <2>1. v \in Elems /\ k \in Elems /\ sub[k] \subseteq sub[v] /\ sub[v] \subseteq Elems
    BY <1>3, ChildIs, OnePlace
  <2>2. SUFFICES ASSUME NEW a \in sub[k], NEW b \in sub[k], NEW c \in S, NEW s \in Sides,
                        Before(s, a, c), Before(s, c, b)
                 PROVE  c \in sub[k]
    BY <2>1
  <2>3. c \in sub[v] /\ c \in Elems /\ a \in Elems /\ b \in Elems
    BY <1>1, <2>1, <2>2
  <2>4. Before(e, a, v) /\ Before(e, b, v)
    BY <2>1 DEF Forest
  <2>5. Before(e, c, v)
    <3>1. CASE s = e
      BY <2>1, <2>2, <2>3, <2>4, <3>1, BeforeIs
    <3>2. CASE s = Other(e)
      <4>1. Before(e, c, a)
        BY <2>2, <2>3, <3>2, BeforeIs, SidesAre
      <4>2. QED
        BY <2>1, <2>3, <2>4, <4>1, BeforeIs
    <3>3. QED
      BY <3>1, <3>2, SidesAre
  <2>6. c # v /\ c \notin sub[t.child[Other(e)][v]]
    <3>1. ~Before(Other(e), c, v) /\ c # v
      BY <2>1, <2>3, <2>5, BeforeIs
    <3>2. QED
      BY <2>1, <3>1, SidesAre DEF Forest
  <2>7. QED
    BY <2>1, <2>3, <2>6, ChildIs
<1>4. G \in SUBSET Elems
  OBVIOUS
<1> HIDE DEF G
<1>5. S \subseteq G
  BY <1>2, <1>3, <1>4, DownFromRoot
<1>6. QED
  BY <1>5 DEF G

(* The tree itself: with an element its children and its parent are in it.  *)
LEMMA TreeClosed ==
  ASSUME NEW t, NEW sub, Forest(t, sub), NEW x \in sub[t.root]
  PROVE  /\ x \in Elems /\ t.root \in Elems
         /\ t.parent[x] = Nil => x = t.root
         /\ t.parent[x] # Nil => t.parent[x] \in sub[t.root] /\ x # t.root
         /\ \A d \in Sides : t.child[d][x] # Nil => t.child[d][x] \in sub[t.root]
         /\ sub[x] \subseteq sub[t.root]
<1>1. t.root \in Pointers /\ t.root # Nil
  BY TreeParts DEF Forest
<1>2. t.root \in Elems /\ t.parent[t.root] = Nil
  BY <1>1, ElemsAre DEF Forest
<1>3. x \in Elems /\ sub[x] \subseteq sub[t.root] /\ (x # t.root => t.parent[x] \in sub[t.root])
  BY <1>2, BelowBelow
<1>4. sub[t.root] \subseteq Elems /\ Nil \notin Elems
  BY <1>2, ChildIs, ElemsAre DEF Sides
<1>5. ASSUME NEW d \in Sides, t.child[d][x] # Nil
      PROVE  t.child[d][x] \in sub[t.root]
  BY <1>3, <1>5, OnePlace
<1>6. QED
  BY <1>2, <1>3, <1>4, <1>5

----------------------------------------------------------------------------
(* Rotations. m goes up to the place of e, which goes down to the side d.  *)
Rotates(t, sub, e, d) ==
  Forest(t, sub) /\ e \in sub[t.root] /\ d \in Sides /\ t.child[Other(d)][e] # Nil

LEMMA RotateAround ==
  ASSUME NEW t, NEW sub, NEW e, NEW d, Rotates(t, sub, e, d)
  PROVE  LET m == t.child[Other(d)][e]
             i == t.child[d][m]
             p == t.parent[e]
         IN /\ e \in Elems /\ m \in Elems /\ i \in Pointers /\ p \in Pointers
            /\ m # e /\ i # e /\ i # m /\ p # e /\ p # m /\ (p = i => p = Nil)
            /\ \A x \in Elems, b \in Sides : t.child[b][x] = e => p = x
            /\ p # Nil => \E b \in Sides : t.child[b][p] = e
            /\ p = Nil <=> e = t.root
<1> DEFINE m == t.child[Other(d)][e]
           i == t.child[d][m]
           p == t.parent[e]
<1>1. Forest(t, sub) /\ e \in sub[t.root] /\ d \in Sides /\ Other(d) \in Sides /\ m # Nil
  BY SidesAre DEF Rotates
<1>2. e \in Elems /\ p \in Pointers /\ (p = Nil <=> e = t.root)
  BY <1>1, TreeClosed, ChildIs
<1>3. m \in Elems /\ m # e /\ e \notin sub[m]
  BY <1>1, <1>2, OnePlace
<1>4. i \in Pointers /\ i # m /\ i # e /\ sub[i] \subseteq sub[m] /\ (i # Nil => i \in sub[i])
  <2>1. i \in Pointers /\ sub[i] \subseteq sub[m] /\ m \notin sub[i]
    BY <1>1, <1>3, ChildIs
  <2>2. ASSUME i # Nil
        PROVE  i \in sub[i]
    <3>1. i \in Elems
      BY <2>1, <2>2, ElemsAre
    <3> HIDE DEF i
    <3>2. QED
      BY <1>1, <3>1, ChildIs
  <2>3. QED
    BY <1>2, <1>3, <2>1, <2>2, ElemsAre
<1>5. \A x \in Elems, b \in Sides : t.child[b][x] = e => p = x
  BY <1>1, <1>2, ElemsAre, OnePlace
<1>6. p # Nil => \E b \in Sides : t.child[b][p] = e
  BY <1>1, <1>2 DEF Forest
<1>7. p # e /\ p # m /\ (p = i => p = Nil)
  <2>1. SUFFICES ASSUME p # Nil
                 PROVE  p # e /\ p # m /\ p # i
    BY <1>2, <1>3, ElemsAre
  <2>2. PICK b \in Sides : t.child[b][p] = e
    BY <1>6, <2>1
  <2>3. p \in Elems /\ e # Nil
    BY <1>2, <2>1, ElemsAre
  <2>4. e \in sub[p] /\ e # p
    BY <1>1, <2>2, <2>3, OnePlace
  <2>5. p # i
    BY <1>3, <1>4, <2>4
  <2>6. QED
    BY <1>3, <2>4, <2>5
<1>8. QED
  BY <1>2, <1>3, <1>4, <1>5, <1>6, <1>7

LEMMA RotateIs ==
  ASSUME NEW t, NEW sub, NEW e, NEW d, Rotates(t, sub, e, d)
  PROVE  LET m == t.child[Other(d)][e]
             i == t.child[d][m]
             p == t.parent[e]
             u == Rotate(t, e, d)
         IN /\ u \in Trees /\ u.red = t.red
            /\ u.root = IF e = t.root THEN m ELSE t.root
            /\ \A x \in Elems :
                 u.parent[x] = IF x = e THEN m ELSE IF x = m THEN p ELSE IF x = i THEN e ELSE t.parent[x]
            /\ \A b \in Sides, x \in Elems :
                 u.child[b][x] = IF x = e /\ b = Other(d) THEN i
                                 ELSE IF x = m /\ b = d THEN e
                                 ELSE IF t.child[b][x] = e THEN m ELSE t.child[b][x]
<1> DEFINE o == Other(d)
           m == t.child[o][e]
           i == t.child[d][m]
           p == t.parent[e]
           u1 == SetChild(t, o, e, i)
           u2 == SetParent(u1, i, e)
           u4 == Rise(u2, m, e)
           u5 == SetChild(u4, d, m, e)
           u6 == SetParent(u5, e, m)
<1>1. Rotate(t, e, d) = u6
  BY DEF Rotate
<1>2. /\ e \in Elems /\ m \in Elems /\ i \in Pointers /\ p \in Pointers
      /\ m # e /\ i # e /\ i # m /\ p # e /\ p # m /\ (p = i => p = Nil)
      /\ \A x \in Elems, b \in Sides : t.child[b][x] = e => p = x
      /\ p # Nil => \E b \in Sides : t.child[b][p] = e
      /\ p = Nil <=> e = t.root
  BY RotateAround
<1>3. t \in Trees /\ d \in Sides /\ o \in Sides /\ e \in Pointers /\ m \in Pointers /\ t.parent[e] = p
  BY <1>2, SidesAre, ElemsAre DEF Rotates, Forest
<1> HIDE DEF m, i, p, o
<1>4. /\ u1 \in Trees /\ u1.root = t.root /\ u1.red = t.red /\ u1.parent = t.parent
      /\ \A b \in Sides, x \in Elems : u1.child[b][x] = IF b = o /\ x = e THEN i ELSE t.child[b][x]
  BY <1>2, <1>3, SetChildIs
<1> HIDE DEF u1
<1>5. /\ u2 \in Trees /\ u2.root = t.root /\ u2.red = t.red /\ u2.child = u1.child
      /\ \A x \in Elems : u2.parent[x] = IF x = i THEN e ELSE t.parent[x]
  <2>1. /\ u2 \in Trees /\ u2.root = u1.root /\ u2.red = u1.red /\ u2.child = u1.child
        /\ \A x \in Elems : u2.parent[x] = IF x = i THEN e ELSE u1.parent[x]
    <3>1. u1 \in Trees /\ i \in Pointers /\ e \in Pointers
      BY <1>2, <1>3, <1>4
    <3>2. QED
      BY <3>1, SetParentIs
  <2>2. QED
    BY <1>4, <2>1
<1> HIDE DEF u2
<1>6. u2.parent[e] = p
  BY <1>2, <1>3, <1>5
<1>7. /\ u4 \in Trees /\ u4.red = t.red
      /\ u4.root = IF p = Nil THEN m ELSE t.root
      /\ \A x \in Elems : u4.parent[x] = IF x = m THEN p ELSE u2.parent[x]
      /\ \A b \in Sides, x \in Elems :
           u4.child[b][x] = IF x = p /\ b = Side(u2, p, e) THEN m ELSE u2.child[b][x]
  <2>1. /\ u4 \in Trees /\ u4.red = u2.red
        /\ u4.root = IF p = Nil THEN m ELSE u2.root
        /\ \A x \in Elems : u4.parent[x] = IF x = m THEN p ELSE u2.parent[x]
        /\ \A b \in Sides, x \in Elems :
             u4.child[b][x] = IF x = p /\ b = Side(u2, p, e) THEN m ELSE u2.child[b][x]
    <3>1. u2 \in Trees /\ m \in Pointers /\ e \in Elems
      BY <1>2, <1>3, <1>5
    <3>2. QED
      BY <1>6, <3>1, RiseIs
  <2>2. QED
    BY <1>5, <2>1
<1> HIDE DEF u4
<1>8. \A b \in Sides, x \in Elems : x = p /\ b = Side(u2, p, e) <=> t.child[b][x] = e
  <2>1. SUFFICES ASSUME NEW b \in Sides, NEW x \in Elems
                 PROVE  x = p /\ b = Side(u2, p, e) <=> t.child[b][x] = e
    OBVIOUS
  <2>2. ASSUME x = p
        PROVE  b = Side(u2, p, e) <=> t.child[b][x] = e
    <3>1. \A c \in Sides : u2.child[c][p] = t.child[c][p]
      BY <1>2, <1>4, <1>5, <2>2
    <3>2. \E c \in Sides : t.child[c][p] = e
      BY <1>2, <2>2, ElemsAre
    <3>3. "left" \in Sides /\ "right" \in Sides /\ \A c \in Sides : c = "left" \/ c = "right"
      BY DEF Sides
    <3>4. ~(t.child["left"][p] = e /\ t.child["right"][p] = e)
      <4>1. e # Nil /\ Forest(t, sub)
        BY <1>2, ElemsAre DEF Rotates
      <4>2. QED
        BY <2>2, <3>3, <4>1, OnePlace
    <3>5. QED
      BY <2>2, <3>1, <3>2, <3>3, <3>4 DEF Side
  <2>3. QED
    BY <1>2, <2>2
<1>9. \A b \in Sides, x \in Elems :
        u4.child[b][x] = IF t.child[b][x] = e THEN m ELSE IF b = o /\ x = e THEN i ELSE t.child[b][x]
  BY <1>4, <1>5, <1>7, <1>8
<1>10. /\ u5 \in Trees /\ u5.root = u4.root /\ u5.red = t.red /\ u5.parent = u4.parent
       /\ \A b \in Sides, x \in Elems : u5.child[b][x] = IF b = d /\ x = m THEN e ELSE u4.child[b][x]
  BY <1>2, <1>3, <1>7, SetChildIs
<1> HIDE DEF u5
<1>11. /\ u6 \in Trees /\ u6.root = u4.root /\ u6.red = t.red /\ u6.child = u5.child
       /\ \A x \in Elems : u6.parent[x] = IF x = e THEN m ELSE u4.parent[x]
  <2>1. /\ u6 \in Trees /\ u6.root = u5.root /\ u6.red = u5.red /\ u6.child = u5.child
        /\ \A x \in Elems : u6.parent[x] = IF x = e THEN m ELSE u5.parent[x]
    <3>1. u5 \in Trees
      BY <1>10
    <3>2. QED
      BY <1>3, <3>1, SetParentIs
  <2>2. QED
    BY <1>10, <2>1
<1> HIDE DEF u6
<1>12. \A x \in Elems :
         u6.parent[x] = IF x = e THEN m ELSE IF x = m THEN p ELSE IF x = i THEN e ELSE t.parent[x]
  BY <1>5, <1>7, <1>11
<1>13. \A b \in Sides, x \in Elems :
         u6.child[b][x] = IF x = e /\ b = o THEN i
                          ELSE IF x = m /\ b = d THEN e
                          ELSE IF t.child[b][x] = e THEN m ELSE t.child[b][x]
  BY <1>2, <1>9, <1>10, <1>11
<1>14. u6.root = IF e = t.root THEN m ELSE t.root
  BY <1>2, <1>7, <1>11
<1>15. QED
  BY <1>1, <1>11, <1>12, <1>13, <1>14 DEF m, i, p, o

(* What hangs below each element after the rotation. *)
Rotated(t, sub, e, d) ==
  LET m == t.child[Other(d)][e]
  IN [sub EXCEPT ![e] = {e} \cup sub[t.child[d][e]] \cup sub[t.child[d][m]], ![m] = sub[e]]

LEMMA RotatedIs ==
  ASSUME NEW t, NEW sub, NEW e, NEW d, Rotates(t, sub, e, d)
  PROVE  LET m == t.child[Other(d)][e]
             i == t.child[d][m]
             s == Rotated(t, sub, e, d)
         IN /\ s \in [Pointers -> SUBSET Elems] /\ s[m] = sub[e]
            /\ s[e] = {e} \cup sub[t.child[d][e]] \cup sub[i]
            /\ \A x \in Pointers : x # e /\ x # m => s[x] = sub[x]
<1> DEFINE m == t.child[Other(d)][e]
           i == t.child[d][m]
<1>1. e \in Elems /\ m \in Elems /\ m # e /\ i \in Pointers
  BY RotateAround
<1>2. sub \in [Pointers -> SUBSET Elems] /\ t.child[d][e] \in Pointers /\ Elems \subseteq Pointers
  BY <1>1, ChildIs, ElemsAre DEF Rotates, Forest
<1> HIDE DEF m, i
<1>3. Rotated(t, sub, e, d) = [sub EXCEPT ![e] = {e} \cup sub[t.child[d][e]] \cup sub[i], ![m] = sub[e]]
  BY DEF Rotated, m, i
<1>4. {e} \cup sub[t.child[d][e]] \cup sub[i] \in SUBSET Elems /\ sub[e] \in SUBSET Elems
  BY <1>1, <1>2
<1>5. QED
  BY <1>1, <1>2, <1>3, <1>4 DEF m, i

LEMMA RotateForest ==
  ASSUME NEW t, NEW sub, NEW e, NEW d, Rotates(t, sub, e, d)
  PROVE  LET u == Rotate(t, e, d)
             s == Rotated(t, sub, e, d)
         IN Forest(u, s) /\ s[u.root] = sub[t.root]
<1> DEFINE o == Other(d)
           m == t.child[o][e]
           i == t.child[d][m]
           p == t.parent[e]
           u == Rotate(t, e, d)
           s == Rotated(t, sub, e, d)
<1>1. /\ e \in Elems /\ m \in Elems /\ i \in Pointers /\ p \in Pointers
      /\ m # e /\ i # e /\ i # m /\ p # e /\ p # m /\ (p = i => p = Nil)
      /\ \A x \in Elems, b \in Sides : t.child[b][x] = e => p = x
      /\ p # Nil => \E b \in Sides : t.child[b][p] = e
      /\ p = Nil <=> e = t.root
  BY RotateAround
<1>2. Forest(t, sub) /\ d \in Sides /\ o \in Sides /\ m # Nil /\ d # o /\ o = Other(d) /\ Other(o) = d
  BY SidesAre DEF Rotates
<1>3. /\ u \in Trees /\ u.root = IF e = t.root THEN m ELSE t.root
      /\ \A x \in Elems :
           u.parent[x] = IF x = e THEN m ELSE IF x = m THEN p ELSE IF x = i THEN e ELSE t.parent[x]
      /\ \A b \in Sides, x \in Elems :
           u.child[b][x] = IF x = e /\ b = o THEN i
                           ELSE IF x = m /\ b = d THEN e
                           ELSE IF t.child[b][x] = e THEN m ELSE t.child[b][x]
  BY RotateIs
<1>4. /\ s \in [Pointers -> SUBSET Elems] /\ s[m] = sub[e]
      /\ s[e] = {e} \cup sub[t.child[d][e]] \cup sub[i]
      /\ \A x \in Pointers : x # e /\ x # m => s[x] = sub[x]
  BY RotatedIs
<1>5. t.child[o][e] = m
  OBVIOUS
<1>6. t.child[d][m] = i
  OBVIOUS
<1>7. t.parent[e] = p
  OBVIOUS
<1> HIDE DEF o, m, i, p, u, s
<1>8. /\ sub[e] = {e} \cup sub[t.child[d][e]] \cup sub[m] /\ e \notin sub[m] /\ e \notin sub[t.child[d][e]]
      /\ sub[m] = {m} \cup sub[i] \cup sub[t.child[o][m]] /\ m \notin sub[i] /\ m \notin sub[t.child[o][m]]
      /\ t.child[d][e] \in Pointers /\ t.child[o][m] \in Pointers
      /\ t.child[d][e] # e /\ t.child[d][e] # m /\ t.child[o][m] # m /\ t.child[o][m] # e
  <2>1. /\ sub[e] = {e} \cup sub[t.child[d][e]] \cup sub[m] /\ e \notin sub[m] /\ e \notin sub[t.child[d][e]]
        /\ t.child[d][e] \in Pointers /\ e \in sub[e]
        /\ \A z \in sub[m] : z \notin sub[t.child[d][e]]
    BY <1>1, <1>2, <1>5, ChildIs
  <2>2. /\ sub[m] = {m} \cup sub[i] \cup sub[t.child[o][m]] /\ m \notin sub[i] /\ m \notin sub[t.child[o][m]]
        /\ t.child[o][m] \in Pointers /\ m \in sub[m]
    BY <1>1, <1>2, <1>6, ChildIs
  <2>3. QED
    BY <2>1, <2>2
<1>9. \A x \in Elems, b \in Sides : t.child[b][x] = m => x = e /\ b = o
  BY <1>1, <1>2, <1>5, OnePlace
<1>10. \A x \in Elems, b \in Sides : t.child[b][x] = i /\ i # Nil => x = m /\ b = d
  BY <1>1, <1>2, <1>6, OnePlace
<1>11. Nil \in Pointers /\ Nil \notin Elems /\ Elems \subseteq Pointers
       /\ \A x \in Pointers : x # Nil => x \in Elems
  BY ElemsAre
<1>12. s[Nil] = {} /\ sub[Nil] = {}
  BY <1>1, <1>2, <1>4, <1>11 DEF Forest
(* A kid of the new tree, below each element. *)
<1>13. \A x \in Elems, b \in Sides : x # e /\ x # m =>
         s[u.child[b][x]] = sub[t.child[b][x]] /\ s[x] = sub[x]
  <2>1. \A x \in Elems, b \in Sides : t.child[b][x] \in Pointers
    BY <1>2, ChildIs
  <2>2. QED
    BY <1>1, <1>3, <1>4, <1>9, <1>11, <2>1
<1>14. /\ u.child[o][e] = i /\ u.child[d][e] = t.child[d][e]
       /\ u.child[d][m] = e /\ u.child[o][m] = t.child[o][m]
  BY <1>1, <1>2, <1>3, <1>8
<1>15. s[i] = sub[i] /\ s[t.child[d][e]] = sub[t.child[d][e]] /\ s[t.child[o][m]] = sub[t.child[o][m]]
  BY <1>1, <1>4, <1>8
<1>16. \A b \in Sides : b = d \/ b = o
  BY <1>2, SidesAre
<1>17. ASSUME NEW x \in Elems, NEW z \in Elems
       PROVE  z \in s[x] <=> z = x \/ \E b \in Sides : z \in s[u.child[b][x]]
  <2>1. CASE x = e
    BY <1>2, <1>4, <1>14, <1>15, <1>16, <2>1
  <2>2. CASE x = m
    <3>1. z \in s[m] <=> z = m \/ z \in s[e] \/ z \in sub[t.child[o][m]]
      BY <1>4, <1>8
    <3>2. QED
      BY <1>2, <1>14, <1>15, <1>16, <2>2, <3>1
  <2>3. CASE x # e /\ x # m
    <3>1. z \in sub[x] <=> z = x \/ \E b \in Sides : z \in sub[t.child[b][x]]
      BY <1>2 DEF Forest
    <3>2. \A b \in Sides : z \in s[u.child[b][x]] <=> z \in sub[t.child[b][x]]
      BY <1>13, <2>3
    <3>3. s[x] = sub[x]
      BY <1>2, <1>13, <2>3
    <3>4. QED
      BY <3>1, <3>2, <3>3
  <2>4. QED
    BY <2>1, <2>2, <2>3
<1>18. ASSUME NEW x \in Elems, NEW b \in Sides, NEW z \in s[u.child[b][x]]
       PROVE  Before(b, z, x)
  <2>1. \A y \in Elems, c \in Sides : \A w \in sub[t.child[c][y]] : Before(c, w, y)
    BY <1>2 DEF Forest
  <2>2. sub[e] \subseteq Elems /\ sub[m] \subseteq Elems
    BY <1>1, <1>2, ChildIs
  <2>3. Before(o, m, e) /\ Before(d, e, m)
    <3>1. Before(o, m, e)
      BY <1>1, <1>2, <1>5, <1>8, <2>1
    <3>2. QED
      BY <1>1, <1>2, <3>1, BeforeIs
  <2>4. CASE x = e
    <3>1. CASE b = d
      BY <1>14, <1>15, <1>18, <2>1, <2>4, <3>1
    <3>2. CASE b = o
      <4>1. z \in sub[m]
        BY <1>8, <1>14, <1>15, <1>18, <2>4, <3>2
      <4>2. QED
        BY <1>1, <1>5, <2>1, <2>4, <3>2, <4>1
    <3>3. QED
      BY <1>16, <3>1, <3>2
  <2>5. CASE x = m
    <3>1. CASE b = d
      <4>1. z = e \/ z \in sub[t.child[d][e]] \/ z \in sub[i]
        BY <1>4, <1>14, <1>18, <2>5, <3>1
      <4>2. z \in sub[t.child[d][e]] => Before(d, z, m)
        <5>1. z \in sub[t.child[d][e]] => Before(d, z, e) /\ z \in Elems
          BY <1>1, <1>2, <1>8, <2>1, <2>2
        <5>2. QED
          BY <1>1, <1>2, <2>3, <5>1, BeforeIs
      <4>3. z \in sub[i] => Before(d, z, m)
        BY <1>1, <1>2, <1>6, <2>1
      <4>4. QED
        BY <2>3, <2>5, <3>1, <4>1, <4>2, <4>3
    <3>2. CASE b = o
      BY <1>1, <1>14, <1>15, <1>18, <2>1, <2>5, <3>2
    <3>3. QED
      BY <1>16, <3>1, <3>2
  <2>6. CASE x # e /\ x # m
    BY <1>13, <1>18, <2>1, <2>6
  <2>7. QED
    BY <2>4, <2>5, <2>6
<1>19. ASSUME NEW x \in Elems, NEW b \in Sides, u.child[b][x] # Nil
       PROVE  u.parent[u.child[b][x]] = x
  <2> DEFINE c == u.child[b][x]
  <2>1. c \in Elems
    BY <1>3, <1>11, <1>19, TreeParts
  <2>2. \A y \in Elems, a \in Sides : t.child[a][y] # Nil => t.parent[t.child[a][y]] = y
    BY <1>2 DEF Forest
  <2>3. CASE x = e /\ b = o
    BY <1>1, <1>3, <1>14, <1>19, <2>1, <2>3
  <2>4. CASE x = m /\ b = d
    BY <1>1, <1>3, <1>14, <2>4
  <2>5. CASE ~(x = e /\ b = o) /\ ~(x = m /\ b = d) /\ t.child[b][x] = e
    BY <1>1, <1>3, <2>5
  <2>6. CASE ~(x = e /\ b = o) /\ ~(x = m /\ b = d) /\ t.child[b][x] # e
    <3>1. c = t.child[b][x]
      BY <1>3, <2>6
    <3>2. c # e /\ c # m /\ c # i
      BY <1>9, <1>10, <1>19, <2>6, <3>1
    <3>3. QED
      BY <1>3, <1>19, <2>1, <2>2, <3>1, <3>2
  <2>7. QED
    BY <2>3, <2>4, <2>5, <2>6
<1>20. ASSUME NEW x \in Elems, u.parent[x] # Nil
       PROVE  \E b \in Sides : u.child[b][u.parent[x]] = x
  <2>1. CASE x = e
    BY <1>1, <1>2, <1>3, <1>14, <2>1
  <2>2. CASE x = m
    <3>1. u.parent[m] = p /\ p # Nil /\ p \in Elems
      BY <1>1, <1>3, <1>11, <1>20, <2>2
    <3>2. PICK b \in Sides : t.child[b][p] = e
      BY <1>1, <3>1
    <3>3. u.child[b][p] = m
      BY <1>1, <1>3, <3>1, <3>2
    <3>4. QED
      BY <2>2, <3>1, <3>3
  <2>3. CASE x = i
    BY <1>1, <1>2, <1>3, <1>14, <2>3
  <2>4. CASE x # e /\ x # m /\ x # i
    <3>1. u.parent[x] = t.parent[x]
      BY <1>3, <2>4
    <3>2. PICK b \in Sides : t.child[b][t.parent[x]] = x
      BY <1>2, <1>20, <3>1 DEF Forest
    <3>3. t.parent[x] \in Elems
      BY <1>2, <1>11, <1>20, <3>1, ChildIs
    <3>4. ~(t.parent[x] = e /\ b = o) /\ ~(t.parent[x] = m /\ b = d)
      BY <1>5, <1>6, <2>4, <3>2
    <3>5. u.child[b][t.parent[x]] = x
      BY <1>3, <2>4, <3>2, <3>3, <3>4
    <3>6. QED
      BY <3>1, <3>5
  <2>5. QED
    BY <2>1, <2>2, <2>3, <2>4
<1>21. u.root # Nil => u.parent[u.root] = Nil
  <2>1. CASE e = t.root
    BY <1>1, <1>3, <2>1
  <2>2. CASE e # t.root
    <3>1. t.root \in Elems /\ u.root = t.root /\ t.parent[t.root] = Nil
      BY <1>3, <2>2, TreeClosed DEF Rotates, Forest
    <3>2. t.root # m /\ t.root # i
      <4>1. t.parent[m] = e /\ (i # Nil => t.parent[i] = m)
        BY <1>1, <1>2, <1>5, <1>6 DEF Forest
      <4>2. QED
        BY <1>1, <1>11, <3>1, <4>1
    <3>3. QED
      BY <1>3, <2>2, <3>1, <3>2
  <2>3. QED
    BY <2>1, <2>2
<1>22. s[u.root] = sub[t.root]
  <2>1. CASE e = t.root
    BY <1>3, <1>4, <2>1
  <2>2. CASE e # t.root
    <3>1. t.root # m /\ t.root \in Pointers
      <4>1. t.root \in Elems /\ t.parent[t.root] = Nil /\ t.parent[m] = e
        BY <1>1, <1>2, <1>5, TreeClosed DEF Rotates, Forest
      <4>2. QED
        BY <1>1, <1>11, <4>1
    <3>2. QED
      BY <1>3, <1>4, <2>2, <3>1
  <2>3. QED
    BY <2>1, <2>2
<1>23. ASSUME NEW x \in Elems, x \notin s[u.root]
       PROVE  u.parent[x] = Nil /\ \A b \in Sides : u.child[b][x] = Nil
  <2>1. x \notin sub[t.root]
    BY <1>22, <1>23
  <2>2. t.parent[x] = Nil /\ \A b \in Sides : t.child[b][x] = Nil
    BY <1>2, <2>1 DEF Forest
  <2>3. e \in sub[t.root] /\ m \in sub[t.root] /\ (i # Nil => i \in sub[t.root])
    <3>1. e \in sub[t.root] /\ Forest(t, sub)
      BY DEF Rotates
    <3>2. m \in sub[t.root]
      BY <1>2, <1>5, <3>1, TreeClosed
    <3>3. QED
      BY <1>2, <1>6, <3>1, <3>2, TreeClosed
  <2>4. x # e /\ x # m /\ x # i
    BY <1>11, <2>1, <2>3
  <2>5. QED
    BY <1>1, <1>3, <1>11, <2>2, <2>4
<1>24. Forest(u, s)
  BY <1>3, <1>4, <1>12, <1>17, <1>18, <1>19, <1>20, <1>21, <1>23 DEF Forest
<1>25. QED
  BY <1>22, <1>24 DEF u, s

----------------------------------------------------------------------------
(* The colours. bh[x] are the black elements on a way down from x. All     *)
(* ways are equal but those through the side d of p, which lack one; none  *)
(* lacks one when p is Nil.                                                *)
Black(t, x) == IF x \in t.red THEN 0 ELSE 1

Lack(p, d, x, b) == IF x = p /\ b = d THEN 1 ELSE 0

Heights(t, bh, p, d) ==
  /\ bh \in [Pointers -> Nat] /\ bh[Nil] = 0
  /\ \A x \in Elems, b \in Sides :
       bh[x] = bh[t.child[b][x]] + Black(t, x) + Lack(p, d, x, b)

(* No red element has a red child, but up or the parent of low. *)
Reds(t, up, low) ==
  \A x \in Elems, b \in Sides :
    x \in t.red /\ t.child[b][x] \in t.red => x = up \/ t.child[b][x] = low

SameLinks(t, r) == r \in Trees /\ r.root = t.root /\ r.child = t.child /\ r.parent = t.parent

LEMMA LinksForest ==
  ASSUME NEW t, NEW sub, Forest(t, sub), NEW r, SameLinks(t, r)
  PROVE  Forest(r, sub)
BY DEF Forest, SameLinks

(* r is t where e and m, which is red in t, have changed their colours.    *)
Swapped(t, r, e, m) ==
  /\ SameLinks(t, r) /\ m \in t.red /\ e \in r.red
  /\ m \in r.red <=> e \in t.red
  /\ \A x \in Elems : x # e /\ x # m => (x \in r.red <=> x \in t.red)

LEMMA SwappedBlack ==
  ASSUME NEW t, NEW r, NEW e, NEW m, Swapped(t, r, e, m)
  PROVE  /\ Black(r, e) = 0 /\ Black(t, m) = 0 /\ Black(r, m) = Black(t, e)
         /\ \A x \in Elems : x # e /\ x # m => Black(r, x) = Black(t, x)
BY DEF Swapped, Black

LEMMA HeightsAt ==
  ASSUME NEW t, NEW bh, NEW p, NEW d, Heights(t, bh, p, d), t \in Trees, NEW x \in Elems, NEW b \in Sides
  PROVE  /\ bh[x] = bh[t.child[b][x]] + Black(t, x) + Lack(p, d, x, b)
         /\ bh[x] \in Nat /\ bh[t.child[b][x]] \in Nat
         /\ Black(t, x) \in {0, 1} /\ Lack(p, d, x, b) \in {0, 1}
<1>1. t.child[b][x] \in Pointers /\ x \in Pointers
  BY TreeParts, ElemsAre
<1>2. QED
  BY <1>1 DEF Heights, Black, Lack

(* A rotation that takes a red element up and leaves each place its colour  *)
(* keeps the heights.                                                       *)
LEMMA RotateHeights ==
  ASSUME NEW t, NEW r, NEW sub, NEW e, NEW d, Rotates(t, sub, e, d),
         NEW m, m = t.child[Other(d)][e], Swapped(t, r, e, m),
         NEW bh, NEW p, NEW c, Heights(t, bh, p, c), p # m, p = e => c = d
  PROVE  LET bh2 == [bh EXCEPT ![e] = bh[m], ![m] = bh[e]]
         IN Heights(Rotate(r, e, d), bh2, p, c)
<1> DEFINE o == Other(d)
           i == t.child[d][m]
           u == Rotate(r, e, d)
           bh2 == [bh EXCEPT ![e] = bh[m], ![m] = bh[e]]
<1>1. /\ Forest(t, sub) /\ t \in Trees /\ d \in Sides /\ o \in Sides /\ d # o
      /\ e \in Elems /\ m \in Elems /\ m # e /\ i # e /\ i # m /\ i \in Pointers
  <2>1. Forest(t, sub) /\ d \in Sides
    BY DEF Rotates
  <2>2. t \in Trees
    BY <2>1 DEF Forest
  <2>3. o \in Sides /\ d # o
    BY <2>1, SidesAre
  <2>4. e \in Elems /\ m \in Elems /\ m # e /\ i # e /\ i # m /\ i \in Pointers
    BY RotateAround
  <2>5. QED
    BY <2>1, <2>2, <2>3, <2>4
<1>2. SameLinks(t, r) /\ Rotates(r, sub, e, d)
  <2>1. SameLinks(t, r)
    BY DEF Swapped
  <2>2. QED
    BY <2>1, LinksForest DEF Rotates, SameLinks
<1>3. /\ u \in Trees /\ u.red = r.red
      /\ \A b \in Sides, x \in Elems :
           u.child[b][x] = IF x = e /\ b = o THEN i
                           ELSE IF x = m /\ b = d THEN e
                           ELSE IF t.child[b][x] = e THEN m ELSE t.child[b][x]
  <2>1. r.child = t.child
    BY <1>2 DEF SameLinks
  <2>2. QED
    BY <1>2, <2>1, RotateIs
<1>4. bh \in [Pointers -> Nat] /\ bh[Nil] = 0
  BY DEF Heights
<1>5. /\ bh2 \in [Pointers -> Nat] /\ bh2[e] = bh[m] /\ bh2[m] = bh[e] /\ bh2[Nil] = 0
      /\ \A x \in Pointers : x # e /\ x # m => bh2[x] = bh[x]
  BY <1>1, <1>4, ElemsAre
<1>6. t.child[o][e] = m
  OBVIOUS
<1>7. t.child[d][m] = i
  OBVIOUS
<1> HIDE DEF i, u, bh2
<1>8. /\ Black(u, e) = 0 /\ Black(t, m) = 0 /\ Black(u, m) = Black(t, e)
      /\ \A x \in Elems : x # e /\ x # m => Black(u, x) = Black(t, x)
  BY <1>3, SwappedBlack DEF Black
<1>9. /\ Lack(p, c, e, o) = 0 /\ Lack(p, c, m, d) = 0 /\ Lack(p, c, m, o) = 0
  BY <1>1 DEF Lack
<1>10. /\ t.child[d][e] \in Pointers /\ t.child[o][m] \in Pointers
       /\ t.child[d][e] # e /\ t.child[d][e] # m /\ t.child[o][m] # e /\ t.child[o][m] # m
  <2>1. /\ t.child[d][e] \in Pointers /\ e \notin sub[t.child[d][e]] /\ e \notin sub[m] /\ e \in sub[e]
        /\ \A z \in sub[m] : z \notin sub[t.child[d][e]]
    BY <1>1, <1>6, ChildIs
  <2>2. t.child[o][m] \in Pointers /\ m \notin sub[t.child[o][m]] /\ m \in sub[m] /\ sub[t.child[o][m]] \subseteq sub[m]
    BY <1>1, ChildIs
  <2>3. QED
    BY <2>1, <2>2
<1>11. /\ u.child[o][e] = i /\ u.child[d][e] = t.child[d][e]
       /\ u.child[d][m] = e /\ u.child[o][m] = t.child[o][m]
  BY <1>1, <1>3, <1>10
<1>12. \A b \in Sides : b = d \/ b = o
  BY <1>1, SidesAre
<1>13. bh[e] \in Nat /\ bh[m] \in Nat /\ Black(t, e) \in {0, 1}
  BY <1>1, HeightsAt
<1>14. bh[e] = bh[m] + Black(t, e)
  <2>1. bh[e] = bh[m] + Black(t, e) + Lack(p, c, e, o)
    BY <1>1, <1>6, HeightsAt
  <2>2. QED
    BY <1>9, <1>13, <2>1
<1>15. bh[m] = bh[i] /\ bh[m] = bh[t.child[o][m]]
  <2>1. bh[m] = bh[i] + Black(t, m) + Lack(p, c, m, d) /\ bh[i] \in Nat
    BY <1>1, <1>7, HeightsAt
  <2>2. bh[m] = bh[t.child[o][m]] + Black(t, m) + Lack(p, c, m, o) /\ bh[t.child[o][m]] \in Nat
    BY <1>1, HeightsAt
  <2>3. QED
    BY <1>8, <1>9, <2>1, <2>2
<1>16. ASSUME NEW x \in Elems, NEW b \in Sides
       PROVE  bh2[x] = bh2[u.child[b][x]] + Black(u, x) + Lack(p, c, x, b)
  <2>1. CASE x = e /\ b = o
    <3>1. bh2[i] = bh[i] /\ bh[i] \in Nat
      BY <1>1, <1>4, <1>5
    <3>2. QED
      BY <1>5, <1>8, <1>9, <1>11, <1>15, <2>1, <3>1
  <2>2. CASE x = e /\ b = d
    <3>1. bh2[t.child[d][e]] = bh[t.child[d][e]] /\ bh[t.child[d][e]] \in Nat
      BY <1>4, <1>5, <1>10
    <3>2. bh[e] = bh[t.child[d][e]] + Black(t, e) + Lack(p, c, e, d) /\ Lack(p, c, e, d) \in {0, 1}
      BY <1>1, HeightsAt
    <3>3. bh[m] = bh[t.child[d][e]] + Lack(p, c, e, d)
      BY <1>13, <1>14, <3>1, <3>2
    <3>4. bh2[e] = bh2[t.child[d][e]] + Black(u, e) + Lack(p, c, e, d)
      BY <1>5, <1>8, <3>1, <3>2, <3>3
    <3>5. QED
      BY <1>11, <2>2, <3>4
  <2>3. CASE x = m /\ b = d
    <3>1. bh2[m] = bh2[e] + Black(u, m) + Lack(p, c, m, d)
      BY <1>5, <1>8, <1>9, <1>13, <1>14
    <3>2. QED
      BY <1>11, <2>3, <3>1
  <2>4. CASE x = m /\ b = o
    <3>1. bh2[t.child[o][m]] = bh[m]
      BY <1>5, <1>10, <1>15
    <3>2. bh2[m] = bh2[t.child[o][m]] + Black(u, m) + Lack(p, c, m, o)
      BY <1>5, <1>8, <1>9, <1>13, <1>14, <3>1
    <3>3. QED
      BY <1>11, <2>4, <3>2
  <2>5. CASE x # e /\ x # m
    <3>1. bh[x] = bh[t.child[b][x]] + Black(t, x) + Lack(p, c, x, b)
      BY <1>1, HeightsAt
    <3>2. t.child[b][x] \in Pointers /\ t.child[b][x] # m
      <4>1. t.child[b][x] \in Pointers
        BY <1>1, ChildIs
      <4>2. t.child[b][x] = m => x = e
        BY <1>1, <1>6, ElemsAre, OnePlace
      <4>3. QED
        BY <2>5, <4>1, <4>2
    <3>3. bh2[u.child[b][x]] = bh[t.child[b][x]]
      BY <1>3, <1>5, <2>5, <3>2
    <3>4. bh2[x] = bh[x]
      BY <1>5, <2>5, ElemsAre
    <3>5. QED
      BY <1>8, <2>5, <3>1, <3>3, <3>4
  <2>6. QED
    BY <1>12, <2>1, <2>2, <2>3, <2>4, <2>5
<1>17. QED
  BY <1>5, <1>16 DEF Heights, u, bh2

----------------------------------------------------------------------------
(* RB_INSERT_COLOR. The tree over S is in order but for the red e, whose   *)
(* parent may be red, too.                                                 *)
Inserting(t, sub, bh, e, S) ==
  /\ Forest(t, sub) /\ sub[t.root] = S /\ Heights(t, bh, Nil, "left")
  /\ Reds(t, Nil, e) /\ t.red \subseteq S /\ e \in t.red
  /\ t.root \in t.red => t.root = e

LEMMA SideIs ==
  ASSUME NEW t, NEW sub, Forest(t, sub), NEW x \in Elems, t.parent[x] # Nil
  PROVE  /\ t.parent[x] \in Elems /\ Side(t, t.parent[x], x) \in Sides
         /\ t.child[Side(t, t.parent[x], x)][t.parent[x]] = x
<1>1. t.parent[x] \in Elems
  BY ChildIs, ElemsAre DEF Sides
<1>2. \E d \in Sides : t.child[d][t.parent[x]] = x
  BY DEF Forest
<1>3. QED
  BY <1>1, <1>2 DEF Side, Sides

LEMMA MoreBelow ==
  ASSUME NEW A, NEW B, B \in SUBSET Elems, A \subseteq B, NEW x \in B, x \notin A
  PROVE  Cardinality(A) \in Nat /\ Cardinality(B) \in Nat /\ Cardinality(A) + 1 <= Cardinality(B)
         /\ Cardinality(B) <= Cardinality(Elems)
<1>1. IsFiniteSet(B) /\ Cardinality(B) <= Cardinality(Elems)
  BY RbAssumption, FS_Subset
<1>2. IsFiniteSet(A) /\ Cardinality(A) <= Cardinality(B) /\ Cardinality(A) # Cardinality(B)
  BY <1>1, FS_Subset
<1>3. Cardinality(A) \in Nat /\ Cardinality(B) \in Nat
  BY <1>1, <1>2, FS_CardinalityType
<1>4. QED
  BY <1>1, <1>2, <1>3

(* Where a turn finds e: under a red parent p and a black grandparent g. *)
Kin(t, e, p, g, d, w) ==
  p = t.parent[e] /\ g = t.parent[p] /\ d = Side(t, g, p) /\ w = t.child[Other(d)][g]

LEMMA RedParent ==
  ASSUME NEW t, NEW sub, NEW bh, NEW e, NEW S, Inserting(t, sub, bh, e, S),
         NEW p, NEW g, NEW d, NEW w, Kin(t, e, p, g, d, w), p \in t.red
  PROVE  /\ e \in S /\ e \in Elems /\ p \in S /\ p \in Elems /\ g \in S /\ g \in Elems
         /\ d \in Sides /\ t.child[d][g] = p /\ g \notin t.red /\ t.root \notin t.red
         /\ p # e /\ g # p /\ g # e /\ g # Nil /\ S \subseteq Elems
         /\ w \in Pointers /\ t.child[Other(d)][g] = w
         /\ \E b \in Sides : t.child[b][p] = e
<1>1. Forest(t, sub) /\ sub[t.root] = S /\ t.red \subseteq S /\ e \in t.red /\ t \in Trees
  BY DEF Inserting, Forest
<1>2. e \in sub[t.root] /\ p \in sub[t.root] /\ e \in Elems /\ p \in Elems /\ S \subseteq Elems
  <2>1. e \in sub[t.root] /\ p \in sub[t.root] /\ t.red \subseteq Elems
    BY <1>1, TreeParts
  <2>2. t.root \in Pointers
    BY <1>1, TreeParts
  <2>3. QED
    BY <1>1, <2>1, <2>2 DEF Forest
<1>3. p = t.parent[e]
  BY DEF Kin
<1>4. p # Nil
  BY <1>2, ElemsAre
<1>5. e # t.root
  BY <1>1, <1>2, <1>3, <1>4, TreeClosed
<1>6. t.root \notin t.red
  BY <1>5 DEF Inserting
<1>7. Side(t, p, e) \in Sides /\ t.child[Side(t, p, e)][p] = e
  <2>1. t.parent[e] # Nil
    BY <1>3, <1>4
  <2>2. Side(t, t.parent[e], e) \in Sides /\ t.child[Side(t, t.parent[e], e)][t.parent[e]] = e
    BY <1>1, <1>2, <2>1, SideIs
  <2>3. QED
    BY <1>3, <2>2
<1>8. PICK b \in Sides : t.child[b][p] = e
  BY <1>7
<1>9. p # e /\ e \in sub[p]
  <2>1. t.child[b][p] # Nil
    BY <1>2, <1>8, ElemsAre
  <2>2. t.child[b][p] # p /\ t.child[b][p] \in sub[p]
    BY <1>1, <1>2, <2>1, OnePlace
  <2>3. QED
    BY <1>8, <2>2
<1>10. g = t.parent[p]
  BY DEF Kin
<1>11. p # t.root
  BY <1>1, <1>6, Zenon DEF Kin
<1>12. g # Nil
  BY <1>1, <1>2, <1>10, <1>11, TreeClosed
<1>13. g \in S /\ g \in Elems
  <2>1. t.parent[p] \in sub[t.root]
    BY <1>1, <1>2, <1>10, <1>12, TreeClosed
  <2>2. QED
    BY <1>1, <1>2, <1>10, <2>1
<1>14. d \in Sides /\ t.child[d][g] = p
  <2>1. Side(t, t.parent[p], p) \in Sides /\ t.child[Side(t, t.parent[p], p)][t.parent[p]] = p
    BY <1>1, <1>2, <1>10, <1>12, SideIs
  <2>2. d = Side(t, t.parent[p], p)
    BY DEF Kin
  <2>3. QED
    BY <1>10, <2>1, <2>2
<1>15. g # p /\ g # e
  <2>1. t.child[d][g] # Nil
    BY <1>4, <1>14
  <2>2. t.child[d][g] # g /\ g \notin sub[t.child[d][g]]
    BY <1>1, <1>13, <1>14, <2>1, OnePlace
  <2>3. QED
    BY <1>9, <1>14, <2>2
<1>16. g \notin t.red
  <2>1. Reds(t, Nil, e)
    BY DEF Inserting
  <2>2. g \in t.red /\ t.child[d][g] \in t.red => g = Nil \/ t.child[d][g] = e
    BY <1>13, <1>14, <2>1 DEF Reds
  <2>3. p \in t.red
    OBVIOUS
  <2>4. QED
    BY <1>9, <1>12, <1>14, <2>2, <2>3
<1>17. w \in Pointers /\ t.child[Other(d)][g] = w
  <2>1. w = t.child[Other(d)][g]
    BY DEF Kin
  <2>2. Other(d) \in Sides
    BY <1>14, SidesAre
  <2>3. QED
    BY <1>1, <1>13, <2>1, <2>2, ChildIs
<1>18. QED
  BY <1>1, <1>2, <1>6, <1>8, <1>9, <1>12, <1>13, <1>14, <1>15, <1>16, <1>17

(* The uncle is red: the colours change, and g is the next e. *)
Recoloured(bh, w, p) == [x \in Pointers |-> IF x \in {w, p} THEN bh[x] + 1 ELSE bh[x]]

LEMMA RecolourOK ==
  ASSUME NEW t, NEW sub, NEW bh, NEW e, NEW S, Inserting(t, sub, bh, e, S),
         NEW p, NEW g, NEW d, NEW w, Kin(t, e, p, g, d, w), p \in t.red, w \in t.red
  PROVE  /\ Inserting(Paint(t, {w, p}, {g}), sub, Recoloured(bh, w, p), g, S)
         /\ Cardinality(sub[e]) + 1 <= Cardinality(sub[g])
<1> DEFINE r == Paint(t, {w, p}, {g})
           bh2 == Recoloured(bh, w, p)
<1>1. /\ e \in S /\ e \in Elems /\ p \in S /\ p \in Elems /\ g \in S /\ g \in Elems
      /\ d \in Sides /\ t.child[d][g] = p /\ g \notin t.red /\ t.root \notin t.red
      /\ p # e /\ g # p /\ g # e /\ g # Nil /\ S \subseteq Elems
      /\ w \in Pointers /\ t.child[Other(d)][g] = w
  BY RedParent
<1>2. \E b \in Sides : t.child[b][p] = e
  BY RedParent
<1>3. /\ Forest(t, sub) /\ t \in Trees /\ sub[t.root] = S /\ Heights(t, bh, Nil, "left")
      /\ Reds(t, Nil, e) /\ t.red \subseteq S /\ p \in t.red /\ w \in t.red
      /\ bh \in [Pointers -> Nat] /\ bh[Nil] = 0
  BY DEF Inserting, Forest, Heights
<1>4. Other(d) \in Sides /\ d # Other(d) /\ \A b \in Sides : b = d \/ b = Other(d)
  BY <1>1, SidesAre
<1>5. w \in Elems /\ w # p /\ w # g /\ t.parent[w] = g /\ t.parent[p] = g
      /\ \A y \in Elems, b \in Sides : t.child[b][y] \in {w, p} => y = g
  <2>1. w \in Elems /\ w # Nil /\ p # Nil
    BY <1>1, <1>3, ElemsAre
  <2>2. /\ w # g /\ t.parent[w] = g
        /\ \A y \in Elems, b \in Sides : t.child[b][y] = w => y = g /\ b = Other(d)
    <3>1. t.child[Other(d)][g] # Nil
      BY <1>1, <2>1
    <3>2. /\ t.child[Other(d)][g] # g /\ t.parent[t.child[Other(d)][g]] = g
          /\ \A y \in Elems, b \in Sides : t.child[b][y] = t.child[Other(d)][g] => y = g /\ b = Other(d)
      BY <1>1, <1>3, <1>4, <3>1, OnePlace
    <3>3. QED
      BY <1>1, <3>2
  <2>3. /\ t.parent[p] = g
        /\ \A y \in Elems, b \in Sides : t.child[b][y] = p => y = g /\ b = d
    <3>1. t.child[d][g] # Nil
      BY <1>1, <2>1
    <3>2. /\ t.parent[t.child[d][g]] = g
          /\ \A y \in Elems, b \in Sides : t.child[b][y] = t.child[d][g] => y = g /\ b = d
      BY <1>1, <1>3, <3>1, OnePlace
    <3>3. QED
      BY <1>1, <3>2
  <2>4. w # p
    BY <1>1, <1>4, <2>2
  <2>5. QED
    BY <2>1, <2>2, <2>3, <2>4
<1>6. r \in Trees /\ r.root = t.root /\ r.child = t.child /\ r.parent = t.parent
      /\ r.red = (t.red \ {w, p}) \cup {g}
  <2>1. {g} \in SUBSET Elems
    BY <1>1
  <2>2. QED
    BY <1>3, <2>1, PaintIs
<1>7. bh2 \in [Pointers -> Nat] /\ bh2[Nil] = 0
      /\ bh2[w] = bh[w] + 1 /\ bh2[p] = bh[p] + 1
      /\ \A x \in Pointers : x # w /\ x # p => bh2[x] = bh[x]
  <2>1. \A x \in Pointers : bh2[x] = IF x \in {w, p} THEN bh[x] + 1 ELSE bh[x]
    BY DEF Recoloured
  <2>2. bh2 = [x \in Pointers |-> IF x \in {w, p} THEN bh[x] + 1 ELSE bh[x]]
    BY DEF Recoloured
  <2>3. w \in Pointers /\ p \in Pointers /\ Nil \in Pointers /\ Nil # w /\ Nil # p
    BY <1>1, <1>5, ElemsAre
  <2> HIDE DEF bh2
  <2>4. QED
    BY <1>3, <2>1, <2>2, <2>3
<1> HIDE DEF r, bh2
<1>8. Forest(r, sub) /\ sub[r.root] = S
  BY <1>3, <1>6, LinksForest DEF SameLinks
<1>9. \A x \in Elems, b \in Sides : Lack(Nil, "left", x, b) = 0
  BY ElemsAre DEF Lack
<1>10. Black(r, w) = 1 /\ Black(r, p) = 1 /\ Black(r, g) = 0
       /\ Black(t, w) = 0 /\ Black(t, p) = 0 /\ Black(t, g) = 1
       /\ \A x \in Elems : x \notin {w, p, g} => Black(r, x) = Black(t, x)
  BY <1>1, <1>3, <1>5, <1>6 DEF Black
<1>11. ASSUME NEW x \in Elems, NEW b \in Sides
       PROVE  bh2[x] = bh2[t.child[b][x]] + Black(r, x) + Lack(Nil, "left", x, b)
  <2> DEFINE c == t.child[b][x]
  <2>1. bh[x] = bh[c] + Black(t, x) /\ bh[x] \in Nat /\ bh[c] \in Nat /\ Black(t, x) \in {0, 1}
    <3>1. bh[x] = bh[c] + Black(t, x) + Lack(Nil, "left", x, b)
          /\ bh[x] \in Nat /\ bh[c] \in Nat /\ Black(t, x) \in {0, 1}
      BY <1>3, HeightsAt
    <3>2. QED
      BY <1>9, <3>1
  <2>2. c \in Pointers /\ x \in Pointers
    BY <1>3, ChildIs, ElemsAre
  <2>3. Lack(Nil, "left", x, b) = 0
    BY <1>9
  <2>4. x = g => c \in {w, p}
    BY <1>1, <1>4
  <2>5. x # g => c # w /\ c # p
    BY <1>5
  <2> HIDE DEF c
  <2>6. CASE x = g
    <3>1. bh2[c] = bh[c] + 1
      BY <1>7, <2>4, <2>6
    <3>2. bh2[x] = bh[x]
      BY <1>1, <1>5, <1>7, <2>2, <2>6
    <3>3. Black(t, x) = 1 /\ Black(r, x) = 0
      BY <1>10, <2>6
    <3>4. QED
      BY <2>1, <2>3, <3>1, <3>2, <3>3 DEF c
  <2>7. CASE x # g
    <3>1. bh2[c] = bh[c]
      BY <1>7, <2>2, <2>5, <2>7
    <3>2. CASE x \in {w, p}
      <4>1. bh2[x] = bh[x] + 1 /\ Black(t, x) = 0 /\ Black(r, x) = 1
        BY <1>7, <1>10, <3>2
      <4>2. QED
        BY <2>1, <2>3, <3>1, <4>1 DEF c
    <3>3. CASE x \notin {w, p}
      <4>1. bh2[x] = bh[x] /\ Black(r, x) = Black(t, x)
        BY <1>7, <1>10, <2>2, <2>7, <3>3
      <4>2. QED
        BY <2>1, <2>3, <3>1, <4>1 DEF c
    <3>4. QED
      BY <3>2, <3>3
  <2>8. QED
    BY <2>6, <2>7
<1>12. Heights(r, bh2, Nil, "left")
  BY <1>6, <1>7, <1>11 DEF Heights
<1>13. Reds(r, Nil, g)
  <2>1. SUFFICES ASSUME NEW x \in Elems, NEW b \in Sides, x \in r.red, t.child[b][x] \in r.red,
                        t.child[b][x] # g
                 PROVE  FALSE
    BY <1>6 DEF Reds
  <2>2. t.child[b][x] # w /\ t.child[b][x] # p /\ t.child[b][x] \in t.red
    BY <1>1, <1>6, <2>1
  <2>3. x # g
    BY <1>1, <1>4, <2>2
  <2>4. x \in t.red /\ x # p
    BY <1>1, <1>6, <2>1, <2>3
  <2>5. t.child[b][x] = e
    BY <1>3, <2>2, <2>4, ElemsAre DEF Reds
  <2>6. t.parent[e] = x
    <3>1. t.child[b][x] # Nil
      BY <1>1, <2>5, ElemsAre
    <3>2. t.parent[t.child[b][x]] = x
      BY <1>3, <3>1 DEF Forest
    <3>3. QED
      BY <2>5, <3>2
  <2>7. p = t.parent[e]
    BY DEF Kin
  <2>8. QED
    BY <2>4, <2>6, <2>7
<1>14. r.red \subseteq S /\ g \in r.red /\ (r.root \in r.red => r.root = g)
  BY <1>1, <1>3, <1>6
<1>15. Cardinality(sub[e]) + 1 <= Cardinality(sub[g])
  <2>1. sub[t.child[d][g]] \subseteq sub[g] /\ g \notin sub[t.child[d][g]] /\ g \in sub[g] /\ sub[g] \subseteq Elems
    BY <1>1, <1>3, ChildIs
  <2>2. PICK b \in Sides : t.child[b][p] = e
    BY <1>2
  <2>3. sub[t.child[b][p]] \subseteq sub[p]
    BY <1>1, <1>3, ChildIs
  <2>4. sub[e] \subseteq sub[g] /\ g \notin sub[e] /\ g \in sub[g] /\ sub[g] \in SUBSET Elems
    BY <1>1, <2>1, <2>2, <2>3
  <2>5. QED
    BY <2>4, MoreBelow
<1>16. QED
  BY <1>8, <1>12, <1>13, <1>14, <1>15 DEF Inserting, r, bh2

----------------------------------------------------------------------------
LEMMA SideOf ==
  ASSUME NEW t, NEW sub, Forest(t, sub), NEW x \in Elems, NEW d \in Sides, NEW c, c # Nil,
         t.child[d][x] = c
  PROVE  Side(t, x, c) = d
<1>1. t.child[d][x] # Nil
  OBVIOUS
<1>2. \A b \in Sides : t.child[b][x] = t.child[d][x] => b = d
  BY <1>1, OnePlace
<1>3. QED
  BY <1>2 DEF Side, Sides

LEMMA NoLack == \A x \in Elems, b \in Sides : \A d : Lack(Nil, d, x, b) = 0
BY ElemsAre DEF Lack

(* The rotation at the parent of an e that hangs inside: p is the next e.  *)
LEMMA InnerTurn ==
  ASSUME NEW t, NEW sub, NEW bh, NEW e, NEW S, Inserting(t, sub, bh, e, S),
         NEW p, NEW g, NEW d, NEW w, Kin(t, e, p, g, d, w), p \in t.red, t.child[Other(d)][p] = e
  PROVE  /\ \E sub2, bh2 : Inserting(Rotate(t, p, d), sub2, bh2, p, S)
         /\ Kin(Rotate(t, p, d), p, e, g, d, w)
         /\ Rotate(t, p, d).red = t.red
         /\ Rotate(t, p, d).child[d][e] = p
<1> DEFINE o == Other(d)
           i == t.child[d][e]
           u == Rotate(t, p, d)
           s == Rotated(t, sub, p, d)
<1>1. /\ e \in S /\ e \in Elems /\ p \in S /\ p \in Elems /\ g \in S /\ g \in Elems
      /\ d \in Sides /\ t.child[d][g] = p /\ g \notin t.red /\ t.root \notin t.red
      /\ p # e /\ g # p /\ g # e /\ g # Nil /\ S \subseteq Elems
      /\ w \in Pointers /\ t.child[o][g] = w
  BY RedParent
<1>2. /\ Forest(t, sub) /\ t \in Trees /\ sub[t.root] = S /\ Heights(t, bh, Nil, "left")
      /\ Reds(t, Nil, e) /\ t.red \subseteq S /\ e \in t.red /\ p \in t.red
  BY DEF Inserting, Forest
<1>3. o \in Sides /\ d # o /\ \A b \in Sides : b = d \/ b = o
  BY <1>1, SidesAre
<1>4. t.child[o][p] = e /\ p # Nil /\ e # Nil /\ t.parent[p] = g
  BY <1>1, ElemsAre DEF Kin
<1>5. Rotates(t, sub, p, d)
  BY <1>1, <1>2, <1>4 DEF Rotates
<1>6. /\ u \in Trees /\ u.red = t.red
      /\ u.root = IF p = t.root THEN e ELSE t.root
      /\ \A x \in Elems :
           u.parent[x] = IF x = p THEN e ELSE IF x = e THEN g ELSE IF x = i THEN p ELSE t.parent[x]
      /\ \A b \in Sides, x \in Elems :
           u.child[b][x] = IF x = p /\ b = o THEN i
                           ELSE IF x = e /\ b = d THEN p
                           ELSE IF t.child[b][x] = p THEN e ELSE t.child[b][x]
  BY <1>4, <1>5, RotateIs
<1>7. Forest(u, s) /\ s[u.root] = S
  BY <1>2, <1>5, RotateForest
<1>8. \E bh2 : Heights(u, bh2, Nil, "left")
  <2>1. Swapped(t, t, p, e)
    BY <1>2 DEF Swapped, SameLinks
  <2>2. Nil # e /\ Nil # p
    BY <1>4
  <2>3. e = t.child[Other(d)][p]
    BY <1>4
  <2>4. Heights(u, [bh EXCEPT ![p] = bh[e], ![e] = bh[p]], Nil, "left")
    BY <1>2, <1>5, <2>1, <2>2, <2>3, RotateHeights
  <2>5. QED
    BY <2>4
<1>9. i # e /\ t.child[o][e] # e /\ w # p
  <2>1. i # e /\ t.child[o][e] # e
    BY <1>1, <1>2, <1>3, <1>4, OnePlace
  <2>2. \A b \in Sides : t.child[b][g] = t.child[d][g] => b = d
    BY <1>1, <1>2, <1>4, OnePlace
  <2>3. QED
    BY <1>1, <1>3, <2>1, <2>2
<1>10. \A x \in Elems, b \in Sides : t.child[b][x] = e => x = p /\ b = o
  BY <1>1, <1>2, <1>3, <1>4, OnePlace
<1>11. \A x \in Elems, b \in Sides : t.child[b][x] = p => x = g /\ b = d
  BY <1>1, <1>2, <1>3, <1>4, OnePlace
<1>12. \A x \in Elems, b \in Sides : x \in t.red /\ t.child[b][x] \in t.red => t.child[b][x] = e
  BY <1>2, ElemsAre DEF Reds
<1> HIDE DEF i, u, s
<1>13. Reds(u, Nil, p)
  <2>1. SUFFICES ASSUME NEW x \in Elems, NEW b \in Sides, x \in t.red, u.child[b][x] \in t.red,
                        u.child[b][x] # p
                 PROVE  FALSE
    BY <1>6 DEF Reds
  <2>2. CASE x = p /\ b = o
    <3>1. i \in t.red
      BY <1>1, <1>6, <2>1, <2>2
    <3>2. t.child[d][e] \in t.red
      BY <3>1 DEF i
    <3>3. QED
      BY <1>1, <1>2, <1>9, <1>12, <3>2 DEF i
  <2>3. CASE x = e /\ b = d
    BY <1>1, <1>6, <2>1, <2>3
  <2>4. CASE ~(x = p /\ b = o) /\ ~(x = e /\ b = d) /\ t.child[b][x] = p
    BY <1>1, <1>11, <2>1, <2>4
  <2>5. CASE ~(x = p /\ b = o) /\ ~(x = e /\ b = d) /\ t.child[b][x] # p
    <3>1. t.child[b][x] \in t.red
      BY <1>6, <2>1, <2>5
    <3>2. QED
      BY <1>10, <1>12, <2>1, <2>5, <3>1
  <2>6. QED
    BY <2>2, <2>3, <2>4, <2>5
<1>14. u.root \notin u.red
  BY <1>1, <1>2, <1>6
<1>15. \E sub2, bh2 : Inserting(u, sub2, bh2, p, S)
  BY <1>2, <1>6, <1>7, <1>8, <1>13, <1>14 DEF Inserting
<1>16. u.child[d][e] = p /\ u.child[d][g] = e /\ u.child[o][g] = w /\ u.parent[p] = e /\ u.parent[e] = g
  BY <1>1, <1>3, <1>4, <1>6, <1>9
<1>17. Side(u, g, e) = d
  BY <1>1, <1>4, <1>7, <1>16, SideOf
<1>18. Kin(u, p, e, g, d, w)
  BY <1>16, <1>17 DEF Kin
<1>19. QED
  BY <1>6, <1>15, <1>16, <1>18 DEF u

(* The rotation at the grandparent of a low that hangs outside: the end.   *)
LEMMA OuterTurn ==
  ASSUME NEW t, NEW sub, NEW bh, NEW low, NEW S, Inserting(t, sub, bh, low, S),
         NEW top, NEW g, NEW d, NEW w, Kin(t, low, top, g, d, w), top \in t.red, w \notin t.red,
         t.child[d][top] = low,
         NEW u, u = Rotate(Paint(t, {top}, {g}), g, Other(d))
  PROVE  /\ \E sub2, bh2 : Inserting(u, sub2, bh2, low, S)
         /\ u.parent[low] \notin u.red
<1> DEFINE o == Other(d)
           i == t.child[o][top]
           r == Paint(t, {top}, {g})
           v == Rotate(r, g, o)
           s == Rotated(r, sub, g, o)
<1>1. /\ low \in S /\ low \in Elems /\ top \in S /\ top \in Elems /\ g \in S /\ g \in Elems
      /\ d \in Sides /\ t.child[d][g] = top /\ g \notin t.red /\ t.root \notin t.red
      /\ top # low /\ g # top /\ g # low /\ g # Nil /\ S \subseteq Elems
      /\ w \in Pointers /\ t.child[o][g] = w
  BY RedParent
<1>2. /\ Forest(t, sub) /\ t \in Trees /\ sub[t.root] = S /\ Heights(t, bh, Nil, "left")
      /\ Reds(t, Nil, low) /\ t.red \subseteq S /\ low \in t.red /\ top \in t.red
  BY DEF Inserting, Forest
<1>3. o \in Sides /\ d # o /\ Other(o) = d /\ \A b \in Sides : b = d \/ b = o
  BY <1>1, SidesAre
<1>4. t.child[d][top] = low /\ top # Nil /\ low # Nil /\ t.parent[low] = top
  BY <1>1, ElemsAre DEF Kin
<1>5. r \in Trees /\ r.root = t.root /\ r.child = t.child /\ r.parent = t.parent
      /\ r.red = (t.red \ {top}) \cup {g}
  <2>1. {g} \in SUBSET Elems
    BY <1>1
  <2>2. QED
    BY <1>2, <2>1, PaintIs
<1> HIDE DEF r
<1>6. Swapped(t, r, g, top)
  BY <1>1, <1>2, <1>5 DEF Swapped, SameLinks
<1>7. Rotates(t, sub, g, o)
  BY <1>1, <1>2, <1>3, <1>4 DEF Rotates
<1>8. Rotates(r, sub, g, o)
  <2>1. Forest(r, sub)
    BY <1>2, <1>5, LinksForest DEF SameLinks
  <2>2. QED
    BY <1>5, <1>7, <2>1 DEF Rotates
<1>9. /\ v \in Trees /\ v.red = r.red
      /\ v.root = IF g = t.root THEN top ELSE t.root
      /\ \A x \in Elems :
           v.parent[x] = IF x = g THEN top ELSE IF x = top THEN t.parent[g] ELSE IF x = i THEN g ELSE t.parent[x]
      /\ \A b \in Sides, x \in Elems :
           v.child[b][x] = IF x = g /\ b = d THEN i
                           ELSE IF x = top /\ b = o THEN g
                           ELSE IF t.child[b][x] = g THEN top ELSE t.child[b][x]
  <2>1. r.child[Other(o)][g] = top /\ r.child[o][top] = i
    BY <1>1, <1>3, <1>5
  <2>2. QED
    BY <1>3, <1>5, <1>8, <2>1, RotateIs
<1>10. Forest(v, s) /\ s[v.root] = S
  BY <1>2, <1>5, <1>8, RotateForest
<1>11. \E bh2 : Heights(v, bh2, Nil, "left")
  <2>1. top = t.child[Other(o)][g]
    BY <1>1, <1>3
  <2>2. Nil # top /\ Nil # g
    BY <1>1, <1>4
  <2>3. Heights(v, [bh EXCEPT ![g] = bh[top], ![top] = bh[g]], Nil, "left")
    BY <1>2, <1>6, <1>7, <2>1, <2>2, RotateHeights
  <2>4. QED
    BY <2>3
<1>12. \A x \in Elems, b \in Sides : t.child[b][x] = top => x = g /\ b = d
  BY <1>1, <1>2, <1>3, <1>4, OnePlace
<1>13. \A x \in Elems, b \in Sides : t.child[b][x] = low => x = top /\ b = d
  BY <1>1, <1>2, <1>3, <1>4, OnePlace
<1>14. \A x \in Elems, b \in Sides : x \in t.red /\ t.child[b][x] \in t.red => t.child[b][x] = low
  BY <1>2, ElemsAre DEF Reds
<1>15. i # low /\ i # top /\ w # g
  <2>1. i # low
    BY <1>1, <1>3, <1>13
  <2>2. top \notin sub[i] /\ (i \in Elems => i \in sub[i])
    BY <1>1, <1>2, <1>3, ChildIs
  <2>3. g \notin sub[w] /\ (w \in Elems => w \in sub[w])
    BY <1>1, <1>2, <1>3, ChildIs
  <2>4. QED
    BY <1>1, <2>1, <2>2, <2>3
<1> HIDE DEF i, v, s
<1>16. Reds(v, Nil, low)
  <2>1. SUFFICES ASSUME NEW x \in Elems, NEW b \in Sides, x \in r.red, v.child[b][x] \in r.red,
                        v.child[b][x] # low
                 PROVE  FALSE
    BY <1>9 DEF Reds
  <2>2. x # top
    BY <1>1, <1>5, <2>1
  <2>3. CASE x = g /\ b = d
    <3>1. i \in t.red \/ i = g
      BY <1>1, <1>5, <1>9, <2>1, <2>3
    <3>2. i # g
      <4>1. g \notin sub[top] /\ sub[i] \subseteq sub[top] /\ (i \in Elems => i \in sub[i])
        <5>1. g \notin sub[t.child[d][g]]
          BY <1>1, <1>2, ChildIs
        <5>2. sub[t.child[o][top]] \subseteq sub[top]
          BY <1>1, <1>2, <1>3, ChildIs
        <5>3. i \in Elems => i \in sub[i]
          BY <1>2, ChildIs, <1>3
        <5>4. QED
          BY <1>1, <5>1, <5>2, <5>3 DEF i
      <4>2. QED
        BY <1>1, <4>1
    <3>3. t.child[o][top] \in t.red
      BY <3>1, <3>2 DEF i
    <3>4. t.child[o][top] = low
      BY <1>1, <1>2, <1>3, <1>14, <3>3
    <3>5. QED
      BY <1>15, <3>4 DEF i
  <2>4. CASE x = g /\ b = o
    <3>1. v.child[b][x] = w
      BY <1>1, <1>3, <1>9, <1>15, <2>4
    <3>2. w \notin t.red
      OBVIOUS
    <3>3. QED
      BY <1>5, <1>15, <2>1, <3>1, <3>2
  <2>5. CASE x # g /\ t.child[b][x] = g
    BY <1>1, <1>5, <1>9, <2>1, <2>2, <2>5
  <2>6. CASE x # g /\ t.child[b][x] # g
    <3>1. v.child[b][x] = t.child[b][x]
      BY <1>9, <2>2, <2>6
    <3>2. x \in t.red /\ t.child[b][x] \in t.red
      BY <1>5, <2>1, <2>6, <3>1
    <3>3. QED
      BY <1>14, <2>1, <3>1, <3>2
  <2>7. QED
    BY <1>3, <2>3, <2>4, <2>5, <2>6
<1>17. v.root \notin v.red /\ v.red \subseteq S /\ low \in v.red
  BY <1>1, <1>2, <1>5, <1>9
<1>18. v.parent[low] \notin v.red
  <2>1. v.parent[low] = top
    BY <1>1, <1>4, <1>9, <1>15
  <2>2. QED
    BY <1>1, <1>5, <1>9, <2>1
<1>19. \E sub2, bh2 : Inserting(v, sub2, bh2, low, S)
  BY <1>9, <1>10, <1>11, <1>16, <1>17 DEF Inserting
<1>20. u = v
  BY DEF r, v
<1>21. QED
  BY <1>18, <1>19, <1>20

----------------------------------------------------------------------------
(* A red-black tree that holds S. *)
Holds(t, S) ==
  \E sub, bh : /\ Forest(t, sub) /\ sub[t.root] = S /\ Heights(t, bh, Nil, "left")
               /\ Reds(t, Nil, Nil) /\ t.red \subseteq S /\ t.root \notin t.red

(* A turn of RB_INSERT_COLOR ends the loop or goes up the tree. *)
Settled(t, e) == t.parent[e] \notin t.red

LEMMA InsertTurnEnds ==
  ASSUME NEW t, NEW e, Settled(t, e)
  PROVE  InsertTurn(t, e) = [t |-> t, e |-> e]
BY DEF Settled, InsertTurn

LEMMA InsertTurnOK ==
  ASSUME NEW t, NEW sub, NEW bh, NEW e, NEW S, Inserting(t, sub, bh, e, S), ~Settled(t, e)
  PROVE  \E r, f, sub2, bh2 :
           /\ InsertTurn(t, e) = [t |-> r, e |-> f] /\ Inserting(r, sub2, bh2, f, S)
           /\ Settled(r, f) \/ Cardinality(sub[e]) + 1 <= Cardinality(sub2[f])
<1>1. PICK p, g, d, w : Kin(t, e, p, g, d, w)
  BY DEF Kin
<1>2. p \in t.red
  BY <1>1 DEF Settled, Kin
<1>3. /\ p \in Elems /\ g \in Elems /\ d \in Sides /\ t.child[d][g] = p /\ w \in Pointers /\ p # e
      /\ \E b \in Sides : t.child[b][p] = e
  BY <1>1, <1>2, RedParent
<1>4. InsertTurn(t, e) =
        IF w \in t.red THEN [t |-> Paint(t, {w, p}, {g}), e |-> g]
        ELSE IF t.child[Other(d)][p] = e
             THEN [t |-> Rotate(Paint(Rotate(t, p, d), {e}, {g}), g, Other(d)), e |-> p]
             ELSE [t |-> Rotate(Paint(t, {p}, {g}), g, Other(d)), e |-> e]
  <2>1. p = t.parent[e] /\ g = t.parent[p] /\ d = Side(t, g, p) /\ w = t.child[Other(d)][g]
    BY <1>1 DEF Kin
  <2>2. p \in t.red
    BY <1>2
  <2>3. QED
    BY <2>1, <2>2 DEF InsertTurn
<1>5. CASE w \in t.red
  <2>1. /\ Inserting(Paint(t, {w, p}, {g}), sub, Recoloured(bh, w, p), g, S)
        /\ Cardinality(sub[e]) + 1 <= Cardinality(sub[g])
    BY <1>1, <1>2, <1>5, RecolourOK
  <2>2. QED
    BY <1>4, <1>5, <2>1
<1>6. CASE w \notin t.red /\ t.child[Other(d)][p] = e
  <2> DEFINE s == Rotate(t, p, d)
             u == Rotate(Paint(s, {e}, {g}), g, Other(d))
  <2>1. /\ \E sub2, bh2 : Inserting(s, sub2, bh2, p, S)
        /\ Kin(s, p, e, g, d, w) /\ s.red = t.red /\ s.child[d][e] = p
    BY <1>1, <1>2, <1>6, InnerTurn
  <2> HIDE DEF s
  <2>2. PICK sub2, bh2 : Inserting(s, sub2, bh2, p, S)
    BY <2>1
  <2>3. e \in s.red /\ w \notin s.red
    BY <1>6, <2>1 DEF Inserting
  <2>4. (\E sub3, bh3 : Inserting(u, sub3, bh3, p, S)) /\ u.parent[p] \notin u.red
    BY <2>1, <2>2, <2>3, OuterTurn
  <2>5. InsertTurn(t, e) = [t |-> u, e |-> p]
    BY <1>4, <1>6 DEF s
  <2> HIDE DEF u
  <2>6. QED
    BY <2>4, <2>5 DEF Settled
<1>7. CASE w \notin t.red /\ t.child[Other(d)][p] # e
  <2> DEFINE u == Rotate(Paint(t, {p}, {g}), g, Other(d))
  <2>1. t.child[d][p] = e
    BY <1>3, <1>7, SidesAre
  <2>2. (\E sub3, bh3 : Inserting(u, sub3, bh3, e, S)) /\ u.parent[e] \notin u.red
    BY <1>1, <1>2, <1>7, <2>1, OuterTurn
  <2>3. InsertTurn(t, e) = [t |-> u, e |-> e]
    BY <1>4, <1>7
  <2> HIDE DEF u
  <2>4. QED
    BY <2>2, <2>3 DEF Settled
<1>8. QED
  BY <1>5, <1>6, <1>7

LEMMA InsertingTypes ==
  ASSUME NEW t, NEW sub, NEW bh, NEW e, NEW S, Inserting(t, sub, bh, e, S)
  PROVE  /\ t \in Trees /\ e \in Elems /\ e \in sub[e] /\ Cardinality(sub[e]) \in Nat
         /\ Cardinality(sub[e]) <= Cardinality(Elems) /\ 1 <= Cardinality(sub[e])
<1>1. t \in Trees /\ e \in Elems /\ Forest(t, sub)
  <2>1. t \in Trees /\ e \in t.red
    BY DEF Inserting, Forest
  <2>2. QED
    BY <2>1, TreeParts DEF Inserting
<1>2. sub[e] \in SUBSET Elems /\ e \in sub[e]
  BY <1>1, ChildIs, SidesAre DEF Sides
<1>3. IsFiniteSet(sub[e]) /\ Cardinality(sub[e]) <= Cardinality(Elems)
  BY <1>2, RbAssumption, FS_Subset
<1>4. Cardinality(sub[e]) \in Nat /\ Cardinality(sub[e]) # 0
  BY <1>2, <1>3, FS_CardinalityType, FS_EmptySet
<1>5. QED
  BY <1>1, <1>2, <1>3, <1>4

(* RB_INSERT_COLOR *)
LEMMA LoopColors ==
  ASSUME NEW t, NEW sub, NEW bh, NEW e, NEW S, Inserting(t, sub, bh, e, S)
  PROVE  \E r, f, sub2, bh2 :
           /\ Loop([v \in [t : Trees, e : Elems] |-> InsertTurn(v.t, v.e)], [t |-> t, e |-> e]).t = r
           /\ Inserting(r, sub2, bh2, f, S) /\ Settled(r, f)
<1> DEFINE V == [t : Trees, e : Elems]
           step == [v \in V |-> InsertTurn(v.t, v.e)]
           Goes(i, v) == \E sub2, bh2 : /\ Inserting(v.t, sub2, bh2, v.e, S)
                                        /\ Settled(v.t, v.e) \/ i + 1 <= Cardinality(sub2[v.e])
           Q == {q \in Nat \X V : Goes(q[1], q[2])}
           n == Cardinality(Elems)
           x == [t |-> t, e |-> e]
<1>1. n \in Nat
  BY RbAssumption, FS_CardinalityType
<1>2. <<0, x>> \in Q
  <2>1. x \in V /\ x.t = t /\ x.e = e
    BY InsertingTypes
  <2>2. Goes(0, x)
    BY <2>1, InsertingTypes
  <2> HIDE DEF Goes, x
  <2>3. QED
    BY <2>1, <2>2
<1>3. LoopKeeps(step, V, Q)
  <2>1. SUFFICES ASSUME NEW i \in 0..n - 1, NEW v \in V, <<i, v>> \in Q
                 PROVE  <<i + 1, step[v]>> \in Q
    BY DEF LoopKeeps
  <2>2. i \in Nat /\ i + 1 \in Nat
    BY <1>1
  <2>3. PICK sub2, bh2 : /\ Inserting(v.t, sub2, bh2, v.e, S)
                         /\ Settled(v.t, v.e) \/ i + 1 <= Cardinality(sub2[v.e])
    BY <2>1
  <2>4. step[v] = InsertTurn(v.t, v.e)
    OBVIOUS
  <2>5. CASE Settled(v.t, v.e)
    <3>1. step[v] = [t |-> v.t, e |-> v.e]
      BY <2>4, <2>5, InsertTurnEnds
    <3>2. [t |-> v.t, e |-> v.e] = v
      OBVIOUS
    <3>3. Goes(i + 1, v)
      BY <2>3, <2>5
    <3> HIDE DEF Goes, step
    <3>4. QED
      BY <2>2, <3>1, <3>2, <3>3
  <2>6. CASE ~Settled(v.t, v.e)
    <3>1. PICK r, f, sub3, bh3 :
            /\ InsertTurn(v.t, v.e) = [t |-> r, e |-> f] /\ Inserting(r, sub3, bh3, f, S)
            /\ Settled(r, f) \/ Cardinality(sub2[v.e]) + 1 <= Cardinality(sub3[f])
      BY <2>3, <2>6, InsertTurnOK
    <3>2. r \in Trees /\ f \in Elems /\ Cardinality(sub3[f]) \in Nat
      BY <3>1, InsertingTypes
    <3>3. Cardinality(sub2[v.e]) \in Nat
      BY <2>3, InsertingTypes
    <3>4. Settled(r, f) \/ (i + 1) + 1 <= Cardinality(sub3[f])
      BY <2>2, <2>3, <2>6, <3>1, <3>2, <3>3
    <3> DEFINE y == [t |-> r, e |-> f]
    <3>5. y \in V /\ y.t = r /\ y.e = f /\ step[v] = y
      BY <2>4, <3>1, <3>2
    <3> HIDE DEF y, step
    <3>6. Goes(i + 1, y)
      BY <3>1, <3>4, <3>5
    <3> HIDE DEF Goes
    <3>7. QED
      BY <2>2, <3>5, <3>6
  <2>7. QED
    BY <2>5, <2>6
<1>4. Q \in SUBSET (Nat \X V)
  OBVIOUS
<1> HIDE DEF Q, step
<1>5. <<n, Loop(step, x)>> \in Q
  BY <1>2, <1>3, <1>4, LoopEnds
<1>6. Goes(n, Loop(step, x)) /\ Loop(step, x) \in V
  BY <1>5 DEF Q
<1> DEFINE end == Loop(step, x)
<1> HIDE DEF end
<1>7. PICK sub2, bh2 : /\ Inserting(end.t, sub2, bh2, end.e, S)
                       /\ Settled(end.t, end.e) \/ n + 1 <= Cardinality(sub2[end.e])
  BY <1>6 DEF end
<1>8. Cardinality(sub2[end.e]) \in Nat /\ Cardinality(sub2[end.e]) <= n
  BY <1>7, InsertingTypes
<1>9. Settled(end.t, end.e)
  BY <1>1, <1>7, <1>8
<1>10. QED
  BY <1>7, <1>9 DEF end, step

LEMMA InsertColorHolds ==
  ASSUME NEW t, NEW sub, NEW bh, NEW e, NEW S, Inserting(t, sub, bh, e, S)
  PROVE  Holds(InsertColor(t, e), S)
<1>1. PICK r, f, sub2, bh2 :
        /\ Loop([v \in [t : Trees, e : Elems] |-> InsertTurn(v.t, v.e)], [t |-> t, e |-> e]).t = r
        /\ Inserting(r, sub2, bh2, f, S) /\ Settled(r, f)
  BY LoopColors
<1> DEFINE u == Paint(r, {r.root}, {})
<1>2. InsertColor(t, e) = u
  BY <1>1 DEF InsertColor
<1>3. /\ Forest(r, sub2) /\ r \in Trees /\ sub2[r.root] = S /\ Heights(r, bh2, Nil, "left")
      /\ Reds(r, Nil, f) /\ r.red \subseteq S /\ (r.root \in r.red => r.root = f)
      /\ bh2 \in [Pointers -> Nat] /\ bh2[Nil] = 0 /\ f \in Elems
  <2>1. f \in Elems
    BY <1>1, InsertingTypes
  <2>2. Inserting(r, sub2, bh2, f, S)
    BY <1>1
  <2>3. QED
    BY <2>1, <2>2 DEF Inserting, Forest, Heights
<1>4. u \in Trees /\ u.root = r.root /\ u.child = r.child /\ u.parent = r.parent
      /\ u.red = (r.red \ {r.root}) \cup {}
  BY <1>3, PaintIs
<1>5. Forest(u, sub2) /\ sub2[u.root] = S
  BY <1>3, <1>4, LinksForest DEF SameLinks
<1>6. Reds(u, Nil, Nil)
  <2>1. SUFFICES ASSUME NEW x \in Elems, NEW b \in Sides, x \in r.red, r.child[b][x] \in r.red
                 PROVE  FALSE
    BY <1>4 DEF Reds
  <2>2. r.child[b][x] = f
    BY <1>3, <2>1, ElemsAre DEF Reds
  <2>3. r.parent[r.child[b][x]] = x
    BY <1>3, <2>2, ElemsAre DEF Forest
  <2>4. QED
    BY <1>1, <2>1, <2>2, <2>3 DEF Settled
<1> HIDE DEF u
<1>7. CASE r.root \notin r.red
  <2>1. u.red = r.red
    BY <1>4, <1>7
  <2>2. Heights(u, bh2, Nil, "left")
    BY <1>3, <1>4, <2>1 DEF Heights, Black
  <2>3. QED
    BY <1>2, <1>3, <1>4, <1>5, <1>6, <1>7, <2>1, <2>2 DEF Holds
<1>8. CASE r.root \in r.red
  <2> DEFINE bh3 == [bh2 EXCEPT ![r.root] = bh2[r.root] + 1]
  <2>1. r.root \in Elems /\ r.parent[r.root] = Nil
    BY <1>3, <1>8, ElemsAre DEF Forest
  <2>2. /\ bh3 \in [Pointers -> Nat] /\ bh3[Nil] = 0 /\ bh3[r.root] = bh2[r.root] + 1
        /\ \A x \in Pointers : x # r.root => bh3[x] = bh2[x]
    BY <1>3, <2>1, ElemsAre
  <2>3. \A x \in Elems, b \in Sides : r.child[b][x] # r.root
    BY <1>3, <2>1, ElemsAre DEF Forest
  <2> HIDE DEF bh3
  <2>4. Black(u, r.root) = 1 /\ Black(r, r.root) = 0
        /\ \A x \in Elems : x # r.root => Black(u, x) = Black(r, x)
    BY <1>4, <1>8 DEF Black
  <2>5. ASSUME NEW x \in Elems, NEW b \in Sides
        PROVE  bh3[x] = bh3[r.child[b][x]] + Black(u, x) + Lack(Nil, "left", x, b)
    <3> DEFINE c == r.child[b][x]
    <3>1. bh2[x] = bh2[c] + Black(r, x) + Lack(Nil, "left", x, b)
          /\ bh2[x] \in Nat /\ bh2[c] \in Nat /\ Black(r, x) \in {0, 1} /\ Lack(Nil, "left", x, b) = 0
      BY <1>3, HeightsAt, NoLack
    <3>2. c \in Pointers /\ c # r.root /\ x \in Pointers
      BY <1>3, <2>3, ChildIs, ElemsAre
    <3> HIDE DEF c
    <3>3. bh3[c] = bh2[c]
      BY <2>2, <3>2
    <3>4. CASE x = r.root
      <4>1. Black(u, x) = 1 /\ Black(r, x) = 0 /\ bh3[x] = bh2[x] + 1
        BY <2>2, <2>4, <3>4
      <4>2. QED
        BY <3>1, <3>3, <4>1 DEF c
    <3>5. CASE x # r.root
      <4>1. Black(u, x) = Black(r, x) /\ bh3[x] = bh2[x]
        BY <2>2, <2>4, <3>2, <3>5
      <4>2. QED
        BY <3>1, <3>3, <4>1 DEF c
    <3>6. QED
      BY <3>4, <3>5
  <2>6. Heights(u, bh3, Nil, "left")
    BY <1>4, <2>2, <2>5 DEF Heights
  <2>7. u.red \subseteq S /\ u.root \notin u.red
    BY <1>3, <1>4
  <2>8. QED
    BY <1>2, <1>5, <1>6, <2>6, <2>7 DEF Holds
<1>9. QED
  BY <1>7, <1>8

----------------------------------------------------------------------------
(* A loop every turn of which ends it or brings its state further down has  *)
(* ended after as many turns as there are elements.                         *)
Descends(step, G, rank) ==
  \A v \in G : step[v] \in G /\ (step[v] = v \/ rank[step[v]] < rank[v])

LEMMA LoopSettles ==
  ASSUME NEW step, NEW G, NEW x \in G, NEW rank \in [G -> 0..Cardinality(Elems)],
         Descends(step, G, rank)
  PROVE  Loop(step, x) \in G /\ step[Loop(step, x)] = Loop(step, x)
<1> DEFINE n == Cardinality(Elems)
           Q == {q \in Nat \X G : step[q[2]] = q[2] \/ rank[q[2]] + q[1] <= n}
<1>1. n \in Nat
  BY RbAssumption, FS_CardinalityType
<1> HIDE DEF n
<1>2. \A v \in G : rank[v] \in Nat /\ rank[v] <= n
  BY <1>1 DEF n
<1>3. \A i \in Nat, v \in G : <<i, v>> \in Q <=> step[v] = v \/ rank[v] + i <= n
  OBVIOUS
<1>4. Q \in SUBSET (Nat \X G)
  OBVIOUS
<1> HIDE DEF Q
<1>5. <<0, x>> \in Q
  BY <1>2, <1>3
<1>6. LoopKeeps(step, G, Q)
  <2>1. SUFFICES ASSUME NEW i \in 0..n - 1, NEW v \in G, <<i, v>> \in Q
                 PROVE  <<i + 1, step[v]>> \in Q
    BY DEF LoopKeeps, n
  <2>2. i \in Nat /\ i + 1 \in Nat
    BY <1>1
  <2>3. step[v] \in G /\ (step[v] = v \/ rank[step[v]] < rank[v])
    BY DEF Descends
  <2>4. step[v] = v \/ rank[v] + i <= n
    BY <1>3, <2>1, <2>2
  <2>5. CASE step[v] = v
    BY <1>3, <2>2, <2>3, <2>5
  <2>6. CASE step[v] # v
    <3>1. rank[step[v]] + (i + 1) <= n
      BY <1>1, <1>2, <2>2, <2>3, <2>4, <2>6
    <3>2. QED
      BY <1>3, <2>2, <2>3, <3>1
  <2>7. QED
    BY <2>5, <2>6
<1>7. <<n, Loop(step, x)>> \in Q
  BY <1>4, <1>5, <1>6, LoopEnds DEF n
<1> DEFINE y == Loop(step, x)
<1> HIDE DEF y
<1>8. y \in G /\ (step[y] = y \/ rank[y] + n <= n)
  <2>1. y \in G
    BY <1>4, <1>7 DEF y
  <2>2. QED
    BY <1>1, <1>3, <1>7, <2>1 DEF y
<1>9. step[y] = y
  <2>1. SUFFICES ASSUME step[y] # y
                 PROVE  FALSE
    OBVIOUS
  <2>2. step[y] \in G /\ rank[step[y]] < rank[y]
    BY <1>8, <2>1 DEF Descends
  <2>3. rank[y] \in Nat /\ rank[step[y]] \in Nat /\ rank[y] + n <= n
    BY <1>2, <1>8, <2>1, <2>2
  <2>4. QED
    BY <1>1, <2>2, <2>3
<1>10. QED
  BY <1>8, <1>9 DEF y

(* The elements below, as a rank. *)
SizesBelow(sub) == [x \in Pointers |-> Cardinality(sub[x])]

LEMMA SizesBelowAre ==
  ASSUME NEW t, NEW sub, Forest(t, sub)
  PROVE  /\ SizesBelow(sub) \in [Pointers -> 0..Cardinality(Elems)]
         /\ \A x \in Elems, d \in Sides : SizesBelow(sub)[t.child[d][x]] < SizesBelow(sub)[x]
<1>1. Cardinality(Elems) \in Nat
  BY RbAssumption, FS_CardinalityType
<1>2. ASSUME NEW x \in Pointers
      PROVE  Cardinality(sub[x]) \in 0..Cardinality(Elems)
  <2>1. sub[x] \in SUBSET Elems
    BY DEF Forest
  <2>2. IsFiniteSet(sub[x]) /\ Cardinality(sub[x]) <= Cardinality(Elems)
    BY <2>1, RbAssumption, FS_Subset
  <2>3. QED
    BY <1>1, <2>2, FS_CardinalityType
<1>3. ASSUME NEW x \in Elems, NEW d \in Sides
      PROVE  SizesBelow(sub)[t.child[d][x]] < SizesBelow(sub)[x]
  <2> DEFINE c == t.child[d][x]
  <2>1. c \in Pointers /\ x \in Pointers /\ sub[c] \subseteq sub[x] /\ x \in sub[x] /\ x \notin sub[c]
        /\ sub[x] \in SUBSET Elems
    BY ChildIs, ElemsAre
  <2> HIDE DEF c
  <2>2. Cardinality(sub[c]) \in Nat /\ Cardinality(sub[x]) \in Nat /\ Cardinality(sub[c]) + 1 <= Cardinality(sub[x])
    BY <2>1, MoreBelow
  <2>3. Cardinality(sub[c]) < Cardinality(sub[x])
    BY <2>2
  <2>4. SizesBelow(sub)[c] = Cardinality(sub[c]) /\ SizesBelow(sub)[x] = Cardinality(sub[x])
    BY <2>1 DEF SizesBelow
  <2>5. QED
    BY <2>3, <2>4 DEF c
<1>4. QED
  BY <1>2, <1>3 DEF SizesBelow

(* The search for e: at is on its way. *)
OnWay(t, sub, e, at) ==
  /\ at \in sub[t.root]
  /\ e \in sub[t.root] => e \in sub[at]
  /\ \A y \in Elems, b \in Sides : at \in sub[t.child[b][y]] => Before(b, e, y)

LEMMA WayOn ==
  ASSUME NEW t, NEW sub, Forest(t, sub), NEW e \in Elems, NEW x \in Elems, OnWay(t, sub, e, x), e # x
  PROVE  /\ Way(e, x) \in Sides /\ t.child[Way(e, x)][x] \in Pointers
         /\ e \in sub[t.root] => e \in sub[t.child[Way(e, x)][x]]
         /\ t.child[Way(e, x)][x] # Nil => OnWay(t, sub, e, t.child[Way(e, x)][x])
<1> DEFINE d == Way(e, x)
           c == t.child[d][x]
<1>1. d \in Sides /\ Before(d, e, x)
  BY WayIs
<1> HIDE DEF d
<1>2. c \in Pointers /\ sub[x] = {x} \cup sub[c] \cup sub[t.child[Other(d)][x]]
  BY <1>1, ChildIs
<1>3. e \notin sub[t.child[Other(d)][x]]
  <2>1. ~Before(Other(d), e, x)
    BY <1>1, BeforeIs
  <2>2. QED
    BY <1>1, <2>1, SidesAre DEF Forest
<1>4. e \in sub[t.root] => e \in sub[c]
  BY <1>2, <1>3 DEF OnWay
<1>5. ASSUME c # Nil
      PROVE  OnWay(t, sub, e, c)
  <2>1. c \in Elems /\ c # x /\ t.parent[c] = x /\ \A y \in Elems, b \in Sides : t.child[b][y] = c => y = x /\ b = d
    BY <1>1, <1>5, OnePlace
  <2>2. c \in sub[t.root]
    BY <1>1, <1>5, TreeClosed DEF OnWay
  <2>3. ASSUME NEW y \in Elems, NEW b \in Sides, c \in sub[t.child[b][y]]
        PROVE  Before(b, e, y)
    <3>1. CASE c = t.child[b][y]
      BY <1>1, <2>1, <3>1
    <3>2. CASE c # t.child[b][y]
      <4> DEFINE k == t.child[b][y]
      <4>1. k \in Elems
        <5>1. k \in Pointers /\ (k = Nil => sub[k] = {})
          BY ChildIs DEF Forest
        <5>2. QED
          BY <2>3, <5>1, ElemsAre
      <4> HIDE DEF k
      <4>2. c \in sub[k] /\ c # k
        BY <2>3, <3>2 DEF k
      <4>3. x \in sub[k]
        BY <2>1, <4>1, <4>2, BelowBelow
      <4>4. QED
        BY <4>3 DEF k, OnWay
    <3>3. QED
      BY <3>1, <3>2
  <2>4. QED
    BY <1>4, <2>2, <2>3 DEF OnWay
<1>6. QED
  BY <1>1, <1>2, <1>4, <1>5 DEF d

LEMMA RootOnWay ==
  ASSUME NEW t, NEW sub, Forest(t, sub), NEW e \in Elems, t.root # Nil
  PROVE  t.root \in Elems /\ OnWay(t, sub, e, t.root)
<1>1. t.root \in Elems /\ t.parent[t.root] = Nil
  BY TreeParts, ElemsAre DEF Forest
<1>2. t.root \in sub[t.root]
  BY <1>1, ChildIs DEF Sides
<1>3. ASSUME NEW y \in Elems, NEW b \in Sides, t.root \in sub[t.child[b][y]]
      PROVE  FALSE
  <2> DEFINE k == t.child[b][y]
  <2>1. k \in Pointers /\ (k = Nil => sub[k] = {}) /\ (k # Nil => t.parent[k] = y)
    BY ChildIs DEF Forest
  <2>2. k \in Elems /\ t.parent[k] = y
    BY <1>3, <2>1, ElemsAre
  <2>3. y # Nil
    BY ElemsAre
  <2> HIDE DEF k
  <2>4. t.root \in sub[k]
    BY <1>3 DEF k
  <2>5. t.root # k
    BY <1>1, <2>2, <2>3
  <2>6. t.parent[t.root] \in sub[k]
    BY <2>2, <2>4, <2>5, BelowBelow
  <2>7. sub[k] \subseteq Elems
    BY <2>2, ChildIs DEF Sides
  <2>8. QED
    BY <1>1, <2>6, <2>7, ElemsAre
<1>4. QED
  BY <1>1, <1>2, <1>3 DEF OnWay

LEMMA DescendIs ==
  ASSUME NEW t, NEW sub, Forest(t, sub), NEW e \in Elems, t.root # Nil
  PROVE  LET p == Descend(t, t.root, e)
         IN /\ p \in Elems /\ OnWay(t, sub, e, p)
            /\ p = e <=> e \in sub[t.root]
            /\ p # e => t.child[Way(e, p)][p] = Nil
<1> DEFINE step == [x \in Elems |-> LET next == t.child[Way(e, x)][x]
                                    IN IF x = e \/ next = Nil THEN x ELSE next]
           G == {x \in Elems : OnWay(t, sub, e, x)}
           rank == [x \in G |-> SizesBelow(sub)[x]]
           p == Descend(t, t.root, e)
<1>1. \A x \in Elems : step[x] = IF x = e \/ t.child[Way(e, x)][x] = Nil THEN x ELSE t.child[Way(e, x)][x]
  OBVIOUS
<1>2. p = Loop(step, t.root)
  BY DEF Descend
<1> HIDE DEF step, p
<1>3. t.root \in G
  BY RootOnWay
<1>4. rank \in [G -> 0..Cardinality(Elems)]
  <2>1. \A x \in G : x \in Pointers
    BY ElemsAre
  <2>2. QED
    BY <2>1, SizesBelowAre
<1>5. Descends(step, G, rank)
  <2>1. SUFFICES ASSUME NEW x \in G
                 PROVE  step[x] \in G /\ (step[x] = x \/ rank[step[x]] < rank[x])
    BY DEF Descends
  <2>2. CASE x = e \/ t.child[Way(e, x)][x] = Nil
    BY <1>1, <2>2
  <2>3. CASE ~(x = e \/ t.child[Way(e, x)][x] = Nil)
    <3>1. step[x] = t.child[Way(e, x)][x]
      BY <1>1, <2>3
    <3>2. Way(e, x) \in Sides /\ t.child[Way(e, x)][x] \in Elems /\ OnWay(t, sub, e, t.child[Way(e, x)][x])
      BY <2>3, WayOn, ElemsAre
    <3>3. SizesBelow(sub)[step[x]] < SizesBelow(sub)[x]
      BY <3>1, <3>2, SizesBelowAre
    <3>4. QED
      BY <3>1, <3>2, <3>3
  <2>4. QED
    BY <2>2, <2>3
<1> HIDE DEF rank
<1>6. p \in G /\ step[p] = p
  BY <1>2, <1>3, <1>4, <1>5, LoopSettles
<1>7. p \in Elems /\ OnWay(t, sub, e, p)
  BY <1>6
<1>8. p = e \/ t.child[Way(e, p)][p] = Nil
  <2>1. SUFFICES ASSUME p # e, t.child[Way(e, p)][p] # Nil
                 PROVE  FALSE
    OBVIOUS
  <2>2. t.child[Way(e, p)][p] = p
    BY <1>1, <1>6, <1>7, <2>1
  <2>3. Way(e, p) \in Sides
    BY <1>7, <2>1, WayIs
  <2>4. QED
    BY <1>7, <2>1, <2>2, <2>3, OnePlace
<1>9. e \in sub[t.root] => p = e
  <2>1. SUFFICES ASSUME e \in sub[t.root], p # e
                 PROVE  FALSE
    OBVIOUS
  <2>2. e \in sub[t.child[Way(e, p)][p]]
    BY <1>7, <2>1, WayOn
  <2>3. QED
    BY <1>8, <2>1, <2>2 DEF Forest
<1>10. p = e => e \in sub[t.root]
  BY <1>7 DEF OnWay
<1>11. QED
  BY <1>7, <1>8, <1>9, <1>10 DEF p

----------------------------------------------------------------------------
(* RB_INSERT links e below p, where the search for it ends. *)
LinksAt(t, sub, p, e) ==
  /\ Forest(t, sub) /\ e \in Elems /\ e \notin sub[t.root]
  /\ IF p = Nil THEN t.root = Nil
     ELSE /\ p \in sub[t.root] /\ t.child[Way(e, p)][p] = Nil
          /\ \A y \in Elems, b \in Sides : p \in sub[t.child[b][y]] => Before(b, e, y)

Hung(sub, p, e) ==
  [x \in Pointers |-> IF x = e THEN {e} ELSE IF p \in sub[x] THEN sub[x] \cup {e} ELSE sub[x]]

LEMMA LinkIs ==
  ASSUME NEW t, NEW sub, NEW p, NEW e, LinksAt(t, sub, p, e)
  PROVE  LET u == Link(t, p, e)
         IN /\ u \in Trees /\ u.red = t.red \cup {e} /\ p \in Pointers /\ p # e
            /\ u.root = IF p = Nil THEN e ELSE t.root
            /\ \A x \in Elems : u.parent[x] = IF x = e THEN p ELSE t.parent[x]
            /\ \A b \in Sides, x \in Elems :
                 u.child[b][x] = IF x = e THEN Nil
                                 ELSE IF x = p /\ b = Way(e, p) THEN e ELSE t.child[b][x]
<1> DEFINE s == [root |-> t.root, child |-> [d \in Sides |-> [t.child[d] EXCEPT ![e] = Nil]],
                 parent |-> [t.parent EXCEPT ![e] = p], red |-> t.red \cup {e}]
           u == Link(t, p, e)
<1>1. t \in Trees /\ e \in Elems
  BY DEF LinksAt, Forest
<1>2. p \in Pointers /\ p # e /\ e # Nil
  <2>1. CASE p = Nil
    BY <1>1, <2>1, ElemsAre
  <2>2. CASE p # Nil
    <3>1. p \in sub[t.root] /\ e \notin sub[t.root] /\ Forest(t, sub)
      BY <2>2 DEF LinksAt
    <3>2. p \in Elems
      BY <3>1, TreeClosed
    <3>3. QED
      BY <1>1, <3>1, <3>2, ElemsAre
  <2>3. QED
    BY <2>1, <2>2
<1>3. /\ t.root \in Pointers /\ t.red \in SUBSET Elems /\ t.parent \in [Elems -> Pointers]
      /\ \A d \in Sides : t.child[d] \in [Elems -> Pointers]
  BY <1>1 DEF Trees
<1>4. s \in Trees
  BY <1>1, <1>2, <1>3, ElemsAre DEF Trees
<1>5. /\ s.root = t.root /\ s.red = t.red \cup {e}
      /\ \A x \in Elems : s.parent[x] = IF x = e THEN p ELSE t.parent[x]
      /\ \A b \in Sides, x \in Elems : s.child[b][x] = IF x = e THEN Nil ELSE t.child[b][x]
  BY <1>1, <1>3
<1>6. u = IF p = Nil THEN [s EXCEPT !.root = e] ELSE SetChild(s, Way(e, p), p, e)
  BY DEF Link
<1> HIDE DEF s, u
<1>7. CASE p = Nil
  <2>1. u = [s EXCEPT !.root = e]
    BY <1>6, <1>7
  <2>2. u \in Trees /\ u.root = e /\ u.red = s.red /\ u.parent = s.parent /\ u.child = s.child
    BY <1>1, <1>4, <2>1, ElemsAre DEF Trees
  <2>3. \A x \in Elems : x # p
    BY <1>7, ElemsAre
  <2>4. QED
    BY <1>2, <1>5, <1>7, <2>2, <2>3 DEF u
<1>8. CASE p # Nil
  <2>1. p \in Elems /\ Way(e, p) \in Sides /\ e \in Pointers
    BY <1>1, <1>2, <1>8, ElemsAre, WayIs
  <2>2. /\ u \in Trees /\ u.root = s.root /\ u.red = s.red /\ u.parent = s.parent
        /\ \A b \in Sides, x \in Elems :
             u.child[b][x] = IF b = Way(e, p) /\ x = p THEN e ELSE s.child[b][x]
    BY <1>4, <1>6, <1>8, <2>1, SetChildIs
  <2>3. QED
    BY <1>2, <1>5, <1>8, <2>2 DEF u
<1>9. QED
  BY <1>7, <1>8

LEMMA LinkForest ==
  ASSUME NEW t, NEW sub, NEW p, NEW e, LinksAt(t, sub, p, e)
  PROVE  LET u == Link(t, p, e)
             s == Hung(sub, p, e)
         IN Forest(u, s) /\ s[u.root] = sub[t.root] \cup {e}
<1> DEFINE u == Link(t, p, e)
           s == Hung(sub, p, e)
           S == sub[t.root]
           d == Way(e, p)
<1>1. Forest(t, sub) /\ e \in Elems /\ e \notin S /\ S \subseteq Elems
      /\ t \in Trees /\ sub \in [Pointers -> SUBSET Elems] /\ sub[Nil] = {} /\ t.root \in Pointers
  <2>1. Forest(t, sub) /\ e \in Elems /\ e \notin S
    BY DEF LinksAt
  <2>2. QED
    BY <2>1, TreeParts DEF Forest
<1>2. /\ u \in Trees /\ u.red = t.red \cup {e} /\ p \in Pointers /\ p # e
      /\ u.root = IF p = Nil THEN e ELSE t.root
      /\ \A x \in Elems : u.parent[x] = IF x = e THEN p ELSE t.parent[x]
      /\ \A b \in Sides, x \in Elems :
           u.child[b][x] = IF x = e THEN Nil ELSE IF x = p /\ b = d THEN e ELSE t.child[b][x]
  BY LinkIs
<1>3. p # Nil => /\ p \in S /\ p \in Elems /\ t.child[d][p] = Nil
                 /\ d \in Sides /\ Before(d, e, p)
                 /\ \A y \in Elems, b \in Sides : p \in sub[t.child[b][y]] => Before(b, e, y)
  <2>1. SUFFICES ASSUME p # Nil
                 PROVE  /\ p \in S /\ p \in Elems /\ t.child[d][p] = Nil
                        /\ d \in Sides /\ Before(d, e, p)
                        /\ \A y \in Elems, b \in Sides : p \in sub[t.child[b][y]] => Before(b, e, y)
    OBVIOUS
  <2>2. /\ p \in S /\ t.child[d][p] = Nil
        /\ \A y \in Elems, b \in Sides : p \in sub[t.child[b][y]] => Before(b, e, y)
    BY <2>1 DEF LinksAt
  <2>3. p \in Elems
    BY <1>1, <2>2
  <2>4. QED
    BY <1>1, <1>2, <2>2, <2>3, WayIs
<1>4. p = Nil => t.root = Nil
  BY DEF LinksAt
<1> HIDE DEF u, d
<1>5. Nil \in Pointers /\ Nil \notin Elems /\ Elems \subseteq Pointers
      /\ \A x \in Pointers : x # Nil => x \in Elems
  BY ElemsAre
<1>6. \A x \in Elems, b \in Sides : t.child[b][x] \in Pointers /\ t.child[b][x] # e /\ sub[t.child[b][x]] \subseteq Elems
      /\ sub[x] \subseteq Elems
  <2>1. SUFFICES ASSUME NEW x \in Elems, NEW b \in Sides
                 PROVE  t.child[b][x] \in Pointers /\ t.child[b][x] # e /\ sub[t.child[b][x]] \subseteq Elems
                        /\ sub[x] \subseteq Elems
    OBVIOUS
  <2>2. t.child[b][x] \in Pointers
    BY <1>1, ChildIs
  <2>3. CASE x \in S
    <3>1. t.child[b][x] # Nil => t.child[b][x] \in S
      BY <1>1, <2>3, TreeClosed
    <3>2. QED
      BY <1>1, <1>5, <2>2, <3>1
  <2>4. CASE x \notin S
    <3>1. t.child[b][x] = Nil
      BY <1>1, <2>4 DEF Forest
    <3>2. QED
      BY <1>1, <1>5, <2>2, <3>1
  <2>5. QED
    BY <2>3, <2>4
<1>7. \A b \in Sides : t.child[b][e] = Nil
  BY <1>1 DEF Forest
<1>8. \A x \in Pointers : p \in sub[x] => p # Nil /\ x \in Elems
  BY <1>1, <1>5
<1>9. /\ s \in [Pointers -> SUBSET Elems] /\ s[e] = {e} /\ s[Nil] = {}
      /\ \A x \in Pointers : x # e => s[x] = IF p \in sub[x] THEN sub[x] \cup {e} ELSE sub[x]
  <2>1. \A x \in Pointers :
          s[x] = IF x = e THEN {e} ELSE IF p \in sub[x] THEN sub[x] \cup {e} ELSE sub[x]
    BY DEF Hung
  <2>2. \A x \in Pointers : sub[x] \in SUBSET Elems
    BY <1>1
  <2>3. s \in [Pointers -> SUBSET Elems]
    BY <1>1, <2>2 DEF Hung
  <2> HIDE DEF s
  <2>4. QED
    BY <1>1, <1>5, <2>1, <2>3
<1> HIDE DEF s
<1>10. \A x \in Elems, b \in Sides : p \in sub[t.child[b][x]] => p \in sub[x]
  <2>1. \A x \in Elems, b \in Sides : sub[t.child[b][x]] \subseteq sub[x]
    BY <1>1, ChildIs
  <2>2. QED
    BY <2>1
<1>11. ASSUME NEW x \in Elems, NEW z \in Elems
       PROVE  z \in s[x] <=> z = x \/ \E b \in Sides : z \in s[u.child[b][x]]
  <2>1. CASE x = e
    BY <1>2, <1>9, <2>1
  <2>2. CASE x = p
    <3>1. p # Nil /\ x # e /\ p \in sub[p]
      BY <1>1, <1>2, <1>5, <2>2, ChildIs, <1>3
    <3>2. s[p] = sub[p] \cup {e} /\ s[u.child[d][p]] = {e}
      BY <1>2, <1>3, <1>9, <2>2, <3>1
    <3>3. Other(d) \in Sides /\ d # Other(d) /\ \A b \in Sides : b = d \/ b = Other(d)
      BY <1>3, <3>1, SidesAre
    <3>4. u.child[Other(d)][p] = t.child[Other(d)][p]
      BY <1>2, <1>3, <3>1, <3>3
    <3>5. p \notin sub[t.child[Other(d)][p]]
      BY <1>1, <1>3, <3>1, <3>3, ChildIs
    <3>6. s[u.child[Other(d)][p]] = sub[t.child[Other(d)][p]]
      BY <1>3, <1>6, <1>9, <3>1, <3>3, <3>4, <3>5
    <3>7. z \in sub[p] <=> z = p \/ z \in sub[t.child[Other(d)][p]]
      BY <1>1, <1>3, <3>1, <3>3 DEF Forest
    <3>8. QED
      BY <1>3, <2>2, <3>1, <3>2, <3>3, <3>6, <3>7
  <2>3. CASE x # e /\ x # p
    <3>1. z \in sub[x] <=> z = x \/ \E b \in Sides : z \in sub[t.child[b][x]]
      BY <1>1 DEF Forest
    <3>2. \A b \in Sides : u.child[b][x] = t.child[b][x]
      BY <1>2, <2>3
    <3>3. \A b \in Sides : s[u.child[b][x]] = IF p \in sub[t.child[b][x]] THEN sub[t.child[b][x]] \cup {e} ELSE sub[t.child[b][x]]
      BY <1>6, <1>9, <3>2
    <3>4. s[x] = IF p \in sub[x] THEN sub[x] \cup {e} ELSE sub[x]
      BY <1>5, <1>9, <2>3
    <3>5. p \in sub[x] => \E b \in Sides : p \in sub[t.child[b][x]]
      <4>1. SUFFICES ASSUME p \in sub[x]
                     PROVE  \E b \in Sides : p \in sub[t.child[b][x]]
        OBVIOUS
      <4>2. p \in Elems
        BY <1>6, <4>1, SidesAre DEF Sides
      <4>3. QED
        BY <1>1, <2>3, <4>1, <4>2 DEF Forest
    <3>6. \A b \in Sides : z \in s[u.child[b][x]] <=>
            z \in sub[t.child[b][x]] \/ (z = e /\ p \in sub[t.child[b][x]])
      BY <3>3
    <3>7. z \in s[x] <=> z \in sub[x] \/ (z = e /\ p \in sub[x])
      BY <3>4
    <3>8. p \in sub[x] <=> \E b \in Sides : p \in sub[t.child[b][x]]
      BY <1>10, <3>5
    <3>9. QED
      BY <3>1, <3>6, <3>7, <3>8
  <2>4. QED
    BY <2>1, <2>2, <2>3
<1>12. ASSUME NEW x \in Elems, NEW b \in Sides, NEW z \in s[u.child[b][x]]
       PROVE  Before(b, z, x)
  <2>1. CASE x = e
    BY <1>2, <1>9, <1>12, <2>1
  <2>2. CASE x # e /\ x = p /\ b = d
    BY <1>2, <1>3, <1>5, <1>9, <1>12, <2>2
  <2>3. CASE x # e /\ ~(x = p /\ b = d)
    <3>1. u.child[b][x] = t.child[b][x]
      BY <1>2, <2>3
    <3>2. z \in sub[t.child[b][x]] \/ (z = e /\ p \in sub[t.child[b][x]])
      BY <1>6, <1>9, <1>12, <3>1
    <3>3. z \in sub[t.child[b][x]] => Before(b, z, x)
      BY <1>1 DEF Forest
    <3>4. p \in sub[t.child[b][x]] => Before(b, e, x)
      BY <1>3, <1>6, <1>8
    <3>5. QED
      BY <3>2, <3>3, <3>4
  <2>4. QED
    BY <2>1, <2>2, <2>3
<1>13. ASSUME NEW x \in Elems, NEW b \in Sides, u.child[b][x] # Nil
       PROVE  u.parent[u.child[b][x]] = x
  <2>1. x # e
    BY <1>2, <1>13
  <2>2. CASE x = p /\ b = d
    BY <1>1, <1>2, <2>1, <2>2
  <2>3. CASE ~(x = p /\ b = d)
    <3>1. u.child[b][x] = t.child[b][x]
      BY <1>2, <2>1, <2>3
    <3>2. t.parent[t.child[b][x]] = x /\ t.child[b][x] \in Elems /\ t.child[b][x] # e
      BY <1>1, <1>5, <1>6, <1>13, <3>1 DEF Forest
    <3>3. QED
      BY <1>2, <3>1, <3>2
  <2>4. QED
    BY <2>2, <2>3
<1>14. ASSUME NEW x \in Elems, u.parent[x] # Nil
       PROVE  \E b \in Sides : u.child[b][u.parent[x]] = x
  <2>1. CASE x = e
    <3>1. u.parent[x] = p /\ p # Nil
      BY <1>2, <1>14, <2>1
    <3>2. u.child[d][p] = e
      BY <1>2, <1>3, <3>1
    <3>3. QED
      BY <1>3, <2>1, <3>1, <3>2
  <2>2. CASE x # e
    <3>1. u.parent[x] = t.parent[x]
      BY <1>2, <2>2
    <3>2. t.parent[x] \in Elems
      BY <1>1, <1>5, <1>14, <3>1, TreeParts
    <3>3. PICK b \in Sides : t.child[b][t.parent[x]] = x
      BY <1>1, <1>14, <3>1 DEF Forest
    <3>4. t.parent[x] # e /\ ~(t.parent[x] = p /\ b = d)
      BY <1>3, <1>5, <1>7, <3>2, <3>3
    <3>5. u.child[b][t.parent[x]] = x
      BY <1>2, <3>2, <3>3, <3>4
    <3>6. QED
      BY <3>1, <3>5
  <2>3. QED
    BY <2>1, <2>2
<1>15. u.root # Nil => u.parent[u.root] = Nil
  <2>1. CASE p = Nil
    BY <1>1, <1>2, <2>1
  <2>2. CASE p # Nil
    <3>1. t.root \in Elems /\ u.root = t.root /\ t.parent[t.root] = Nil /\ t.root \in S
      <4>1. t.root # Nil
        BY <1>1, <1>3, <2>2
      <4>2. QED
        BY <1>1, <1>2, <1>5, <2>2, <4>1, ChildIs, SidesAre DEF Forest, Sides
    <3>2. QED
      BY <1>1, <1>2, <3>1
  <2>3. QED
    BY <2>1, <2>2
<1>16. s[u.root] = S \cup {e}
  <2>1. CASE p = Nil
    BY <1>1, <1>2, <1>4, <1>9, <2>1
  <2>2. CASE p # Nil
    <3>1. t.root # e
      <4>1. t.root \in Elems
        BY <1>1, <1>3, <1>5, <2>2
      <4>2. t.root \in sub[t.root]
        BY <1>1, <4>1, ChildIs, SidesAre DEF Sides
      <4>3. QED
        BY <1>1, <4>2
    <3>2. QED
      BY <1>1, <1>2, <1>3, <1>9, <2>2, <3>1
  <2>3. QED
    BY <2>1, <2>2
<1>17. ASSUME NEW x \in Elems, x \notin s[u.root]
       PROVE  u.parent[x] = Nil /\ \A b \in Sides : u.child[b][x] = Nil
  <2>1. x \notin S /\ x # e
    BY <1>16, <1>17
  <2>2. x # p
    BY <1>3, <1>5, <2>1
  <2>3. t.parent[x] = Nil /\ \A b \in Sides : t.child[b][x] = Nil
    BY <1>1, <2>1 DEF Forest
  <2>4. QED
    BY <1>2, <2>1, <2>2, <2>3
<1>18. Forest(u, s)
  BY <1>2, <1>9, <1>11, <1>12, <1>13, <1>14, <1>15, <1>17 DEF Forest
<1>19. QED
  BY <1>16, <1>18 DEF u, s

LEMMA LinkInserts ==
  ASSUME NEW t, NEW S, NEW sub, NEW bh, NEW p, NEW e, LinksAt(t, sub, p, e),
         sub[t.root] = S, Heights(t, bh, Nil, "left"),
         Reds(t, Nil, Nil), t.red \subseteq S, t.root \notin t.red
  PROVE  Inserting(Link(t, p, e), Hung(sub, p, e), [bh EXCEPT ![e] = 0], e, S \cup {e})
<1> DEFINE u == Link(t, p, e)
           bh2 == [bh EXCEPT ![e] = 0]
           d == Way(e, p)
<1>1. /\ u \in Trees /\ u.red = t.red \cup {e} /\ p \in Pointers /\ p # e
      /\ u.root = IF p = Nil THEN e ELSE t.root
      /\ \A b \in Sides, x \in Elems :
           u.child[b][x] = IF x = e THEN Nil ELSE IF x = p /\ b = d THEN e ELSE t.child[b][x]
  BY LinkIs
<1>2. Forest(u, Hung(sub, p, e)) /\ Hung(sub, p, e)[u.root] = S \cup {e}
  BY LinkForest
<1>3. /\ Forest(t, sub) /\ t \in Trees /\ e \in Elems /\ e \notin S
      /\ p # Nil => p \in Elems /\ t.child[d][p] = Nil
      /\ bh \in [Pointers -> Nat] /\ bh[Nil] = 0
  <2>1. Forest(t, sub) /\ e \in Elems /\ e \notin S /\ (p # Nil => t.child[d][p] = Nil)
    BY DEF LinksAt
  <2>2. QED
    BY <1>1, <2>1, ElemsAre DEF Forest, Heights
<1>4. /\ bh2 \in [Pointers -> Nat] /\ bh2[Nil] = 0 /\ bh2[e] = 0
      /\ \A x \in Pointers : x # e => bh2[x] = bh[x]
  BY <1>3, ElemsAre
<1> HIDE DEF u, bh2, d
<1>5. \A x \in Elems, b \in Sides : t.child[b][x] \in Pointers /\ t.child[b][x] # e
  <2>1. SUFFICES ASSUME NEW x \in Elems, NEW b \in Sides
                 PROVE  t.child[b][x] \in Pointers /\ t.child[b][x] # e
    OBVIOUS
  <2>2. t.child[b][x] \in Pointers
    BY <1>3, ChildIs
  <2>3. CASE x \in S
    <3>1. t.child[b][x] # Nil => t.child[b][x] \in S
      BY <1>3, <2>3, TreeClosed
    <3>2. QED
      BY <1>3, <2>2, <3>1, ElemsAre
  <2>4. CASE x \notin S
    <3>1. t.child[b][x] = Nil
      BY <1>3, <2>4 DEF Forest
    <3>2. QED
      BY <1>3, <2>2, <3>1, ElemsAre
  <2>5. QED
    BY <2>3, <2>4
<1>6. \A x \in Elems : Black(u, x) = IF x = e THEN 0 ELSE Black(t, x)
  BY <1>1 DEF Black
<1>7. ASSUME NEW x \in Elems, NEW b \in Sides
      PROVE  bh2[x] = bh2[u.child[b][x]] + Black(u, x) + Lack(Nil, "left", x, b)
  <2>1. Lack(Nil, "left", x, b) = 0
    BY NoLack
  <2>2. CASE x = e
    BY <1>1, <1>4, <1>6, <2>1, <2>2
  <2>3. CASE x # e
    <3>1. bh[x] = bh[t.child[b][x]] + Black(t, x) + Lack(Nil, "left", x, b)
      BY <1>3, HeightsAt
    <3>2. bh2[x] = bh[x] /\ Black(u, x) = Black(t, x)
      BY <1>4, <1>6, <2>3, ElemsAre
    <3>3. bh2[u.child[b][x]] = bh[t.child[b][x]]
      <4>1. CASE x = p /\ b = d
        BY <1>1, <1>3, <1>4, <2>3, <4>1, ElemsAre
      <4>2. CASE ~(x = p /\ b = d)
        BY <1>1, <1>4, <1>5, <2>3, <4>2
      <4>3. QED
        BY <4>1, <4>2
    <3>4. QED
      BY <3>1, <3>2, <3>3
  <2>4. QED
    BY <2>2, <2>3
<1>8. Heights(u, bh2, Nil, "left")
  BY <1>4, <1>7 DEF Heights
<1>9. Reds(u, Nil, e)
  <2>1. SUFFICES ASSUME NEW x \in Elems, NEW b \in Sides, x \in u.red, u.child[b][x] \in u.red,
                        u.child[b][x] # e
                 PROVE  FALSE
    BY DEF Reds
  <2>2. x # e
    <3>1. Nil \notin u.red
      BY <1>1, ElemsAre, TreeParts
    <3>2. QED
      BY <1>1, <2>1, <3>1
  <2>3. u.child[b][x] = t.child[b][x]
    BY <1>1, <2>1, <2>2
  <2>4. x \in t.red /\ t.child[b][x] \in t.red
    BY <1>1, <2>1, <2>2, <2>3
  <2>5. t.child[b][x] = Nil
    BY <2>4, ElemsAre DEF Reds
  <2>6. QED
    BY <1>3, <2>4, <2>5, ElemsAre, TreeParts
<1>10. u.red \subseteq S \cup {e} /\ e \in u.red /\ (u.root \in u.red => u.root = e)
  BY <1>1
<1>11. QED
  BY <1>2, <1>8, <1>9, <1>10 DEF Inserting, u, bh2

(* RB_INSERT *)
LEMMA InsertHolds ==
  ASSUME NEW t, NEW S, Holds(t, S), NEW e \in Elems
  PROVE  Holds(RbInsert(t, e).t, S \cup {e})
<1>1. PICK sub, bh : /\ Forest(t, sub) /\ sub[t.root] = S /\ Heights(t, bh, Nil, "left")
                     /\ Reds(t, Nil, Nil) /\ t.red \subseteq S /\ t.root \notin t.red
  BY DEF Holds
<1> DEFINE p == IF t.root = Nil THEN Nil ELSE Descend(t, t.root, e)
<1>2. RbInsert(t, e) = IF p = e THEN [t |-> t, ret |-> e]
                       ELSE [t |-> InsertColor(Link(t, p, e), e), ret |-> Nil]
  BY DEF RbInsert
<1>3. e # Nil
  BY ElemsAre
<1>4. t.root # Nil => /\ p \in Elems /\ OnWay(t, sub, e, p)
                      /\ p = e <=> e \in S
                      /\ p # e => t.child[Way(e, p)][p] = Nil
  BY <1>1, DescendIs
<1>5. t.root = Nil => p = Nil /\ S = {}
  BY <1>1 DEF Forest
<1> HIDE DEF p
<1>6. CASE p = e
  <2>1. e \in S
    BY <1>3, <1>4, <1>5, <1>6
  <2>2. RbInsert(t, e).t = t /\ S \cup {e} = S
    BY <1>2, <1>6, <2>1
  <2>3. QED
    BY <2>2
<1>7. CASE p # e
  <2>1. LinksAt(t, sub, p, e)
    <3>1. CASE t.root = Nil
      BY <1>1, <1>5, <3>1 DEF LinksAt
    <3>2. CASE t.root # Nil
      <4>1. p # Nil
        BY <1>4, <3>2, ElemsAre
      <4>2. QED
        BY <1>1, <1>4, <1>7, <3>2, <4>1 DEF LinksAt, OnWay
    <3>3. QED
      BY <3>1, <3>2
  <2>2. Inserting(Link(t, p, e), Hung(sub, p, e), [bh EXCEPT ![e] = 0], e, S \cup {e})
    BY <1>1, <2>1, LinkInserts
  <2>3. Holds(InsertColor(Link(t, p, e), e), S \cup {e})
    BY <2>2, InsertColorHolds
  <2>4. RbInsert(t, e).t = InsertColor(Link(t, p, e), e)
    BY <1>2, <1>7
  <2>5. QED
    BY <2>3, <2>4
<1>8. QED
  BY <1>6, <1>7

----------------------------------------------------------------------------
(* RB_REMOVE_COLOR. The ways through the side d of p lack one black        *)
(* element; e, which hangs there, may be red below or above a red one.     *)
Removing(t, sub, bh, p, d, e, S) ==
  /\ Forest(t, sub) /\ sub[t.root] = S /\ t.red \subseteq S
  /\ d \in Sides /\ Heights(t, bh, p, d) /\ Reds(t, e, e)
  /\ t.root \in t.red => t.root = e
  /\ IF p = Nil THEN e = t.root ELSE p \in S /\ t.child[d][p] = e

Done(t, e) == e \in t.red \/ e = t.root

(* The same where the loop goes on: e is black, and so is the root. *)
Short(t, sub, bh, p, d, e, S) ==
  /\ Forest(t, sub) /\ sub[t.root] = S /\ t.red \subseteq S
  /\ d \in Sides /\ Heights(t, bh, p, d) /\ Reds(t, Nil, Nil)
  /\ t.root \notin t.red /\ p \in S /\ t.child[d][p] = e /\ e \notin t.red

LEMMA RemovingShort ==
  ASSUME NEW t, NEW sub, NEW bh, NEW p, NEW d, NEW e, NEW S, Removing(t, sub, bh, p, d, e, S),
         ~Done(t, e)
  PROVE  Short(t, sub, bh, p, d, e, S)
<1>1. e \notin t.red /\ e # t.root
  BY DEF Done
<1>2. p # Nil
  BY <1>1 DEF Removing
<1>3. Reds(t, Nil, Nil)
  <2>1. Reds(t, e, e)
    BY DEF Removing
  <2>2. QED
    BY <1>1, <2>1 DEF Reds
<1>4. QED
  BY <1>1, <1>2, <1>3 DEF Removing, Short

LEMMA DoneHolds ==
  ASSUME NEW t, NEW sub, NEW bh, NEW p, NEW d, NEW e, NEW S, Removing(t, sub, bh, p, d, e, S),
         Done(t, e)
  PROVE  Holds(Paint(t, {e}, {}), S)
<1> DEFINE u == Paint(t, {e}, {})
<1>1. /\ Forest(t, sub) /\ t \in Trees /\ sub[t.root] = S /\ t.red \subseteq S
      /\ d \in Sides /\ Heights(t, bh, p, d) /\ Reds(t, e, e)
      /\ bh \in [Pointers -> Nat] /\ bh[Nil] = 0
      /\ (t.root \in t.red => t.root = e) /\ t.root \in Pointers /\ t.red \in SUBSET Elems
  BY TreeParts DEF Removing, Forest, Heights
<1>2. IF p = Nil THEN e = t.root ELSE p \in S /\ t.child[d][p] = e
  BY DEF Removing
<1>3. u \in Trees /\ u.root = t.root /\ u.child = t.child /\ u.parent = t.parent
      /\ u.red = (t.red \ {e}) \cup {}
  BY <1>1, PaintIs
<1> HIDE DEF u
<1>4. Forest(u, sub) /\ sub[u.root] = S
  BY <1>1, <1>3, LinksForest DEF SameLinks
<1>5. Reds(u, Nil, Nil) /\ u.red \subseteq S /\ u.root \notin u.red
  BY <1>1, <1>3 DEF Reds
<1>6. CASE e \in t.red
  <2> DEFINE bh2 == [bh EXCEPT ![e] = bh[e] + 1]
  <2>1. e \in Elems
    BY <1>1, <1>6
  <2>2. /\ bh2 \in [Pointers -> Nat] /\ bh2[Nil] = 0 /\ bh2[e] = bh[e] + 1
        /\ \A x \in Pointers : x # e => bh2[x] = bh[x]
    BY <1>1, <2>1, ElemsAre
  <2>3. \A x \in Elems, b \in Sides : t.child[b][x] = e <=> x = p /\ b = d
    <3>1. CASE p = Nil
      <4>1. t.parent[e] = Nil
        BY <1>1, <1>2, <2>1, <3>1, ElemsAre DEF Forest
      <4>2. QED
        BY <1>1, <2>1, <3>1, <4>1, ElemsAre DEF Forest
    <3>2. CASE p # Nil
      <4>1. p \in Elems /\ t.child[d][p] # Nil /\ t.child[d][p] = e
        BY <1>1, <1>2, <2>1, <3>2, ElemsAre DEF Forest
      <4>2. \A x \in Elems, b \in Sides : t.child[b][x] = t.child[d][p] => x = p /\ b = d
        BY <1>1, <4>1, OnePlace
      <4>3. QED
        BY <4>1, <4>2
    <3>3. QED
      BY <3>1, <3>2
  <2> HIDE DEF bh2
  <2>4. Black(u, e) = 1 /\ Black(t, e) = 0 /\ \A x \in Elems : x # e => Black(u, x) = Black(t, x)
    BY <1>3, <1>6 DEF Black
  <2>5. ASSUME NEW x \in Elems, NEW b \in Sides
        PROVE  bh2[x] = bh2[t.child[b][x]] + Black(u, x) + Lack(Nil, "left", x, b)
    <3> DEFINE c == t.child[b][x]
    <3>1. bh[x] = bh[c] + Black(t, x) + Lack(p, d, x, b)
          /\ bh[x] \in Nat /\ bh[c] \in Nat /\ Black(t, x) \in {0, 1}
      BY <1>1, HeightsAt
    <3>2. Lack(Nil, "left", x, b) = 0
      BY NoLack
    <3>3. c = e <=> x = p /\ b = d
      BY <2>3
    <3>4. c \in Pointers /\ x \in Pointers
      BY <1>1, ChildIs, ElemsAre
    <3>5. x = e => c # e
      BY <1>1, <2>1, ElemsAre, OnePlace
    <3> HIDE DEF c
    <3>6. Lack(p, d, x, b) = IF c = e THEN 1 ELSE 0
      BY <3>3 DEF Lack
    <3>7. bh2[c] = IF c = e THEN bh[c] + 1 ELSE bh[c]
      BY <2>2, <3>4
    <3>8. bh2[x] = IF x = e THEN bh[x] + 1 ELSE bh[x]
      BY <2>2, <3>4
    <3>9. bh2[x] = bh2[c] + Black(u, x)
      BY <2>4, <3>1, <3>5, <3>6, <3>7, <3>8
    <3>10. bh2[c] \in Nat /\ Black(u, x) \in {0, 1}
      BY <2>2, <3>4 DEF Black
    <3>11. QED
      BY <3>2, <3>9, <3>10 DEF c
  <2>6. Heights(u, bh2, Nil, "left")
    BY <1>3, <2>2, <2>5 DEF Heights
  <2>7. QED
    BY <1>4, <1>5, <2>6 DEF Holds, u
<1>7. CASE e \notin t.red
  <2>1. e = t.root
    BY <1>7 DEF Done
  <2>2. p = Nil
    <3>1. SUFFICES ASSUME p # Nil
                   PROVE  FALSE
      OBVIOUS
    <3>2. p \in S /\ p \in Elems /\ t.child[d][p] = e
      BY <1>1, <1>2, <3>1, ElemsAre DEF Forest
    <3>3. e # Nil
      BY <1>1, <2>1, <3>2 DEF Forest
    <3>4. QED
      BY <1>1, <2>1, <3>1, <3>2, <3>3 DEF Forest
  <2>3. u.red = t.red
    BY <1>3, <1>7
  <2>4. Heights(u, bh, Nil, "left")
    BY <1>1, <1>3, <2>2, <2>3, NoLack DEF Heights, Black
  <2>5. QED
    BY <1>4, <1>5, <2>4 DEF Holds, u
<1>8. QED
  BY <1>6, <1>7

(* The sibling of e, which is there since one black element is. *)
LEMMA SiblingIs ==
  ASSUME NEW t, NEW sub, NEW bh, NEW p, NEW d, NEW e, NEW S, Short(t, sub, bh, p, d, e, S),
         NEW w, w = t.child[Other(d)][p]
  PROVE  /\ p \in Elems /\ e \in Pointers /\ w \in Elems /\ w \in S /\ w # p /\ w # e /\ e # p
         /\ p \notin sub[e] /\ p \notin sub[w] /\ bh[w] = bh[e] + 1 /\ bh[e] \in Nat
         /\ bh[p] = bh[w] + Black(t, p) /\ Side(t, p, e) = d
         /\ Cardinality(sub[e]) + 1 <= Cardinality(sub[p])
         /\ \A z \in sub[w] : z \notin sub[e]
         /\ w \in sub[w]
<1> DEFINE o == Other(d)
           c == t.child[o][p]
<1>1. /\ Forest(t, sub) /\ t \in Trees /\ sub[t.root] = S /\ d \in Sides /\ Heights(t, bh, p, d)
      /\ p \in S /\ t.child[d][p] = e
  BY DEF Short, Forest
<1>2. p \in Elems /\ o \in Sides /\ d # o /\ \A b \in Sides : b = d \/ b = o
  BY <1>1, SidesAre, TreeClosed
<1>3. /\ e \in Pointers /\ c \in Pointers /\ p \notin sub[e] /\ p \notin sub[c]
      /\ p \in sub[p] /\ sub[p] \subseteq Elems /\ sub[e] \subseteq sub[p]
      /\ \A z \in sub[e] : z \notin sub[c]
  <2>1. /\ t.child[d][p] \in Pointers /\ p \notin sub[t.child[d][p]]
        /\ p \in sub[p] /\ sub[p] \subseteq Elems /\ sub[t.child[d][p]] \subseteq sub[p]
        /\ \A z \in sub[t.child[d][p]] : z \notin sub[t.child[Other(d)][p]]
    BY <1>1, <1>2, ChildIs
  <2>2. c \in Pointers /\ p \notin sub[c]
    BY <1>1, <1>2, ChildIs
  <2>3. QED
    BY <1>1, <2>1, <2>2
<1>4. /\ bh[p] = bh[e] + Black(t, p) + Lack(p, d, p, d) /\ bh[e] \in Nat /\ Black(t, p) \in {0, 1}
      /\ bh[p] = bh[c] + Black(t, p) + Lack(p, d, p, o) /\ bh[c] \in Nat
  <2>1. bh[p] = bh[t.child[d][p]] + Black(t, p) + Lack(p, d, p, d) /\ bh[t.child[d][p]] \in Nat
        /\ Black(t, p) \in {0, 1}
    BY <1>1, <1>2, HeightsAt
  <2>2. bh[p] = bh[c] + Black(t, p) + Lack(p, d, p, o) /\ bh[c] \in Nat
    BY <1>1, <1>2, HeightsAt
  <2>3. QED
    BY <1>1, <2>1, <2>2
<1>5. Lack(p, d, p, d) = 1 /\ Lack(p, d, p, o) = 0
  BY <1>2 DEF Lack
<1> HIDE DEF c
<1>6. bh[c] = bh[e] + 1 /\ bh[p] = bh[c] + Black(t, p)
  BY <1>4, <1>5
<1>7. c # Nil
  BY <1>1, <1>4, <1>6 DEF Heights
<1>8. c \in Elems /\ c \in S /\ c # p
  <2>1. t.child[o][p] # Nil
    BY <1>7 DEF c
  <2>2. t.child[o][p] \in Elems /\ t.child[o][p] # p
    BY <1>1, <1>2, <2>1, OnePlace
  <2>3. t.child[o][p] \in S
    BY <1>1, <1>2, <2>1, TreeClosed
  <2>4. QED
    BY <2>2, <2>3 DEF c
<1>9. e \in Elems => e \in sub[e]
  BY <1>1, <1>2, ChildIs
<1>10. c \in sub[c]
  BY <1>1, <1>2, <1>8, ChildIs
<1>11. c # e /\ e # p
  BY <1>2, <1>3, <1>8, <1>9, <1>10
<1>12. Side(t, p, e) = d
  <2>1. t.child[d][p] = e /\ t.child[o][p] # e
    BY <1>1, <1>11 DEF c
  <2>2. QED
    BY <1>1, <1>2, <2>1 DEF Side, Sides
<1>13. Cardinality(sub[e]) + 1 <= Cardinality(sub[p])
  <2>1. sub[p] \in SUBSET Elems
    BY <1>3
  <2>2. QED
    BY <1>3, <2>1, MoreBelow
<1>14. w = c
  BY DEF c
<1>15. QED
  BY <1>2, <1>3, <1>4, <1>6, <1>8, <1>10, <1>11, <1>12, <1>13, <1>14

(* The sibling is red: it goes up, and the next one is black. *)
LEMMA RedSibling ==
  ASSUME NEW t, NEW sub, NEW bh, NEW p, NEW d, NEW e, NEW S, Short(t, sub, bh, p, d, e, S),
         NEW w, w = t.child[Other(d)][p], w \in t.red,
         NEW u, u = Rotate(Paint(t, {w}, {p}), p, d)
  PROVE  /\ \E sub2, bh2 : Short(u, sub2, bh2, p, d, e, S)
         /\ u.child[Other(d)][p] \notin u.red /\ p \in u.red
<1> DEFINE o == Other(d)
           i == t.child[d][w]
           r == Paint(t, {w}, {p})
           v == Rotate(r, p, d)
           s == Rotated(r, sub, p, d)
<1>1. /\ p \in Elems /\ e \in Pointers /\ w \in Elems /\ w \in S /\ w # p /\ w # e /\ e # p
      /\ p \notin sub[e] /\ p \notin sub[w] /\ w \in sub[w]
  BY SiblingIs
<1>2. /\ Forest(t, sub) /\ t \in Trees /\ sub[t.root] = S /\ t.red \subseteq S
      /\ d \in Sides /\ Heights(t, bh, p, d) /\ Reds(t, Nil, Nil)
      /\ t.root \notin t.red /\ p \in S /\ t.child[d][p] = e /\ e \notin t.red
  BY DEF Short, Forest
<1>3. o \in Sides /\ d # o /\ Other(o) = d /\ \A b \in Sides : b = d \/ b = o
  BY <1>2, SidesAre
<1>4. t.child[o][p] = w /\ w \in t.red /\ p # Nil /\ w # Nil
  BY <1>1, ElemsAre
<1>5. \A x \in Elems, b \in Sides : ~(x \in t.red /\ t.child[b][x] \in t.red)
  <2>1. t.red \in SUBSET Elems
    BY <1>2, TreeParts
  <2>2. QED
    BY <1>2, <2>1, ElemsAre DEF Reds
<1>6. p \notin t.red
  BY <1>1, <1>3, <1>4, <1>5
<1>7. r \in Trees /\ r.root = t.root /\ r.child = t.child /\ r.parent = t.parent
      /\ r.red = (t.red \ {w}) \cup {p}
  <2>1. {p} \in SUBSET Elems
    BY <1>1
  <2>2. QED
    BY <1>2, <2>1, PaintIs
<1> HIDE DEF r
<1>8. Swapped(t, r, p, w)
  BY <1>1, <1>4, <1>6, <1>7 DEF Swapped, SameLinks
<1>9. Rotates(t, sub, p, d)
  BY <1>2, <1>4 DEF Rotates
<1>10. Rotates(r, sub, p, d)
  <2>1. Forest(r, sub)
    BY <1>2, <1>7, LinksForest DEF SameLinks
  <2>2. QED
    BY <1>7, <1>9, <2>1 DEF Rotates
<1>11. /\ v \in Trees /\ v.red = r.red
       /\ v.root = IF p = t.root THEN w ELSE t.root
       /\ \A b \in Sides, x \in Elems :
            v.child[b][x] = IF x = p /\ b = o THEN i
                            ELSE IF x = w /\ b = d THEN p
                            ELSE IF t.child[b][x] = p THEN w ELSE t.child[b][x]
  <2>1. r.child[o][p] = w /\ r.child[d][w] = i
    BY <1>4, <1>7
  <2>2. QED
    BY <1>7, <1>10, <2>1, RotateIs
<1>12. Forest(v, s) /\ s[v.root] = S
  BY <1>2, <1>7, <1>10, RotateForest
<1>13. \E bh2 : Heights(v, bh2, p, d)
  <2>1. w = t.child[Other(d)][p]
    OBVIOUS
  <2>2. p # w
    BY <1>1
  <2>3. Heights(v, [bh EXCEPT ![p] = bh[w], ![w] = bh[p]], p, d)
    BY <1>2, <1>8, <1>9, <2>1, <2>2, RotateHeights
  <2>4. QED
    BY <2>3
<1>14. i \notin t.red /\ i # p
  <2>1. i \notin t.red
    BY <1>1, <1>2, <1>4, <1>5
  <2>2. sub[i] \subseteq sub[w] /\ (i \in Elems => i \in sub[i])
    <3>1. Forest(t, sub) /\ w \in Elems /\ d \in Sides
      BY <1>1, <1>2
    <3>2. sub[i] \subseteq sub[w]
      BY <3>1, ChildIs
    <3>3. i \in Elems => i \in sub[i]
      BY <3>1, ChildIs
    <3>4. QED
      BY <3>2, <3>3
  <2>3. QED
    BY <1>1, <2>1, <2>2
<1> HIDE DEF i, v, s
<1>15. Reds(v, Nil, Nil)
  <2>1. SUFFICES ASSUME NEW x \in Elems, NEW b \in Sides, x \in r.red, v.child[b][x] \in r.red
                 PROVE  FALSE
    BY <1>11 DEF Reds
  <2>2. x # w /\ v.child[b][x] # w
    BY <1>1, <1>7, <2>1
  <2>3. CASE x = p
    <3>1. b = d => v.child[b][x] = e
      BY <1>1, <1>2, <1>3, <1>11, <2>3
    <3>2. b = o => v.child[b][x] = i
      BY <1>11, <2>3
    <3>3. e \notin r.red /\ i \notin r.red
      BY <1>1, <1>2, <1>7, <1>14
    <3>4. QED
      BY <1>3, <2>1, <3>1, <3>2, <3>3
  <2>4. CASE x # p
    <3>1. v.child[b][x] = t.child[b][x] /\ t.child[b][x] # p
      BY <1>11, <2>2, <2>4
    <3>2. x \in t.red /\ t.child[b][x] \in t.red
      BY <1>7, <2>1, <2>4, <3>1
    <3>3. QED
      BY <1>5, <3>2
  <2>5. QED
    BY <2>3, <2>4
<1>16. v.root \notin v.red /\ v.red \subseteq S /\ p \in v.red
  BY <1>1, <1>2, <1>7, <1>11
<1>17. v.child[d][p] = e /\ v.child[o][p] = i /\ e \notin v.red /\ i \notin v.red
  BY <1>1, <1>2, <1>3, <1>7, <1>11, <1>14
<1>18. \E sub2, bh2 : Short(v, sub2, bh2, p, d, e, S)
  BY <1>2, <1>12, <1>13, <1>15, <1>16, <1>17 DEF Short
<1>19. u = v
  BY DEF r, v
<1>20. QED
  BY <1>16, <1>17, <1>18, <1>19

----------------------------------------------------------------------------
(* Both children of the sibling are black: it turns red, and p is short.   *)
LEMMA BlackNephews ==
  ASSUME NEW t, NEW sub, NEW bh, NEW p, NEW d, NEW e, NEW S, Short(t, sub, bh, p, d, e, S),
         NEW w, w = t.child[Other(d)][p], w \notin t.red,
         \A b \in Sides : t.child[b][w] \notin t.red
  PROVE  \E bh2, d2 : Removing(Paint(t, {}, {w}), sub, bh2, t.parent[p], d2, p, S)
<1> DEFINE o == Other(d)
           q == t.parent[p]
           r == Paint(t, {}, {w})
           bh2 == [bh EXCEPT ![p] = bh[p] - 1, ![w] = bh[w] - 1]
<1>1. /\ p \in Elems /\ e \in Pointers /\ w \in Elems /\ w \in S /\ w # p /\ w # e /\ e # p
      /\ p \notin sub[e] /\ p \notin sub[w] /\ w \in sub[w]
      /\ bh[w] = bh[e] + 1 /\ bh[e] \in Nat /\ bh[p] = bh[w] + Black(t, p)
  BY SiblingIs
<1>2. /\ Forest(t, sub) /\ t \in Trees /\ sub[t.root] = S /\ t.red \subseteq S
      /\ d \in Sides /\ Heights(t, bh, p, d) /\ Reds(t, Nil, Nil)
      /\ t.root \notin t.red /\ p \in S /\ t.child[d][p] = e /\ e \notin t.red
      /\ bh \in [Pointers -> Nat] /\ bh[Nil] = 0
  BY DEF Short, Forest, Heights
<1>3. o \in Sides /\ d # o /\ \A b \in Sides : b = d \/ b = o
  BY <1>2, SidesAre
<1>4. t.child[o][p] = w /\ w \notin t.red /\ p # Nil /\ w # Nil
  BY <1>1, ElemsAre
<1>5. \A x \in Elems, b \in Sides : ~(x \in t.red /\ t.child[b][x] \in t.red)
  <2>1. t.red \in SUBSET Elems
    BY <1>2, TreeParts
  <2>2. QED
    BY <1>2, <2>1, ElemsAre DEF Reds
<1>6. r \in Trees /\ r.root = t.root /\ r.child = t.child /\ r.parent = t.parent
      /\ r.red = t.red \cup {w}
  <2>1. {w} \in SUBSET Elems
    BY <1>1
  <2>2. r.red = (t.red \ {}) \cup {w} /\ r \in Trees /\ r.root = t.root /\ r.child = t.child /\ r.parent = t.parent
    BY <1>2, <2>1, PaintIs
  <2>3. QED
    BY <2>2
<1>7. Black(t, p) \in {0, 1}
  BY DEF Black
<1>8. bh[p] - 1 \in Nat /\ bh[w] - 1 \in Nat
  BY <1>1, <1>7
<1>9. /\ bh2 \in [Pointers -> Nat] /\ bh2[Nil] = 0 /\ bh2[p] = bh[p] - 1 /\ bh2[w] = bh[w] - 1
      /\ \A x \in Pointers : x # p /\ x # w => bh2[x] = bh[x]
  BY <1>1, <1>2, <1>4, <1>8, ElemsAre
<1>10. q \in Pointers /\ (q = Nil <=> p = t.root) /\ (q # Nil => q \in S /\ q \in Elems)
  BY <1>2, TreeClosed, ElemsAre, ChildIs, <1>1
<1>11. \E d2 \in Sides : \A x \in Elems, b \in Sides : t.child[b][x] = p <=> x = q /\ b = d2
  <2>1. CASE q = Nil
    <3>1. \A x \in Elems, b \in Sides : t.child[b][x] # p
      BY <1>1, <1>2, <1>4, <2>1, ElemsAre DEF Forest
    <3>2. QED
      BY <1>2, <2>1, <3>1, ElemsAre
  <2>2. CASE q # Nil
    <3>1. PICK d2 \in Sides : t.child[d2][q] = p
      BY <1>1, <1>2, <2>2 DEF Forest
    <3>2. \A x \in Elems, b \in Sides : t.child[b][x] = t.child[d2][q] => x = q /\ b = d2
      <4>1. t.child[d2][q] # Nil /\ q \in Elems
        BY <1>4, <1>10, <2>2, <3>1
      <4>2. QED
        BY <1>2, <4>1, OnePlace
    <3>3. QED
      BY <3>1, <3>2
  <2>3. QED
    BY <2>1, <2>2
<1>12. PICK d2 \in Sides : \A x \in Elems, b \in Sides : t.child[b][x] = p <=> x = q /\ b = d2
  BY <1>11
<1>13. \A x \in Elems, b \in Sides : t.child[b][x] = w => x = p /\ b = o
  <2>1. t.child[o][p] # Nil
    BY <1>4
  <2>2. \A x \in Elems, b \in Sides : t.child[b][x] = t.child[o][p] => x = p /\ b = o
    BY <1>1, <1>2, <1>3, <2>1, OnePlace
  <2>3. QED
    BY <1>4, <2>2
<1> HIDE DEF r, bh2, q
<1>14. Black(r, w) = 0 /\ Black(t, w) = 1 /\ \A x \in Elems : x # w => Black(r, x) = Black(t, x)
  BY <1>4, <1>6 DEF Black
<1>15. ASSUME NEW x \in Elems, NEW b \in Sides
       PROVE  bh2[x] = bh2[t.child[b][x]] + Black(r, x) + Lack(q, d2, x, b)
  <2> DEFINE c == t.child[b][x]
  <2>1. bh[x] = bh[c] + Black(t, x) + Lack(p, d, x, b)
        /\ bh[x] \in Nat /\ bh[c] \in Nat /\ Black(t, x) \in {0, 1}
    BY <1>2, HeightsAt
  <2>2. c = p <=> x = q /\ b = d2
    BY <1>12
  <2>3. c \in Pointers /\ x \in Pointers
    BY <1>2, ChildIs, ElemsAre
  <2>4. (c = w => x = p /\ b = o) /\ (x = p /\ b = o => c = w) /\ (x = p /\ b = d => c = e)
    BY <1>2, <1>4, <1>13
  <2>5. x = p => c # p
    BY <1>2, <1>4, OnePlace
  <2> HIDE DEF c
  <2>6. Lack(q, d2, x, b) = IF c = p THEN 1 ELSE 0
    BY <2>2 DEF Lack
  <2>7. Lack(p, d, x, b) = IF x = p /\ b = d THEN 1 ELSE 0
    BY DEF Lack
  <2>8. bh2[c] = IF c = p THEN bh[p] - 1 ELSE IF c = w THEN bh[w] - 1 ELSE bh[c]
    BY <1>9, <2>3
  <2>9. CASE x = p
    <3>1. bh2[x] = bh[p] - 1 /\ Lack(q, d2, x, b) = 0 /\ Black(r, x) = Black(t, p)
      BY <1>1, <1>9, <1>14, <2>5, <2>6, <2>9
    <3>2. CASE b = d
      <4>1. c = e /\ bh2[c] = bh[e]
        BY <1>1, <2>4, <2>8, <2>9, <3>2
      <4>2. bh[p] - 1 = bh[e] + Black(t, p)
        BY <1>1, <1>7
      <4>3. QED
        BY <1>1, <1>7, <3>1, <4>1, <4>2 DEF c
    <3>3. CASE b = o
      <4>1. c = w /\ bh2[c] = bh[w] - 1
        BY <1>1, <2>4, <2>8, <2>9, <3>3
      <4>2. bh[p] - 1 = (bh[w] - 1) + Black(t, p)
        BY <1>1, <1>7
      <4>3. QED
        BY <1>7, <1>8, <3>1, <4>1, <4>2 DEF c
    <3>4. QED
      BY <1>3, <3>2, <3>3
  <2>10. CASE x = w
    <3>1. c # w /\ c # p /\ Lack(p, d, x, b) = 0
      <4>1. c \notin {w, p}
        <5>1. t.child[b][w] # w
          BY <1>1, <1>13
        <5>2. sub[t.child[b][w]] \subseteq sub[w] /\ (p \in sub[p])
          <6>1. Forest(t, sub) /\ w \in Elems /\ p \in Elems /\ b \in Sides
            BY <1>1, <1>2
          <6>2. sub[t.child[b][w]] \subseteq sub[w]
            BY <6>1, ChildIs
          <6>3. p \in sub[p]
            BY <6>1, ChildIs
          <6>4. QED
            BY <6>2, <6>3
        <5>3. QED
          BY <1>1, <2>10, <5>1, <5>2 DEF c
      <4>2. QED
        BY <1>1, <2>7, <2>10, <4>1
    <3>2. bh2[c] = bh[c] /\ bh2[x] = bh[x] - 1 /\ Black(r, x) = 0 /\ Black(t, x) = 1
          /\ Lack(q, d2, x, b) = 0
      BY <1>9, <1>14, <2>6, <2>8, <2>10, <3>1
    <3>3. QED
      BY <2>1, <3>1, <3>2 DEF c
  <2>11. CASE x # p /\ x # w
    <3>1. c # w /\ Lack(p, d, x, b) = 0 /\ bh2[x] = bh[x] /\ Black(r, x) = Black(t, x)
      BY <1>9, <1>14, <2>3, <2>4, <2>7, <2>11
    <3>2. bh2[c] = IF c = p THEN bh[c] - 1 ELSE bh[c]
      BY <2>8, <3>1
    <3>3. c = p => bh[c] - 1 \in Nat
      BY <1>8
    <3>4. QED
      BY <2>1, <2>6, <3>1, <3>2, <3>3 DEF c
  <2>12. QED
    BY <2>9, <2>10, <2>11
<1>16. Heights(r, bh2, q, d2)
  BY <1>6, <1>9, <1>15 DEF Heights
<1>17. Reds(r, p, p)
  <2>1. SUFFICES ASSUME NEW x \in Elems, NEW b \in Sides, x \in r.red, t.child[b][x] \in r.red, x # p
                 PROVE  FALSE
    BY <1>6 DEF Reds
  <2>2. t.child[b][x] # w
    BY <1>13, <2>1
  <2>3. t.child[b][x] \in t.red
    BY <1>6, <2>1, <2>2
  <2>4. x = w
    BY <1>5, <1>6, <2>1, <2>3
  <2>5. QED
    BY <2>3, <2>4
<1>18. r.root \notin r.red
  <2>1. t.root # w
    <3>1. t.parent[w] = p
      BY <1>1, <1>2, <1>3, <1>4 DEF Forest
    <3>2. QED
      BY <1>2, <1>4, <3>1 DEF Forest
  <2>2. QED
    BY <1>2, <1>6, <2>1
<1>19. Forest(r, sub) /\ sub[r.root] = S
  BY <1>2, <1>6, LinksForest DEF SameLinks
<1>20. IF q = Nil THEN p = r.root ELSE q \in S /\ r.child[d2][q] = p
  BY <1>6, <1>10, <1>12
<1>21. r.red \subseteq S
  BY <1>1, <1>2, <1>6
<1>22. Removing(r, sub, bh2, q, d2, p, S)
  BY <1>16, <1>17, <1>18, <1>19, <1>20, <1>21 DEF Removing
<1>23. QED
  BY <1>22 DEF r, q

(* Only the inner child of the sibling is red: it takes its place.         *)
Nephew(t, p, d, w, m) == w = t.child[Other(d)][p] /\ m = t.child[d][w]

LEMMA InnerNephew ==
  ASSUME NEW t, NEW sub, NEW bh, NEW p, NEW d, NEW e, NEW S, Short(t, sub, bh, p, d, e, S),
         NEW w, NEW m, Nephew(t, p, d, w, m),
         w \notin t.red, m \in t.red, t.child[Other(d)][w] \notin t.red,
         NEW u, u = Rotate(Paint(t, {m}, {w}), w, Other(d))
  PROVE  /\ \E sub2, bh2 : Short(u, sub2, bh2, p, d, e, S)
         /\ u.child[Other(d)][p] = m /\ m \notin u.red /\ u.child[Other(d)][m] \in u.red
<1> DEFINE o == Other(d)
           i == t.child[o][m]
           r == Paint(t, {m}, {w})
           v == Rotate(r, w, o)
           s == Rotated(r, sub, w, o)
<1>1. /\ p \in Elems /\ e \in Pointers /\ w \in Elems /\ w \in S /\ w # p /\ w # e /\ e # p
      /\ p \notin sub[e] /\ p \notin sub[w] /\ w \in sub[w]
      /\ \A z \in sub[w] : z \notin sub[e]
  BY SiblingIs DEF Nephew
<1>2. /\ Forest(t, sub) /\ t \in Trees /\ sub[t.root] = S /\ t.red \subseteq S /\ t.red \in SUBSET Elems
      /\ d \in Sides /\ Heights(t, bh, p, d) /\ Reds(t, Nil, Nil)
      /\ t.root \notin t.red /\ p \in S /\ t.child[d][p] = e /\ e \notin t.red
  BY TreeParts DEF Short, Forest
<1>3. o \in Sides /\ d # o /\ Other(o) = d /\ \A b \in Sides : b = d \/ b = o
  BY <1>2, SidesAre
<1>4. t.child[o][p] = w /\ w \notin t.red /\ p # Nil /\ w # Nil
      /\ t.child[d][w] = m /\ m \in t.red /\ m \in Elems /\ m # Nil
  BY <1>1, <1>2, ElemsAre DEF Nephew
<1>5. \A x \in Elems, b \in Sides : ~(x \in t.red /\ t.child[b][x] \in t.red)
  BY <1>2, ElemsAre DEF Reds
<1>6. m # w /\ m # p /\ m # e /\ m \in sub[w] /\ w \notin sub[m]
  <2>1. t.child[d][w] # w /\ t.child[d][w] \in sub[w] /\ w \notin sub[t.child[d][w]]
    <3>1. t.child[d][w] # Nil
      BY <1>4
    <3>2. QED
      BY <1>1, <1>2, <3>1, OnePlace
  <2>2. QED
    BY <1>1, <1>2, <1>4, <2>1
<1>7. r \in Trees /\ r.root = t.root /\ r.child = t.child /\ r.parent = t.parent
      /\ r.red = (t.red \ {m}) \cup {w}
  <2>1. {w} \in SUBSET Elems
    BY <1>1
  <2>2. QED
    BY <1>2, <2>1, PaintIs
<1> HIDE DEF r
<1>8. Swapped(t, r, w, m)
  BY <1>4, <1>6, <1>7 DEF Swapped, SameLinks
<1>9. Rotates(t, sub, w, o)
  BY <1>1, <1>2, <1>3, <1>4 DEF Rotates
<1>10. Rotates(r, sub, w, o)
  <2>1. Forest(r, sub)
    BY <1>2, <1>7, LinksForest DEF SameLinks
  <2>2. QED
    BY <1>7, <1>9, <2>1 DEF Rotates
<1>11. /\ v \in Trees /\ v.red = r.red
       /\ v.root = IF w = t.root THEN m ELSE t.root
       /\ \A b \in Sides, x \in Elems :
            v.child[b][x] = IF x = w /\ b = d THEN i
                            ELSE IF x = m /\ b = o THEN w
                            ELSE IF t.child[b][x] = w THEN m ELSE t.child[b][x]
  <2>1. r.child[Other(o)][w] = m /\ r.child[o][m] = i
    BY <1>3, <1>4, <1>7
  <2>2. QED
    BY <1>3, <1>7, <1>10, <2>1, RotateIs
<1>12. Forest(v, s) /\ s[v.root] = S
  BY <1>2, <1>7, <1>10, RotateForest
<1>13. \E bh2 : Heights(v, bh2, p, d)
  <2>1. m = t.child[Other(o)][w]
    BY <1>3, <1>4
  <2>2. p # m /\ p # w
    BY <1>1, <1>6
  <2>3. Heights(v, [bh EXCEPT ![w] = bh[m], ![m] = bh[w]], p, d)
    BY <1>2, <1>8, <1>9, <2>1, <2>2, RotateHeights
  <2>4. QED
    BY <2>3
<1>14. i \notin t.red /\ i # w
  <2>1. i \notin t.red
    BY <1>3, <1>4, <1>5
  <2>2. sub[i] \subseteq sub[m] /\ (i \in Elems => i \in sub[i])
    BY <1>2, <1>3, <1>4, ChildIs
  <2> HIDE DEF i
  <2>3. i # w
    BY <1>1, <1>6, <2>2
  <2>4. QED
    BY <2>1, <2>3
<1>15. t.child[o][w] \notin t.red /\ t.child[o][w] # w
  <2>1. t.child[o][w] # w
    <3>1. t.child[o][w] # Nil => t.child[o][w] # w
      BY <1>1, <1>2, <1>3, OnePlace
    <3>2. QED
      BY <1>4, <3>1
  <2>2. QED
    BY <2>1
<1> HIDE DEF i, v, s
<1>16. Reds(v, Nil, Nil)
  <2>1. SUFFICES ASSUME NEW x \in Elems, NEW b \in Sides, x \in r.red, v.child[b][x] \in r.red
                 PROVE  FALSE
    BY <1>11 DEF Reds
  <2>2. x # m /\ v.child[b][x] # m
    BY <1>6, <1>7, <2>1
  <2>3. CASE x = w
    <3>1. b = o => v.child[b][x] = t.child[o][w]
      BY <1>3, <1>6, <1>11, <1>15, <2>3
    <3>2. b = d => v.child[b][x] = i
      BY <1>11, <2>3
    <3>3. t.child[o][w] \notin r.red /\ i \notin r.red
      BY <1>7, <1>14, <1>15
    <3>4. QED
      BY <1>3, <2>1, <3>1, <3>2, <3>3
  <2>4. CASE x # w
    <3>1. v.child[b][x] = t.child[b][x] /\ t.child[b][x] # w
      BY <1>11, <2>2, <2>4
    <3>2. x \in t.red /\ t.child[b][x] \in t.red
      BY <1>7, <2>1, <2>4, <3>1
    <3>3. QED
      BY <1>5, <3>2
  <2>5. QED
    BY <2>3, <2>4
<1>17. t.root # w
  <2>1. t.parent[w] = p
    BY <1>1, <1>2, <1>3, <1>4 DEF Forest
  <2>2. QED
    BY <1>2, <1>4, <2>1 DEF Forest
<1>18. v.root \notin v.red /\ v.red \subseteq S
  BY <1>1, <1>2, <1>7, <1>11, <1>17
<1>19. /\ v.child[d][p] = e /\ v.child[o][p] = m /\ v.child[o][m] = w
       /\ e \notin v.red /\ m \notin v.red /\ w \in v.red
  BY <1>1, <1>2, <1>3, <1>4, <1>6, <1>7, <1>11
<1>20. \E sub2, bh2 : Short(v, sub2, bh2, p, d, e, S)
  BY <1>2, <1>12, <1>13, <1>16, <1>18, <1>19 DEF Short
<1>21. u = v
  BY DEF r, v
<1>22. QED
  BY <1>19, <1>20, <1>21

----------------------------------------------------------------------------
(* The outer child of the black sibling is red: one rotation is the end.   *)
Outer(t, p, d, w, f) == w = t.child[Other(d)][p] /\ f = t.child[Other(d)][w]

LEMMA RecolourIs ==
  ASSUME NEW t \in Trees, NEW p \in Elems, NEW w \in Elems, NEW f \in Elems, w # p, f # p, f # w
  PROVE  LET r == Recolour(t, p, w, f)
         IN /\ SameLinks(t, r) /\ p \notin r.red /\ f \notin r.red /\ (w \in r.red <=> p \in t.red)
            /\ \A x : x # w /\ x # p /\ x # f => (x \in r.red <=> x \in t.red)
<1> DEFINE r == Recolour(t, p, w, f)
           new == IF p \in t.red THEN {w} ELSE {}
<1>1. new \in SUBSET Elems
  OBVIOUS
<1>2. r = Paint(t, {w, p, f}, new)
  BY DEF Recolour
<1> HIDE DEF r, new
<1>3. r \in Trees /\ r.root = t.root /\ r.child = t.child /\ r.parent = t.parent
      /\ r.red = (t.red \ {w, p, f}) \cup new
  BY <1>1, <1>2, PaintIs
<1>4. QED
  BY <1>3 DEF SameLinks, r, new

LEMMA LastRotation ==
  ASSUME NEW t, NEW sub, NEW bh, NEW p, NEW d, NEW e, NEW S, Short(t, sub, bh, p, d, e, S),
         NEW w, NEW f, Outer(t, p, d, w, f), w \notin t.red, f \in t.red
  PROVE  Holds(Rotate(Recolour(t, p, w, f), p, d), S)
<1> DEFINE o == Other(d)
           i == t.child[d][w]
           r == Recolour(t, p, w, f)
           v == Rotate(r, p, d)
           s == Rotated(r, sub, p, d)
           bh2 == [[[bh EXCEPT ![p] = bh[e] + 1] EXCEPT ![w] = bh[p]] EXCEPT ![f] = bh[f] + 1]
<1>1. /\ p \in Elems /\ e \in Pointers /\ w \in Elems /\ w \in S /\ w # p /\ w # e /\ e # p
      /\ p \notin sub[e] /\ p \notin sub[w] /\ w \in sub[w]
      /\ bh[w] = bh[e] + 1 /\ bh[e] \in Nat /\ bh[p] = bh[w] + Black(t, p)
      /\ \A z \in sub[w] : z \notin sub[e]
  BY SiblingIs DEF Outer
<1>2. /\ Forest(t, sub) /\ t \in Trees /\ sub[t.root] = S /\ t.red \subseteq S /\ t.red \in SUBSET Elems
      /\ d \in Sides /\ Heights(t, bh, p, d) /\ Reds(t, Nil, Nil)
      /\ t.root \notin t.red /\ p \in S /\ t.child[d][p] = e /\ e \notin t.red
      /\ bh \in [Pointers -> Nat] /\ bh[Nil] = 0
  BY TreeParts DEF Short, Forest, Heights
<1>3. o \in Sides /\ d # o /\ Other(o) = d /\ \A b \in Sides : b = d \/ b = o
  BY <1>2, SidesAre
<1>4. t.child[o][p] = w /\ w \notin t.red /\ p # Nil /\ w # Nil
      /\ t.child[o][w] = f /\ f \in t.red /\ f \in Elems /\ f # Nil
  BY <1>1, <1>2, ElemsAre DEF Outer
<1>5. \A x \in Elems, b \in Sides : ~(x \in t.red /\ t.child[b][x] \in t.red)
  BY <1>2, ElemsAre DEF Reds
<1>6. f # w /\ f # p /\ f # e /\ f \in sub[w] /\ w \notin sub[f]
      /\ \A x \in Elems, b \in Sides : t.child[b][x] = f => x = w /\ b = o
  <2>1. /\ t.child[o][w] # w /\ t.child[o][w] \in sub[w] /\ w \notin sub[t.child[o][w]]
        /\ \A x \in Elems, b \in Sides : t.child[b][x] = t.child[o][w] => x = w /\ b = o
    <3>1. t.child[o][w] # Nil
      BY <1>4
    <3>2. QED
      BY <1>1, <1>2, <1>3, <3>1, OnePlace
  <2>2. QED
    BY <1>1, <1>2, <1>4, <2>1
<1>7. \A x \in Elems, b \in Sides : t.child[b][x] = w => x = p /\ b = o
  <2>1. t.child[o][p] # Nil
    BY <1>4
  <2>2. \A x \in Elems, b \in Sides : t.child[b][x] = t.child[o][p] => x = p /\ b = o
    BY <1>1, <1>2, <1>3, <2>1, OnePlace
  <2>3. QED
    BY <1>4, <2>2
<1>8. /\ SameLinks(t, r) /\ p \notin r.red /\ f \notin r.red /\ (w \in r.red <=> p \in t.red)
      /\ \A x : x # w /\ x # p /\ x # f => (x \in r.red <=> x \in t.red)
  BY <1>1, <1>2, <1>4, <1>6, RecolourIs
<1> HIDE DEF r
<1>9. r \in Trees /\ r.root = t.root /\ r.child = t.child /\ r.parent = t.parent
  BY <1>8 DEF SameLinks
<1>10. Rotates(r, sub, p, d)
  <2>1. Forest(r, sub)
    BY <1>2, <1>8, LinksForest
  <2>2. r.child[Other(d)][p] # Nil
    BY <1>4, <1>9
  <2>3. QED
    BY <1>2, <1>9, <2>1, <2>2 DEF Rotates
<1>11. /\ v \in Trees /\ v.red = r.red
       /\ v.root = IF p = t.root THEN w ELSE t.root
       /\ \A b \in Sides, x \in Elems :
            v.child[b][x] = IF x = p /\ b = o THEN i
                            ELSE IF x = w /\ b = d THEN p
                            ELSE IF t.child[b][x] = p THEN w ELSE t.child[b][x]
  <2>1. r.child[o][p] = w /\ r.child[d][w] = i
    BY <1>4, <1>9
  <2>2. QED
    BY <1>9, <1>10, <2>1, RotateIs
<1>12. Forest(v, s) /\ s[v.root] = S
  BY <1>2, <1>9, <1>10, RotateForest
<1>13. i \in Pointers /\ i # p /\ i # w /\ i # f
  <2>1. i \in Pointers /\ sub[i] \subseteq sub[w] /\ (i \in Elems => i \in sub[i])
    BY <1>1, <1>2, ChildIs
  <2>2. i # w /\ i # f
    BY <1>1, <1>2, <1>3, <1>6, <1>7
  <2> HIDE DEF i
  <2>3. i # p
    BY <1>1, <2>1
  <2>4. QED
    BY <2>1, <2>2, <2>3
<1>14. t.child[d][w] = i
  OBVIOUS
<1>15. /\ bh2 \in [Pointers -> Nat] /\ bh2[p] = bh[e] + 1 /\ bh2[w] = bh[p] /\ bh2[f] = bh[f] + 1
       /\ \A x \in Pointers : x # p /\ x # w /\ x # f => bh2[x] = bh[x]
  <2> DEFINE h1 == [bh EXCEPT ![p] = bh[e] + 1]
             h2 == [h1 EXCEPT ![w] = bh[p]]
             h3 == [h2 EXCEPT ![f] = bh[f] + 1]
  <2>1. p \in Pointers /\ w \in Pointers /\ f \in Pointers /\ bh[p] \in Nat /\ bh[f] \in Nat /\ bh[e] + 1 \in Nat
    BY <1>1, <1>2, <1>4, ElemsAre
  <2>2. h1 \in [Pointers -> Nat] /\ h1[p] = bh[e] + 1 /\ \A x \in Pointers : x # p => h1[x] = bh[x]
    BY <1>2, <2>1
  <2> HIDE DEF h1
  <2>3. h2 \in [Pointers -> Nat] /\ h2[w] = bh[p] /\ \A x \in Pointers : x # w => h2[x] = h1[x]
    BY <2>1, <2>2
  <2> HIDE DEF h2
  <2>4. h3 \in [Pointers -> Nat] /\ h3[f] = bh[f] + 1 /\ \A x \in Pointers : x # f => h3[x] = h2[x]
    BY <2>1, <2>3
  <2> HIDE DEF h3
  <2>5. bh2 = h3
    BY DEF h1, h2, h3
  <2> HIDE DEF bh2
  <2>6. QED
    BY <1>1, <1>6, <2>1, <2>2, <2>3, <2>4, <2>5
<1> HIDE DEF i, v, s, bh2
<1>16. bh2[Nil] = 0
  BY <1>2, <1>4, <1>15, ElemsAre
<1>17. /\ Black(v, p) = 1 /\ Black(v, f) = 1 /\ Black(v, w) = Black(t, p) /\ Black(t, w) = 1 /\ Black(t, f) = 0
       /\ \A x \in Elems : x # w /\ x # p /\ x # f => Black(v, x) = Black(t, x)
  BY <1>4, <1>8, <1>11 DEF Black
<1>18. Black(t, p) \in {0, 1}
  BY DEF Black
<1>19. bh[i] = bh[e] /\ bh[f] = bh[e]
  <2>1. Lack(p, d, w, d) = 0 /\ Lack(p, d, w, o) = 0
    BY <1>1 DEF Lack
  <2>2. bh[w] = bh[i] + Black(t, w) + Lack(p, d, w, d) /\ bh[i] \in Nat
    BY <1>1, <1>2, <1>14, HeightsAt
  <2>3. bh[w] = bh[f] + Black(t, w) + Lack(p, d, w, o) /\ bh[f] \in Nat
    BY <1>1, <1>2, <1>3, <1>4, HeightsAt
  <2>4. QED
    BY <1>1, <1>17, <2>1, <2>2, <2>3
<1>20. /\ v.child[d][p] = e /\ v.child[o][p] = i /\ v.child[d][w] = p /\ v.child[o][w] = f
  BY <1>1, <1>2, <1>3, <1>4, <1>6, <1>11
<1>21. ASSUME NEW x \in Elems, NEW b \in Sides
       PROVE  bh2[x] = bh2[v.child[b][x]] + Black(v, x) + Lack(Nil, "left", x, b)
  <2>1. Lack(Nil, "left", x, b) = 0
    BY NoLack
  <2>2. CASE x = p
    <3>1. bh2[e] = bh[e] /\ bh2[i] = bh[e]
      BY <1>1, <1>6, <1>13, <1>15, <1>19
    <3>2. v.child[b][x] = e \/ v.child[b][x] = i
      BY <1>3, <1>20, <2>2
    <3>3. bh2[x] = bh[e] + 1 /\ Black(v, x) = 1
      BY <1>15, <1>17, <2>2
    <3>4. QED
      BY <1>1, <2>1, <3>1, <3>2, <3>3
  <2>3. CASE x = w
    <3>1. v.child[b][x] = p \/ v.child[b][x] = f
      BY <1>3, <1>20, <2>3
    <3>2. bh2[p] = bh[e] + 1 /\ bh2[f] = bh[e] + 1
      BY <1>15, <1>19
    <3>3. bh2[x] = bh[e] + 1 + Black(t, p) /\ Black(v, x) = Black(t, p)
      BY <1>1, <1>15, <1>17, <2>3
    <3>4. QED
      BY <1>1, <1>18, <2>1, <3>1, <3>2, <3>3
  <2>4. CASE x # p /\ x # w
    <3> DEFINE c == t.child[b][x]
    <3>1. bh[x] = bh[c] + Black(t, x) + Lack(p, d, x, b)
          /\ bh[x] \in Nat /\ bh[c] \in Nat /\ Black(t, x) \in {0, 1}
      BY <1>2, HeightsAt
    <3>2. Lack(p, d, x, b) = 0
      BY <2>4 DEF Lack
    <3>3. c \in Pointers /\ x \in Pointers /\ c # w /\ c # f
      BY <1>2, <1>6, <1>7, <2>4, ChildIs, ElemsAre
    <3>4. v.child[b][x] = IF c = p THEN w ELSE c
      BY <1>11, <2>4
    <3> HIDE DEF c
    <3>5. bh2[v.child[b][x]] = bh[c]
      BY <1>15, <3>3, <3>4
    <3>6. CASE x = f
      <4>1. bh2[x] = bh[x] + 1 /\ Black(v, x) = 1 /\ Black(t, x) = 0
        BY <1>15, <1>17, <3>6
      <4>2. QED
        BY <2>1, <3>1, <3>2, <3>5, <4>1
    <3>7. CASE x # f
      <4>1. bh2[x] = bh[x] /\ Black(v, x) = Black(t, x)
        BY <1>15, <1>17, <2>4, <3>3, <3>7
      <4>2. QED
        BY <2>1, <3>1, <3>2, <3>5, <4>1
    <3>8. QED
      BY <3>6, <3>7
  <2>5. QED
    BY <2>2, <2>3, <2>4
<1>22. Heights(v, bh2, Nil, "left")
  BY <1>15, <1>16, <1>21 DEF Heights
<1>23. Reds(v, Nil, Nil)
  <2>1. SUFFICES ASSUME NEW x \in Elems, NEW b \in Sides, x \in r.red, v.child[b][x] \in r.red
                 PROVE  FALSE
    BY <1>11 DEF Reds
  <2>2. x # p /\ x # f /\ v.child[b][x] # p /\ v.child[b][x] # f
    BY <1>8, <2>1
  <2>3. x # w
    BY <1>3, <1>20, <2>2
  <2>4. x \in t.red
    BY <1>8, <2>1, <2>2, <2>3
  <2>5. v.child[b][x] = IF t.child[b][x] = p THEN w ELSE t.child[b][x]
    BY <1>11, <2>2, <2>3
  <2>6. CASE t.child[b][x] = p
    <3>1. p \in t.red
      BY <1>8, <2>1, <2>5, <2>6
    <3>2. QED
      BY <1>5, <2>4, <2>6, <3>1
  <2>7. CASE t.child[b][x] # p
    <3>1. t.child[b][x] # w
      BY <1>7, <2>2
    <3>2. t.child[b][x] \in t.red
      BY <1>8, <2>1, <2>2, <2>5, <2>7, <3>1
    <3>3. QED
      BY <1>5, <2>4, <3>2
  <2>8. QED
    BY <2>6, <2>7
<1>24. v.red \subseteq S
  <2>1. \A x \in r.red : x \in S
    BY <1>1, <1>2, <1>8
  <2>2. QED
    BY <1>11, <2>1
<1>25. v.root \notin v.red
  <2>1. CASE p = t.root
    BY <1>2, <1>8, <1>11, <2>1
  <2>2. CASE p # t.root
    <3>1. t.root # w
      <4>1. t.parent[w] = p
        BY <1>1, <1>2, <1>3, <1>4 DEF Forest
      <4>2. QED
        BY <1>2, <1>4, <4>1 DEF Forest
    <3>2. t.root \notin r.red
      BY <1>2, <1>4, <1>8, <2>2, <3>1
    <3>3. QED
      BY <1>11, <2>2, <3>2
  <2>3. QED
    BY <2>1, <2>2
<1>26. Holds(v, S)
  BY <1>12, <1>22, <1>23, <1>24, <1>25 DEF Holds
<1>27. QED
  BY <1>26 DEF v, r

(* A tree that is whole again, with the root as e. *)
LEMMA HoldsRemoving ==
  ASSUME NEW t, NEW S, Holds(t, S)
  PROVE  \E sub, bh : Removing(t, sub, bh, Nil, "left", t.root, S)
<1>1. PICK sub, bh : /\ Forest(t, sub) /\ sub[t.root] = S /\ Heights(t, bh, Nil, "left")
                     /\ Reds(t, Nil, Nil) /\ t.red \subseteq S /\ t.root \notin t.red
  BY DEF Holds
<1>2. Reds(t, t.root, t.root)
  <2>1. t.red \in SUBSET Elems
    BY <1>1, TreeParts DEF Forest
  <2>2. QED
    BY <1>1, <2>1, ElemsAre DEF Reds
<1>3. QED
  BY <1>1, <1>2 DEF Removing, Sides

----------------------------------------------------------------------------
LEMMA RemoveTurnIs ==
  ASSUME NEW t, NEW p, NEW e, NEW d, d = Side(t, p, e), ~Done(t, e),
         NEW s, s = BlackSibling(t, p, d), NEW w, w = s.child[Other(d)][p],
         NEW q, q = Finish(RedOutside(s, p, d), p, d)
  PROVE  RemoveTurn(t, p, e) =
           IF s.child["left"][w] \notin s.red /\ s.child["right"][w] \notin s.red
           THEN [t |-> Paint(s, {}, {w}), p |-> s.parent[p], e |-> p]
           ELSE [t |-> q, p |-> p, e |-> q.root]
BY DEF RemoveTurn, Done

LEMMA LastHolds ==
  ASSUME NEW t, NEW sub, NEW bh, NEW p, NEW d, NEW e, NEW S, Short(t, sub, bh, p, d, e, S),
         NEW w, w = t.child[Other(d)][p], w \notin t.red, \E b \in Sides : t.child[b][w] \in t.red
  PROVE  Holds(Finish(RedOutside(t, p, d), p, d), S)
<1> DEFINE o == Other(d)
           f == t.child[o][w]
           m == t.child[d][w]
<1>1. d \in Sides /\ \A b \in Sides : b = d \/ b = o
  BY SidesAre DEF Short
<1>2. CASE f \in t.red
  <2>1. RedOutside(t, p, d) = t
    BY <1>2 DEF RedOutside
  <2>2. Outer(t, p, d, w, f)
    BY DEF Outer
  <2> HIDE DEF f
  <2>3. Holds(Rotate(Recolour(t, p, w, f), p, d), S)
    BY <1>2, <2>2, LastRotation
  <2>4. Finish(t, p, d) = Rotate(Recolour(t, p, w, f), p, d)
    BY DEF Finish, f
  <2>5. QED
    BY <2>1, <2>3, <2>4
<1>3. CASE f \notin t.red
  <2> DEFINE u == Rotate(Paint(t, {m}, {w}), w, o)
  <2>1. RedOutside(t, p, d) = u
    BY <1>3 DEF RedOutside
  <2>2. m \in t.red
    BY <1>1, <1>3
  <2>3. Nephew(t, p, d, w, m)
    BY DEF Nephew
  <2>4. t.child[Other(d)][w] \notin t.red
    BY <1>3
  <2> HIDE DEF m
  <2>5. /\ \E sub2, bh2 : Short(u, sub2, bh2, p, d, e, S)
        /\ u.child[Other(d)][p] = m /\ m \notin u.red /\ u.child[Other(d)][m] \in u.red
    BY <2>2, <2>3, <2>4, InnerNephew
  <2> HIDE DEF u
  <2>6. PICK sub2, bh2 : Short(u, sub2, bh2, p, d, e, S)
    BY <2>5
  <2> DEFINE k == u.child[Other(d)][m]
  <2>7. Outer(u, p, d, m, k)
    BY <2>5 DEF Outer
  <2>8. k \in u.red
    BY <2>5
  <2>9. Finish(u, p, d) = Rotate(Recolour(u, p, m, k), p, d)
    BY <2>5 DEF Finish
  <2> HIDE DEF k
  <2>10. Holds(Rotate(Recolour(u, p, m, k), p, d), S)
    BY <2>5, <2>6, <2>7, <2>8, LastRotation
  <2>11. QED
    BY <2>1, <2>9, <2>10
<1>4. QED
  BY <1>2, <1>3

LEMMA RemovingTypes ==
  ASSUME NEW t, NEW p, NEW e, NEW sub, NEW bh, NEW q, NEW d, NEW S, Removing(t, sub, bh, q, d, e, S)
  PROVE  /\ t \in Trees /\ e \in Pointers /\ q \in Pointers /\ S \subseteq Elems
         /\ \A x \in Elems : t.parent[x] \in Pointers
<1>1. /\ Forest(t, sub) /\ t \in Trees /\ sub[t.root] = S /\ d \in Sides /\ t.root \in Pointers
      /\ \A x \in Elems : t.parent[x] \in Pointers /\ \A b \in Sides : t.child[b][x] \in Pointers
  BY TreeParts DEF Removing, Forest
<1>2. S \subseteq Elems
  BY <1>1 DEF Forest
<1>3. IF q = Nil THEN e = t.root ELSE q \in S /\ t.child[d][q] = e
  BY DEF Removing
<1>4. QED
  BY <1>1, <1>2, <1>3, ElemsAre

LEMMA RemoveTurnOK ==
  ASSUME NEW t, NEW p, NEW e, NEW sub, NEW bh, NEW q, NEW d, NEW S,
         Removing(t, sub, bh, q, d, e, S), p = q \/ e = t.root, ~Done(t, e)
  PROVE  \E r, p2, e2, sub2, bh2, q2, d2 :
           /\ RemoveTurn(t, p, e) = [t |-> r, p |-> p2, e |-> e2] /\ p2 \in Pointers
           /\ Removing(r, sub2, bh2, q2, d2, e2, S) /\ (p2 = q2 \/ e2 = r.root)
           /\ Done(r, e2) \/ Cardinality(sub[e]) + 1 <= Cardinality(sub2[e2])
<1>1. Short(t, sub, bh, q, d, e, S)
  BY RemovingShort
<1>2. p = q
  BY DEF Done
<1> DEFINE o == Other(d)
           w0 == t.child[o][p]
           s == BlackSibling(t, p, d)
           w == s.child[o][p]
           z == Finish(RedOutside(s, p, d), p, d)
<1>3. Short(t, sub, bh, p, d, e, S)
  BY <1>1, <1>2
<1>4. d = Side(t, p, e) /\ Cardinality(sub[e]) + 1 <= Cardinality(sub[p]) /\ p \in Elems
  BY <1>3, SiblingIs
<1>5. RemoveTurn(t, p, e) =
        IF s.child["left"][w] \notin s.red /\ s.child["right"][w] \notin s.red
        THEN [t |-> Paint(s, {}, {w}), p |-> s.parent[p], e |-> p]
        ELSE [t |-> z, p |-> p, e |-> z.root]
  BY <1>4, RemoveTurnIs
<1>6. \E sub1, bh1 : /\ Short(s, sub1, bh1, p, d, e, S) /\ w \notin s.red
                     /\ p \in s.red \/ sub1 = sub
  <2>1. CASE w0 \in t.red
    <3>1. s = Rotate(Paint(t, {w0}, {p}), p, d)
      BY <2>1 DEF BlackSibling
    <3> HIDE DEF s
    <3>2. /\ \E sub1, bh1 : Short(s, sub1, bh1, p, d, e, S)
          /\ s.child[Other(d)][p] \notin s.red /\ p \in s.red
      BY <1>3, <2>1, <3>1, RedSibling
    <3>3. QED
      BY <3>2
  <2>2. CASE w0 \notin t.red
    <3>1. s = t
      BY <2>2 DEF BlackSibling
    <3>2. QED
      BY <1>3, <2>2, <3>1
  <2>3. QED
    BY <2>1, <2>2
<1> HIDE DEF s, w, z
<1>7. PICK sub1, bh1 : /\ Short(s, sub1, bh1, p, d, e, S) /\ w \notin s.red
                       /\ p \in s.red \/ sub1 = sub
  BY <1>6
<1>8. w = s.child[Other(d)][p]
  BY DEF w
<1>9. p \in Pointers
  BY <1>4, ElemsAre
<1>10. CASE \A b \in Sides : s.child[b][w] \notin s.red
  <2> DEFINE r == Paint(s, {}, {w})
  <2>1. \E bh2, d2 : Removing(r, sub1, bh2, s.parent[p], d2, p, S)
    BY <1>7, <1>8, <1>10, BlackNephews
  <2>2. RemoveTurn(t, p, e) = [t |-> r, p |-> s.parent[p], e |-> p]
    BY <1>5, <1>10 DEF Sides
  <2>3. s.parent[p] \in Pointers
    BY <1>4, <1>7, TreeParts DEF Short, Forest
  <2>4. p \in s.red => p \in r.red
    BY <1>4, <1>7 DEF Paint, Short, Forest, Trees
  <2> HIDE DEF r
  <2>5. Done(r, p) \/ Cardinality(sub[e]) + 1 <= Cardinality(sub1[p])
    BY <1>4, <1>7, <2>4 DEF Done
  <2>6. QED
    BY <2>1, <2>2, <2>3, <2>5
<1>11. CASE \E b \in Sides : s.child[b][w] \in s.red
  <2>1. Holds(z, S)
    BY <1>7, <1>8, <1>11, LastHolds DEF z
  <2>2. RemoveTurn(t, p, e) = [t |-> z, p |-> p, e |-> z.root]
    BY <1>5, <1>11 DEF Sides
  <2>3. \E sub2, bh2 : Removing(z, sub2, bh2, Nil, "left", z.root, S)
    BY <2>1, HoldsRemoving
  <2>4. Done(z, z.root)
    BY DEF Done
  <2>5. QED
    BY <1>9, <2>2, <2>3, <2>4
<1>12. QED
  BY <1>10, <1>11

LEMMA RemoveTurnEnds ==
  ASSUME NEW t, NEW p, NEW e, Done(t, e)
  PROVE  RemoveTurn(t, p, e) = [t |-> t, p |-> p, e |-> e]
BY DEF Done, RemoveTurn

(* RB_REMOVE_COLOR *)
RemoveLoop(t, p, e) ==
  Loop([v \in [t : Trees, p : Pointers, e : Pointers] |-> RemoveTurn(v.t, v.p, v.e)],
       [t |-> t, p |-> p, e |-> e])

LEMMA RemoveLoops ==
  ASSUME NEW t, NEW p, NEW e, NEW sub, NEW bh, NEW d, NEW S, Removing(t, sub, bh, p, d, e, S)
  PROVE  \E sub2, bh2, q, d2 :
           /\ Removing(RemoveLoop(t, p, e).t, sub2, bh2, q, d2, RemoveLoop(t, p, e).e, S)
           /\ Done(RemoveLoop(t, p, e).t, RemoveLoop(t, p, e).e)
<1> DEFINE V == [t : Trees, p : Pointers, e : Pointers]
           step == [v \in V |-> RemoveTurn(v.t, v.p, v.e)]
           At(i, v) == \E sub2, bh2, q, d2 :
                          /\ Removing(v.t, sub2, bh2, q, d2, v.e, S) /\ (v.p = q \/ v.e = v.t.root)
                          /\ Done(v.t, v.e) \/ i <= Cardinality(sub2[v.e])
           Q == {q \in Nat \X V : At(q[1], q[2])}
           n == Cardinality(Elems)
           x == [t |-> t, p |-> p, e |-> e]
           end == Loop(step, x)
<1>1. n \in Nat
  BY RbAssumption, FS_CardinalityType
<1>2. ASSUME NEW u, NEW sub2, NEW bh2, NEW q, NEW d2, NEW f, Removing(u, sub2, bh2, q, d2, f, S)
      PROVE  Cardinality(sub2[f]) \in Nat
  <2>1. f \in Pointers /\ Forest(u, sub2)
    BY <1>2, RemovingTypes DEF Removing
  <2>2. SizesBelow(sub2) \in [Pointers -> 0..n] /\ SizesBelow(sub2)[f] = Cardinality(sub2[f])
    BY <2>1, SizesBelowAre DEF SizesBelow
  <2>3. QED
    BY <1>1, <2>1, <2>2
<1>3. <<0, x>> \in Q
  <2>1. x \in V /\ x.t = t /\ x.e = e /\ x.p = p
    BY RemovingTypes
  <2>2. Cardinality(sub[e]) \in Nat
    BY <1>2
  <2> HIDE DEF x
  <2>3. At(0, x)
    BY <2>1, <2>2
  <2> HIDE DEF At
  <2>4. QED
    BY <2>1, <2>3
<1>4. LoopKeeps(step, V, Q)
  <2>1. SUFFICES ASSUME NEW i \in 0..n - 1, NEW v \in V, <<i, v>> \in Q
                 PROVE  <<i + 1, step[v]>> \in Q
    BY DEF LoopKeeps
  <2>2. i \in Nat /\ i + 1 \in Nat
    BY <1>1
  <2>3. PICK sub2, bh2, q, d2 :
          /\ Removing(v.t, sub2, bh2, q, d2, v.e, S) /\ (v.p = q \/ v.e = v.t.root)
          /\ Done(v.t, v.e) \/ i <= Cardinality(sub2[v.e])
    BY <2>1
  <2>4. step[v] = RemoveTurn(v.t, v.p, v.e)
    OBVIOUS
  <2>5. CASE Done(v.t, v.e)
    <3>1. step[v] = [t |-> v.t, p |-> v.p, e |-> v.e]
      BY <2>4, <2>5, RemoveTurnEnds
    <3>2. [t |-> v.t, p |-> v.p, e |-> v.e] = v
      OBVIOUS
    <3>3. At(i + 1, v)
      BY <2>3, <2>5
    <3> HIDE DEF At, step
    <3>4. QED
      BY <2>2, <3>1, <3>2, <3>3
  <2>6. CASE ~Done(v.t, v.e)
    <3>1. PICK r, p2, e2, sub3, bh3, q3, d3 :
            /\ RemoveTurn(v.t, v.p, v.e) = [t |-> r, p |-> p2, e |-> e2] /\ p2 \in Pointers
            /\ Removing(r, sub3, bh3, q3, d3, e2, S) /\ (p2 = q3 \/ e2 = r.root)
            /\ Done(r, e2) \/ Cardinality(sub2[v.e]) + 1 <= Cardinality(sub3[e2])
      BY <2>3, <2>6, RemoveTurnOK
    <3>2. r \in Trees /\ e2 \in Pointers /\ Cardinality(sub3[e2]) \in Nat /\ Cardinality(sub2[v.e]) \in Nat
      BY <1>2, <2>3, <3>1, RemovingTypes
    <3>3. Done(r, e2) \/ i + 1 <= Cardinality(sub3[e2])
      BY <2>2, <2>3, <2>6, <3>1, <3>2
    <3> DEFINE y == [t |-> r, p |-> p2, e |-> e2]
    <3>4. y \in V /\ y.t = r /\ y.p = p2 /\ y.e = e2 /\ step[v] = y
      BY <2>4, <3>1, <3>2
    <3> HIDE DEF y, step
    <3>5. At(i + 1, y)
      BY <3>1, <3>3, <3>4
    <3> HIDE DEF At
    <3>6. QED
      BY <2>2, <3>4, <3>5
  <2>7. QED
    BY <2>5, <2>6
<1>5. Q \in SUBSET (Nat \X V)
  OBVIOUS
<1> HIDE DEF Q, step, x
<1>6. <<n, end>> \in Q
  BY <1>3, <1>4, <1>5, LoopEnds
<1>7. At(n, end)
  BY <1>6 DEF Q
<1>8. end = RemoveLoop(t, p, e)
  BY DEF RemoveLoop, step, x
<1> HIDE DEF end
<1>9. PICK sub2, bh2, q, d2 :
        /\ Removing(end.t, sub2, bh2, q, d2, end.e, S) /\ (end.p = q \/ end.e = end.t.root)
        /\ Done(end.t, end.e) \/ n <= Cardinality(sub2[end.e])
  BY <1>7
<1>10. Done(end.t, end.e)
  <2>1. SUFFICES ASSUME ~Done(end.t, end.e)
                 PROVE  FALSE
    OBVIOUS
  <2>2. Short(end.t, sub2, bh2, q, d2, end.e, S)
    BY <1>9, <2>1, RemovingShort
  <2>3. q \in Elems /\ Cardinality(sub2[end.e]) + 1 <= Cardinality(sub2[q])
    BY <2>2, SiblingIs
  <2>4. Forest(end.t, sub2) /\ q \in Pointers
    BY <2>2, <2>3, ElemsAre DEF Short
  <2>5. Cardinality(sub2[q]) \in 0..n
    BY <2>4, SizesBelowAre DEF SizesBelow
  <2>6. Cardinality(sub2[end.e]) \in Nat
    BY <1>2, <1>9
  <2>7. QED
    BY <1>1, <1>9, <2>1, <2>3, <2>5, <2>6
<1>11. QED
  BY <1>8, <1>9, <1>10

LEMMA RemoveColorHolds ==
  ASSUME NEW t, NEW p, NEW e, NEW sub, NEW bh, NEW d, NEW S, Removing(t, sub, bh, p, d, e, S)
  PROVE  Holds(RemoveColor(t, p, e), S)
<1> DEFINE end == RemoveLoop(t, p, e)
<1>1. RemoveColor(t, p, e) = Paint(end.t, {end.e}, {})
  BY DEF RemoveColor, RemoveLoop
<1>2. PICK sub2, bh2, q, d2 : Removing(end.t, sub2, bh2, q, d2, end.e, S) /\ Done(end.t, end.e)
  BY RemoveLoops
<1> HIDE DEF end
<1>3. Holds(Paint(end.t, {end.e}, {}), S)
  BY <1>2, DoneHolds
<1>4. QED
  BY <1>1, <1>3

----------------------------------------------------------------------------
(* RB_MINMAX from e on: every other element below e is on its other side.  *)
LEMMA ExtremeIs ==
  ASSUME NEW t, NEW sub, Forest(t, sub), NEW e \in Elems, NEW d \in Sides
  PROVE  LET x == Extreme(t, e, d)
         IN /\ x \in Elems /\ x \in sub[e] /\ t.child[d][x] = Nil
            /\ \A z \in sub[e] : z # x => Before(Other(d), z, x)
<1> DEFINE o == Other(d)
           step == [x \in Elems |-> IF t.child[d][x] = Nil THEN x ELSE t.child[d][x]]
           Passed(x) == \A z \in sub[e] : z \in sub[x] \/ \A y \in sub[x] : Before(o, z, y)
           G == {x \in Elems : x \in sub[e] /\ Passed(x)}
           rank == [x \in G |-> SizesBelow(sub)[x]]
           end == Extreme(t, e, d)
<1>1. \A x \in Elems : step[x] = IF t.child[d][x] = Nil THEN x ELSE t.child[d][x]
  OBVIOUS
<1>2. end = Loop(step, e)
  BY DEF Extreme
<1> HIDE DEF step, end
<1>3. sub[e] \subseteq Elems /\ e \in sub[e] /\ o \in Sides /\ \A b \in Sides : b = d \/ b = o
  BY ChildIs, SidesAre
<1>4. e \in G
  BY <1>3
<1>5. rank \in [G -> 0..Cardinality(Elems)]
  <2>1. \A x \in G : x \in Pointers
    BY ElemsAre
  <2>2. QED
    BY <2>1, SizesBelowAre
<1>6. Descends(step, G, rank)
  <2>1. SUFFICES ASSUME NEW x \in G
                 PROVE  step[x] \in G /\ (step[x] = x \/ rank[step[x]] < rank[x])
    BY DEF Descends
  <2>2. CASE t.child[d][x] = Nil
    BY <1>1, <2>2
  <2>3. CASE t.child[d][x] # Nil
    <3> DEFINE c == t.child[d][x]
    <3>1. /\ x \in Elems /\ x \in sub[e] /\ Passed(x) /\ c \in Elems /\ c \in sub[x]
          /\ sub[c] \subseteq sub[x] /\ sub[x] \subseteq Elems /\ sub[x] \subseteq sub[e]
          /\ sub[x] = {x} \cup sub[c] \cup sub[t.child[o][x]]
      BY <2>3, ChildIs, OnePlace, BelowBelow
    <3>2. \A y \in sub[c] : Before(o, x, y) /\ y \in Elems
      <4>1. \A y \in sub[c] : Before(d, y, x)
        BY <3>1 DEF Forest
      <4>2. QED
        BY <3>1, <4>1, BeforeIs
    <3>3. \A z \in sub[t.child[o][x]] : Before(o, z, x) /\ z \in Elems
      BY <1>3, <3>1 DEF Forest
    <3>4. ASSUME NEW z \in sub[e], z \notin sub[c], NEW y \in sub[c]
          PROVE  Before(o, z, y)
      <4>1. CASE z \in sub[x]
        <5>1. z = x \/ z \in sub[t.child[o][x]]
          BY <3>1, <3>4, <4>1
        <5>2. CASE z = x
          BY <3>2, <5>2
        <5>3. CASE z \in sub[t.child[o][x]]
          <6>1. Before(o, z, x) /\ Before(o, x, y) /\ z \in Elems /\ y \in Elems
            BY <3>2, <3>3, <5>3
          <6>2. QED
            BY <1>3, <3>1, <6>1, BeforeIs
        <5>4. QED
          BY <5>1, <5>2, <5>3
      <4>2. CASE z \notin sub[x]
        BY <3>1, <4>2
      <4>3. QED
        BY <4>1, <4>2
    <3>5. c \in G
      BY <3>1, <3>4
    <3>6. step[x] = c /\ SizesBelow(sub)[c] < SizesBelow(sub)[x]
      BY <1>1, <2>3, <3>1, SizesBelowAre
    <3>7. QED
      BY <3>5, <3>6
  <2>4. QED
    BY <2>2, <2>3
<1> HIDE DEF rank
<1>7. end \in G /\ step[end] = end
  BY <1>2, <1>4, <1>5, <1>6, LoopSettles
<1>8. end \in Elems /\ end \in sub[e] /\ Passed(end)
  BY <1>7
<1>9. t.child[d][end] = Nil
  <2>1. t.child[d][end] # Nil => t.child[d][end] # end
    BY <1>8, OnePlace
  <2>2. QED
    BY <1>1, <1>7, <1>8, <2>1
<1>10. ASSUME NEW z \in sub[e], z # end
       PROVE  Before(o, z, end)
  <2>1. end \in sub[end] /\ sub[end] = {end} \cup sub[t.child[d][end]] \cup sub[t.child[o][end]]
        /\ sub[Nil] = {}
    BY <1>8, ChildIs DEF Forest
  <2>2. CASE z \in sub[end]
    <3>1. z \in sub[t.child[o][end]]
      BY <1>9, <1>10, <2>1, <2>2
    <3>2. QED
      BY <1>3, <1>8, <3>1 DEF Forest
  <2>3. CASE z \notin sub[end]
    BY <1>8, <2>1, <2>3
  <2>4. QED
    BY <2>2, <2>3
<1>11. QED
  BY <1>8, <1>9, <1>10 DEF end

(* e leaves the tree, and what hangs below it goes up. *)
LEMMA UnlinkIs ==
  ASSUME NEW t, NEW sub, Forest(t, sub), NEW e \in sub[t.root],
         \E d \in Sides : t.child[d][e] = Nil
  PROVE  LET u == Unlink(t, e)
             c == OnlyChild(t, e)
             p == t.parent[e]
         IN /\ u \in Trees /\ u.red = t.red \ {e}
            /\ u.root = IF p = Nil THEN c ELSE t.root
            /\ \A x \in Elems : u.parent[x] = IF x = e THEN Nil ELSE IF x = c THEN p ELSE t.parent[x]
            /\ \A b \in Sides, x \in Elems :
                 u.child[b][x] = IF x = e THEN Nil ELSE IF t.child[b][x] = e THEN c ELSE t.child[b][x]
            /\ c \in Pointers /\ c # e /\ sub[e] = {e} \cup sub[c] /\ e \notin sub[c]
            /\ \E b \in Sides : t.child[b][e] = c
            /\ \A b \in Sides : t.child[b][e] # Nil => t.child[b][e] = c
<1> DEFINE c == OnlyChild(t, e)
           p == t.parent[e]
           s == Rise(t, c, e)
           u == Unlink(t, e)
<1>1. t \in Trees /\ e \in Elems /\ p \in Pointers /\ e # Nil
      /\ t.child["left"][e] \in Pointers /\ t.child["right"][e] \in Pointers
  <2>1. t \in Trees /\ e \in Elems
    BY TreeClosed DEF Forest
  <2>2. QED
    BY <2>1, TreeParts, ElemsAre DEF Sides
<1>2. c = IF t.child["left"][e] = Nil THEN t.child["right"][e] ELSE t.child["left"][e]
  BY DEF OnlyChild
<1>3. c \in Pointers /\ (\E b \in Sides : t.child[b][e] = c) /\ \A b \in Sides : t.child[b][e] # Nil => t.child[b][e] = c
  BY <1>1, <1>2 DEF Sides
<1>4. c # e
  BY <1>1, <1>3, OnePlace
<1>5. e \notin sub[c] /\ sub[e] = {e} \cup sub[c]
  <2>1. PICK b \in Sides : t.child[b][e] = c
    BY <1>3
  <2>2. e \notin sub[t.child[b][e]] /\ sub[e] = {e} \cup sub[t.child[b][e]] \cup sub[t.child[Other(b)][e]]
    BY <1>1, ChildIs
  <2>3. t.child[Other(b)][e] = Nil \/ t.child[Other(b)][e] = c
    BY <1>3, SidesAre
  <2>4. sub[Nil] = {}
    BY DEF Forest
  <2>5. QED
    BY <2>1, <2>2, <2>3, <2>4
<1>6. /\ s \in Trees /\ s.red = t.red
      /\ s.root = IF p = Nil THEN c ELSE t.root
      /\ \A x \in Elems : s.parent[x] = IF x = c THEN p ELSE t.parent[x]
      /\ \A b \in Sides, x \in Elems :
           s.child[b][x] = IF x = p /\ b = Side(t, p, e) THEN c ELSE t.child[b][x]
  <2> HIDE DEF c
  <2>1. QED
    BY <1>1, <1>3, RiseIs, SMTT(30)
<1>7. \A b \in Sides, x \in Elems : x = p /\ b = Side(t, p, e) <=> t.child[b][x] = e
  <2>1. \A b \in Sides, x \in Elems : t.child[b][x] = e => x = p
    BY <1>1 DEF Forest
  <2>2. p # Nil => t.child[Side(t, p, e)][p] = e /\ Side(t, p, e) \in Sides /\ p \in Elems
    BY <1>1, SideIs
  <2>3. \A b \in Sides, x \in Elems : t.child[b][x] = e => Side(t, x, e) = b
    BY <1>1, SideOf
  <2>4. QED
    BY <2>1, <2>2, <2>3, ElemsAre
<1>8. u = [root |-> s.root, child |-> [b \in Sides |-> [s.child[b] EXCEPT ![e] = Nil]],
           parent |-> [s.parent EXCEPT ![e] = Nil], red |-> s.red \ {e}]
  BY DEF Unlink
<1> HIDE DEF c, s, u
<1>9. /\ u \in Trees /\ u.root = s.root /\ u.red = s.red \ {e}
      /\ \A x \in Elems : u.parent[x] = IF x = e THEN Nil ELSE s.parent[x]
      /\ \A b \in Sides, x \in Elems : u.child[b][x] = IF x = e THEN Nil ELSE s.child[b][x]
  <2>1. /\ s.root \in Pointers /\ s.red \in SUBSET Elems /\ s.parent \in [Elems -> Pointers]
        /\ \A b \in Sides : s.child[b] \in [Elems -> Pointers]
    BY <1>6 DEF Trees
  <2>2. Nil \in Pointers
    BY ElemsAre
  <2>3. [s.parent EXCEPT ![e] = Nil] \in [Elems -> Pointers]
        /\ \A x \in Elems : [s.parent EXCEPT ![e] = Nil][x] = IF x = e THEN Nil ELSE s.parent[x]
    BY <1>1, <2>1, <2>2
  <2>4. \A b \in Sides : /\ [s.child[b] EXCEPT ![e] = Nil] \in [Elems -> Pointers]
                         /\ \A x \in Elems : [s.child[b] EXCEPT ![e] = Nil][x] = IF x = e THEN Nil ELSE s.child[b][x]
    BY <1>1, <2>1, <2>2
  <2>5. u \in Trees
    BY <1>8, <2>1, <2>3, <2>4 DEF Trees
  <2>6. QED
    BY <1>8, <2>3, <2>4, <2>5
<1>10. QED
  BY <1>3, <1>4, <1>5, <1>6, <1>7, <1>9 DEF c, u

TakenOut(sub, e) == [x \in Pointers |-> IF x = e THEN {e} ELSE sub[x] \ {e}]

LEMMA UnlinkForest ==
  ASSUME NEW t, NEW sub, Forest(t, sub), NEW e \in sub[t.root],
         \E d \in Sides : t.child[d][e] = Nil
  PROVE  /\ Forest(Unlink(t, e), TakenOut(sub, e))
         /\ TakenOut(sub, e)[Unlink(t, e).root] = sub[t.root] \ {e}
<1> DEFINE c == OnlyChild(t, e)
           p == t.parent[e]
           u == Unlink(t, e)
           s == TakenOut(sub, e)
           S == sub[t.root]
<1>1. /\ u \in Trees /\ u.red = t.red \ {e}
      /\ u.root = IF p = Nil THEN c ELSE t.root
      /\ \A x \in Elems : u.parent[x] = IF x = e THEN Nil ELSE IF x = c THEN p ELSE t.parent[x]
      /\ \A b \in Sides, x \in Elems :
           u.child[b][x] = IF x = e THEN Nil ELSE IF t.child[b][x] = e THEN c ELSE t.child[b][x]
      /\ c \in Pointers /\ c # e /\ sub[e] = {e} \cup sub[c] /\ e \notin sub[c]
      /\ \E b \in Sides : t.child[b][e] = c
      /\ \A b \in Sides : t.child[b][e] # Nil => t.child[b][e] = c
  BY UnlinkIs
<1>2. /\ t \in Trees /\ e \in Elems /\ e # Nil /\ p \in Pointers /\ (p = Nil <=> e = t.root)
      /\ t.root \in Pointers /\ sub \in [Pointers -> SUBSET Elems] /\ sub[Nil] = {} /\ S \subseteq Elems
      /\ \A x, z \in Elems : z \in sub[x] <=> z = x \/ \E b \in Sides : z \in sub[t.child[b][x]]
      /\ \A x \in Elems, b \in Sides : \A z \in sub[t.child[b][x]] : Before(b, z, x)
      /\ \A x \in Elems, b \in Sides : t.child[b][x] # Nil => t.parent[t.child[b][x]] = x
      /\ \A x \in Elems : t.parent[x] # Nil => \E b \in Sides : t.child[b][t.parent[x]] = x
      /\ t.root # Nil => t.parent[t.root] = Nil
      /\ \A x \in Elems : x \notin S => t.parent[x] = Nil /\ \A b \in Sides : t.child[b][x] = Nil
  <2>1. t \in Trees /\ e \in Elems /\ (p = Nil <=> e = t.root)
    BY TreeClosed DEF Forest
  <2>2. p \in Pointers /\ t.root \in Pointers /\ e # Nil
    BY <2>1, TreeParts, ElemsAre
  <2>3. QED
    BY <2>1, <2>2 DEF Forest
<1> HIDE DEF c, u, p, S
<1>3. /\ s \in [Pointers -> SUBSET Elems] /\ s[e] = {e} /\ s[Nil] = {}
      /\ \A x \in Pointers : x # e => s[x] = sub[x] \ {e}
  <2>1. \A x \in Pointers : s[x] = IF x = e THEN {e} ELSE sub[x] \ {e}
    BY DEF TakenOut
  <2>2. s \in [Pointers -> SUBSET Elems]
    BY <1>2 DEF TakenOut
  <2> HIDE DEF s
  <2>3. QED
    BY <1>2, <2>1, <2>2, ElemsAre
<1> HIDE DEF s
<1>4. \A x \in Elems, b \in Sides : t.child[b][x] \in Pointers
  BY <1>2, TreeParts
<1>5. \A x \in Elems, b \in Sides : x # e => s[u.child[b][x]] = sub[t.child[b][x]] \ {e}
  <2>1. SUFFICES ASSUME NEW x \in Elems, NEW b \in Sides, x # e
                 PROVE  s[u.child[b][x]] = sub[t.child[b][x]] \ {e}
    OBVIOUS
  <2>2. CASE t.child[b][x] = e
    BY <1>1, <1>3, <2>1, <2>2
  <2>3. CASE t.child[b][x] # e
    BY <1>1, <1>3, <1>4, <2>1, <2>3
  <2>4. QED
    BY <2>2, <2>3
<1>6. ASSUME NEW x \in Elems, NEW z \in Elems
      PROVE  z \in s[x] <=> z = x \/ \E b \in Sides : z \in s[u.child[b][x]]
  <2>1. CASE x = e
    BY <1>1, <1>3, <2>1
  <2>2. CASE x # e
    <3>1. s[x] = sub[x] \ {e}
      BY <1>3, <2>2, ElemsAre
    <3>2. z \in sub[x] <=> z = x \/ \E b \in Sides : z \in sub[t.child[b][x]]
      BY <1>2
    <3>3. \A b \in Sides : z \in s[u.child[b][x]] <=> z \in sub[t.child[b][x]] /\ z # e
      BY <1>5, <2>2
    <3>4. QED
      BY <2>2, <3>1, <3>2, <3>3
  <2>3. QED
    BY <2>1, <2>2
<1>7. ASSUME NEW x \in Elems, NEW b \in Sides, NEW z \in s[u.child[b][x]]
      PROVE  Before(b, z, x)
  <2>1. x # e
    BY <1>1, <1>3, <1>7
  <2>2. z \in sub[t.child[b][x]]
    BY <1>5, <1>7, <2>1
  <2>3. QED
    BY <1>2, <2>2
<1>8. ASSUME NEW x \in Elems, NEW b \in Sides, u.child[b][x] # Nil
      PROVE  u.parent[u.child[b][x]] = x
  <2>1. x # e
    BY <1>1, <1>8
  <2>2. CASE t.child[b][x] = e
    <3>1. u.child[b][x] = c /\ c \in Elems
      BY <1>1, <1>8, <2>1, <2>2, ElemsAre
    <3>2. p = x
      BY <1>2, <2>2 DEF p
    <3>3. QED
      BY <1>1, <3>1, <3>2
  <2>3. CASE t.child[b][x] # e
    <3>1. u.child[b][x] = t.child[b][x] /\ t.child[b][x] \in Elems /\ t.child[b][x] # Nil
      BY <1>1, <1>4, <1>8, <2>1, <2>3, ElemsAre
    <3>2. t.child[b][x] # c
      <4>1. PICK a \in Sides : t.child[a][e] = c
        BY <1>1
      <4>2. t.child[b][x] = c => t.parent[c] = x /\ t.parent[c] = e
        BY <1>2, <3>1, <4>1
      <4>3. QED
        BY <2>1, <4>2
    <3>3. QED
      BY <1>1, <1>2, <2>3, <3>1, <3>2
  <2>4. QED
    BY <2>2, <2>3
<1>9. ASSUME NEW x \in Elems, u.parent[x] # Nil
      PROVE  \E b \in Sides : u.child[b][u.parent[x]] = x
  <2>1. x # e
    BY <1>1, <1>9
  <2>2. CASE x = c
    <3>1. u.parent[x] = p /\ p # Nil /\ p \in Elems
      BY <1>1, <1>2, <1>9, <2>1, <2>2, ElemsAre
    <3>2. PICK b \in Sides : t.child[b][p] = e
      BY <1>2, <3>1 DEF p
    <3>3. p # e
      BY <1>2, <3>1, <3>2, OnePlace
    <3>4. u.child[b][p] = c
      BY <1>1, <3>1, <3>2, <3>3
    <3>5. QED
      BY <2>2, <3>1, <3>4
  <2>3. CASE x # c
    <3>1. u.parent[x] = t.parent[x]
      BY <1>1, <2>1, <2>3
    <3>2. t.parent[x] \in Elems
      BY <1>2, <1>9, <3>1, TreeParts, ElemsAre
    <3>3. PICK b \in Sides : t.child[b][t.parent[x]] = x
      BY <1>2, <1>9, <3>1
    <3>4. t.parent[x] # e
      BY <1>1, <2>3, <3>3, ElemsAre
    <3>5. u.child[b][t.parent[x]] = x
      BY <1>1, <2>1, <3>2, <3>3, <3>4
    <3>6. QED
      BY <3>1, <3>5
  <2>4. QED
    BY <2>2, <2>3
<1>10. u.root # Nil => u.parent[u.root] = Nil
  <2>1. CASE p = Nil
    <3>1. u.root = c
      BY <1>1, <2>1
    <3>2. QED
      BY <1>1, <2>1, <3>1, ElemsAre
  <2>2. CASE p # Nil
    <3>1. u.root = t.root /\ t.root # e /\ t.root \in Elems /\ t.parent[t.root] = Nil
      <4>1. t.root # Nil
        BY <1>2 DEF S
      <4>2. QED
        BY <1>1, <1>2, <2>2, <4>1, ElemsAre
    <3>2. t.root # c
      <4>1. PICK a \in Sides : t.child[a][e] = c
        BY <1>1
      <4>2. c # Nil => t.parent[c] = e
        BY <1>2, <4>1
      <4>3. QED
        BY <1>2, <3>1, <4>2, ElemsAre
    <3>3. QED
      BY <1>1, <3>1, <3>2
  <2>3. QED
    BY <2>1, <2>2
<1>11. s[u.root] = S \ {e}
  <2>1. CASE p = Nil
    <3>1. u.root = c /\ S = sub[e]
      BY <1>1, <1>2, <2>1 DEF S
    <3>2. s[c] = sub[c] \ {e}
      BY <1>1, <1>3
    <3>3. QED
      BY <1>1, <3>1, <3>2
  <2>2. CASE p # Nil
    BY <1>1, <1>2, <1>3, <2>2 DEF S
  <2>3. QED
    BY <2>1, <2>2
<1>12. ASSUME NEW x \in Elems, x \notin s[u.root]
       PROVE  u.parent[x] = Nil /\ \A b \in Sides : u.child[b][x] = Nil
  <2>1. CASE x = e
    BY <1>1, <2>1
  <2>2. CASE x # e
    <3>1. x \notin S
      BY <1>11, <1>12, <2>2
    <3>2. t.parent[x] = Nil /\ \A b \in Sides : t.child[b][x] = Nil
      BY <1>2, <3>1
    <3>3. x # c
      <4>1. PICK a \in Sides : t.child[a][e] = c
        BY <1>1
      <4>2. x = c => t.parent[x] = e
        BY <1>2, <4>1, ElemsAre
      <4>3. QED
        BY <1>2, <3>2, <4>2
    <3>4. QED
      BY <1>1, <1>2, <2>2, <3>2, <3>3
  <2>3. QED
    BY <2>1, <2>2
<1>13. Forest(u, s)
  BY <1>1, <1>3, <1>6, <1>7, <1>8, <1>9, <1>10, <1>12 DEF Forest
<1>14. QED
  BY <1>11, <1>13 DEF u, s, S

----------------------------------------------------------------------------
(* A red element leaves a whole tree, a black one leaves it one short.     *)
LEMMA UnlinkRemoves ==
  ASSUME NEW t, NEW sub, NEW bh, NEW S, Forest(t, sub), sub[t.root] = S, Heights(t, bh, Nil, "left"),
         Reds(t, Nil, Nil), t.red \subseteq S, t.root \notin t.red,
         NEW e \in S, \E d \in Sides : t.child[d][e] = Nil
  PROVE  /\ e \in t.red => Holds(Unlink(t, e), S \ {e})
         /\ e \notin t.red => \E d, bh2 : Removing(Unlink(t, e), TakenOut(sub, e), bh2, t.parent[e], d,
                                                   OnlyChild(t, e), S \ {e})
<1> DEFINE c == OnlyChild(t, e)
           p == t.parent[e]
           u == Unlink(t, e)
           s == TakenOut(sub, e)
           bh2 == [bh EXCEPT ![e] = 1]
<1>1. /\ u \in Trees /\ u.red = t.red \ {e}
      /\ u.root = IF p = Nil THEN c ELSE t.root
      /\ \A x \in Elems : u.parent[x] = IF x = e THEN Nil ELSE IF x = c THEN p ELSE t.parent[x]
      /\ \A b \in Sides, x \in Elems :
           u.child[b][x] = IF x = e THEN Nil ELSE IF t.child[b][x] = e THEN c ELSE t.child[b][x]
      /\ c \in Pointers /\ c # e /\ sub[e] = {e} \cup sub[c] /\ e \notin sub[c]
      /\ \E b \in Sides : t.child[b][e] = c
      /\ \A b \in Sides : t.child[b][e] # Nil => t.child[b][e] = c
  BY UnlinkIs
<1>2. Forest(u, s) /\ s[u.root] = S \ {e}
  BY UnlinkForest
<1>3. /\ t \in Trees /\ e \in Elems /\ e # Nil /\ S \subseteq Elems /\ t.red \in SUBSET Elems
      /\ bh \in [Pointers -> Nat] /\ bh[Nil] = 0
      /\ (p = Nil => e = t.root) /\ (p # Nil => p \in S /\ p \in Elems /\ e # t.root)
  BY TreeClosed, TreeParts, ElemsAre DEF Forest, Heights
<1>4. \A x \in Elems, b \in Sides : ~(x \in t.red /\ t.child[b][x] \in t.red)
  BY <1>3, ElemsAre DEF Reds
<1>5. \E d \in Sides : \A x \in Elems, b \in Sides : t.child[b][x] = e <=> x = p /\ b = d
  <2>1. CASE p = Nil
    <3>1. \A x \in Elems, b \in Sides : t.child[b][x] # e
      BY <1>3, <2>1, ElemsAre DEF Forest
    <3>2. "left" \in Sides /\ p \notin Elems
      BY <2>1, ElemsAre DEF Sides
    <3>3. QED
      BY <3>1, <3>2
  <2>2. CASE p # Nil
    <3>1. PICK d \in Sides : t.child[d][p] = e
      BY <1>3, <2>2 DEF Forest
    <3>2. \A x \in Elems, b \in Sides : t.child[b][x] = t.child[d][p] => x = p /\ b = d
      <4>1. t.child[d][p] # Nil /\ p \in Elems
        BY <1>3, <2>2, <3>1
      <4>2. QED
        BY <4>1, OnePlace
    <3>3. QED
      BY <3>1, <3>2
  <2>3. QED
    BY <2>1, <2>2
<1>6. PICK d \in Sides : \A x \in Elems, b \in Sides : t.child[b][x] = e <=> x = p /\ b = d
  BY <1>5
<1>7. bh2 \in [Pointers -> Nat] /\ bh2[e] = 1 /\ \A x \in Pointers : x # e => bh2[x] = bh[x]
  BY <1>3, ElemsAre
<1>8. p # e
  <2>1. p # Nil => t.child[d][p] = e /\ p \in Elems
    BY <1>3, <1>6
  <2>2. QED
    BY <1>3, <2>1, OnePlace
<1> HIDE DEF c, u, s, bh2, p
<1>9. bh2[Nil] = 0 /\ bh2[c] = bh[c]
  BY <1>1, <1>3, <1>7, ElemsAre
<1>10. bh[e] = bh[c] + Black(t, e) /\ bh[c] \in Nat /\ Black(t, e) \in {0, 1}
  <2>1. PICK b \in Sides : t.child[b][e] = c
    BY <1>1
  <2>2. bh[e] = bh[t.child[b][e]] + Black(t, e) + Lack(Nil, "left", e, b) /\ bh[t.child[b][e]] \in Nat
        /\ Black(t, e) \in {0, 1}
    BY <1>3, HeightsAt
  <2>3. QED
    BY <1>3, <2>1, <2>2, NoLack
<1> DEFINE q == IF e \in t.red THEN Nil ELSE p
<1>11. \A x \in Elems : x # e => Black(u, x) = Black(t, x)
  BY <1>1 DEF Black
<1>12. Black(u, e) = 1 /\ (Black(t, e) = IF e \in t.red THEN 0 ELSE 1)
  BY <1>1 DEF Black
<1>13. ASSUME NEW x \in Elems, NEW b \in Sides
       PROVE  bh2[x] = bh2[u.child[b][x]] + Black(u, x) + Lack(q, d, x, b)
  <2> DEFINE k == t.child[b][x]
  <2>1. bh[x] = bh[k] + Black(t, x) /\ bh[x] \in Nat /\ bh[k] \in Nat /\ Black(t, x) \in {0, 1}
    <3>1. bh[x] = bh[k] + Black(t, x) + Lack(Nil, "left", x, b)
          /\ bh[x] \in Nat /\ bh[k] \in Nat /\ Black(t, x) \in {0, 1}
      BY HeightsAt, <1>3
    <3>2. QED
      BY <3>1, NoLack
  <2>2. k = e <=> x = p /\ b = d
    BY <1>6
  <2>3. k \in Pointers /\ x \in Pointers
    BY <1>3, ChildIs, ElemsAre
  <2>4. u.child[b][x] = IF x = e THEN Nil ELSE IF k = e THEN c ELSE k
    BY <1>1
  <2> HIDE DEF k
  <2>5. CASE x = e
    <3>1. Lack(q, d, x, b) = 0
      BY <1>3, <1>8, <2>5 DEF Lack
    <3>2. QED
      BY <1>7, <1>9, <1>12, <2>4, <2>5, <3>1
  <2>6. CASE x # e /\ k = e
    <3>1. Lack(q, d, x, b) = IF e \in t.red THEN 0 ELSE 1
      BY <1>3, <2>2, <2>6, ElemsAre DEF Lack
    <3>2. bh2[x] = bh[x] /\ Black(u, x) = Black(t, x) /\ bh2[u.child[b][x]] = bh[c]
      BY <1>7, <1>9, <1>11, <2>3, <2>4, <2>6
    <3>3. QED
      BY <1>10, <1>12, <2>1, <2>6, <3>1, <3>2
  <2>7. CASE x # e /\ k # e
    <3>1. Lack(q, d, x, b) = 0
      BY <2>2, <2>7, ElemsAre DEF Lack
    <3>2. bh2[x] = bh[x] /\ Black(u, x) = Black(t, x) /\ bh2[u.child[b][x]] = bh[k]
      BY <1>7, <1>11, <2>3, <2>4, <2>7
    <3>3. QED
      BY <2>1, <3>1, <3>2
  <2>8. QED
    BY <2>5, <2>6, <2>7
<1>14. Heights(u, bh2, q, d)
  BY <1>7, <1>9, <1>13 DEF Heights
<1>15. ASSUME NEW x \in Elems, NEW b \in Sides, x \in u.red, u.child[b][x] \in u.red
       PROVE  u.child[b][x] = c /\ e \notin t.red
  <2>1. x # e /\ x \in t.red /\ u.child[b][x] \in t.red
    BY <1>1, <1>15
  <2>2. t.child[b][x] = e
    BY <1>1, <1>4, <2>1
  <2>3. u.child[b][x] = c
    BY <1>1, <2>1, <2>2
  <2>4. QED
    BY <1>4, <2>1, <2>2, <2>3
<1>16. u.red \subseteq S \ {e}
  BY <1>1
<1>17. ASSUME e \in t.red
       PROVE  Holds(u, S \ {e})
  <2>1. q = Nil /\ p # Nil /\ u.root \notin u.red
    BY <1>1, <1>3, <1>17
  <2>2. Heights(u, bh2, Nil, d)
    BY <1>14, <2>1
  <2>3. Heights(u, bh2, Nil, "left")
    BY <2>2, NoLack DEF Heights, Sides
  <2>4. Reds(u, Nil, Nil)
    BY <1>15, <1>17 DEF Reds
  <2>5. QED
    BY <1>2, <1>16, <2>1, <2>3, <2>4 DEF Holds
<1>18. ASSUME e \notin t.red
       PROVE  Removing(u, s, bh2, p, d, c, S \ {e})
  <2>1. Heights(u, bh2, p, d)
    BY <1>14, <1>18
  <2>2. Reds(u, c, c)
    BY <1>15 DEF Reds
  <2>3. u.root \in u.red => u.root = c
    BY <1>1
  <2>4. IF p = Nil THEN c = u.root ELSE p \in S \ {e} /\ u.child[d][p] = c
    <3>1. p # Nil => t.child[d][p] = e
      BY <1>3, <1>6
    <3>2. QED
      BY <1>1, <1>3, <1>8, <3>1
  <2>5. QED
    BY <1>2, <1>16, <2>1, <2>2, <2>3, <2>4 DEF Removing
<1>19. QED
  BY <1>17, <1>18 DEF u, s, c, p

----------------------------------------------------------------------------
(* A tree with its elements renamed by g, which undoes itself.             *)
Renames(g) ==
  g \in [Pointers -> Pointers] /\ g[Nil] = Nil /\ \A x \in Elems : g[x] \in Elems /\ g[g[x]] = x

Image(t, u, g) ==
  /\ u \in Trees /\ u.root = g[t.root]
  /\ \A x \in Elems : u.parent[x] = g[t.parent[g[x]]]
  /\ \A b \in Sides, x \in Elems : u.child[b][x] = g[t.child[b][g[x]]]
  /\ \A x \in Elems : x \in u.red <=> g[x] \in t.red

KeepsOrder(g, S) == \A b \in Sides, x, y \in S : Before(b, x, y) => Before(b, g[x], g[y])

Renamed(g, S) == {z \in Elems : g[z] \in S}

Imaged(sub, g) == [x \in Pointers |-> Renamed(g, sub[g[x]])]

LEMMA RenamesIs ==
  ASSUME NEW g, Renames(g)
  PROVE  /\ \A x \in Pointers : g[x] \in Pointers /\ g[g[x]] = x /\ (g[x] = Nil <=> x = Nil)
         /\ \A x \in Elems : g[x] \in Elems
BY ElemsAre DEF Renames

LEMMA ImageForest ==
  ASSUME NEW t, NEW sub, Forest(t, sub), NEW g, Renames(g), NEW u, Image(t, u, g),
         KeepsOrder(g, sub[t.root])
  PROVE  Forest(u, Imaged(sub, g)) /\ Imaged(sub, g)[u.root] = Renamed(g, sub[t.root])
<1> DEFINE s == Imaged(sub, g)
           S == sub[t.root]
<1>1. /\ \A x \in Pointers : g[x] \in Pointers /\ g[g[x]] = x /\ (g[x] = Nil <=> x = Nil)
      /\ \A x \in Elems : g[x] \in Elems
  BY RenamesIs
<1>2. /\ u \in Trees /\ u.root = g[t.root]
      /\ \A x \in Elems : u.parent[x] = g[t.parent[g[x]]]
      /\ \A b \in Sides, x \in Elems : u.child[b][x] = g[t.child[b][g[x]]]
  BY DEF Image
<1>3. /\ t \in Trees /\ sub \in [Pointers -> SUBSET Elems] /\ sub[Nil] = {} /\ t.root \in Pointers
      /\ \A x \in Elems : t.parent[x] \in Pointers
      /\ \A x \in Elems, b \in Sides : t.child[b][x] \in Pointers
  BY TreeParts DEF Forest
<1>4. Elems \subseteq Pointers /\ Nil \in Pointers /\ Nil \notin Elems /\ \A x \in Pointers : x # Nil => x \in Elems
  BY ElemsAre
<1>5. \A x \in Pointers : s[x] = {z \in Elems : g[z] \in sub[g[x]]}
  BY DEF Imaged, Renamed
<1>6. s \in [Pointers -> SUBSET Elems]
  BY DEF Imaged, Renamed
<1>7. s[Nil] = {}
  BY <1>1, <1>3, <1>4, <1>5
<1> HIDE DEF s, S
<1>8. \A x \in Elems, b \in Sides : s[u.child[b][x]] = {z \in Elems : g[z] \in sub[t.child[b][g[x]]]}
  BY <1>1, <1>2, <1>3, <1>5
<1>9. s[u.root] = Renamed(g, S)
  BY <1>1, <1>2, <1>3, <1>5 DEF S, Renamed
<1>10. ASSUME NEW x \in Elems, NEW z \in Elems
       PROVE  z \in s[x] <=> z = x \/ \E b \in Sides : z \in s[u.child[b][x]]
  <2>1. z \in s[x] <=> g[z] \in sub[g[x]]
    BY <1>4, <1>5
  <2>2. g[z] \in Elems /\ g[x] \in Elems /\ (g[z] = g[x] <=> z = x)
    BY <1>1, <1>4
  <2>3. g[z] \in sub[g[x]] <=> g[z] = g[x] \/ \E b \in Sides : g[z] \in sub[t.child[b][g[x]]]
    BY <2>2 DEF Forest
  <2>4. \A b \in Sides : z \in s[u.child[b][x]] <=> g[z] \in sub[t.child[b][g[x]]]
    BY <1>8
  <2>5. QED
    BY <2>1, <2>2, <2>3, <2>4
<1>11. ASSUME NEW x \in Elems, NEW b \in Sides, NEW z \in s[u.child[b][x]]
       PROVE  Before(b, z, x)
  <2>1. z \in Elems /\ g[z] \in sub[t.child[b][g[x]]] /\ g[x] \in Elems /\ g[z] \in Elems
    BY <1>1, <1>8, <1>11
  <2>2. Before(b, g[z], g[x])
    BY <2>1 DEF Forest
  <2>3. g[x] \in S
    <3>1. t.child[b][g[x]] # Nil
      BY <1>3, <2>1
    <3>2. QED
      BY <2>1, <3>1 DEF S, Forest
  <2>4. g[z] \in S
    <3>1. sub[t.child[b][g[x]]] \subseteq sub[g[x]] /\ sub[g[x]] \subseteq S
      BY <2>1, <2>3, ChildIs, TreeClosed DEF S
    <3>2. QED
      BY <2>1, <3>1
  <2>5. Before(b, g[g[z]], g[g[x]])
    BY <2>2, <2>3, <2>4 DEF KeepsOrder, S
  <2>6. QED
    BY <1>1, <1>4, <2>1, <2>5
<1>12. ASSUME NEW x \in Elems, NEW b \in Sides, u.child[b][x] # Nil
       PROVE  u.parent[u.child[b][x]] = x
  <2> DEFINE c == t.child[b][g[x]]
  <2>1. g[x] \in Elems /\ c \in Pointers /\ u.child[b][x] = g[c]
    BY <1>1, <1>2, <1>3
  <2>2. c # Nil
    BY <1>1, <1>4, <1>12, <2>1
  <2>3. c \in Elems /\ t.parent[c] = g[x]
    BY <1>4, <2>1, <2>2 DEF Forest
  <2> HIDE DEF c
  <2>4. g[c] \in Elems /\ g[g[c]] = c
    BY <1>1, <1>4, <2>3
  <2>5. u.parent[g[c]] = g[t.parent[g[g[c]]]]
    BY <1>2, <2>4
  <2>6. u.parent[g[c]] = x
    BY <1>1, <1>4, <2>3, <2>4, <2>5
  <2>7. QED
    BY <2>1, <2>6
<1>13. ASSUME NEW x \in Elems, u.parent[x] # Nil
       PROVE  \E b \in Sides : u.child[b][u.parent[x]] = x
  <2> DEFINE y == t.parent[g[x]]
  <2>1. g[x] \in Elems /\ y \in Pointers /\ u.parent[x] = g[y]
    BY <1>1, <1>2, <1>3
  <2>2. y # Nil
    BY <1>1, <1>4, <1>13, <2>1
  <2>3. PICK b \in Sides : t.child[b][y] = g[x]
    BY <2>1, <2>2 DEF Forest
  <2>4. y \in Elems
    BY <1>4, <2>1, <2>2
  <2> HIDE DEF y
  <2>5. g[y] \in Elems /\ g[g[y]] = y
    BY <1>1, <1>4, <2>4
  <2>6. u.child[b][g[y]] = g[t.child[b][g[g[y]]]]
    BY <1>2, <2>5
  <2>7. u.child[b][g[y]] = x
    BY <1>1, <1>4, <2>3, <2>5, <2>6
  <2>8. QED
    BY <2>1, <2>7
<1>14. u.root # Nil => u.parent[u.root] = Nil
  <2>1. SUFFICES ASSUME u.root # Nil
                 PROVE  u.parent[u.root] = Nil
    OBVIOUS
  <2>2. t.root \in Elems /\ t.parent[t.root] = Nil
    BY <1>1, <1>2, <1>3, <1>4, <2>1 DEF Forest
  <2>3. u.root \in Elems /\ g[u.root] = t.root
    BY <1>1, <1>2, <1>4, <2>2
  <2>4. u.parent[u.root] = g[Nil]
    BY <1>2, <2>2, <2>3
  <2>5. QED
    BY <1>1, <1>4, <2>4
<1>15. ASSUME NEW x \in Elems, x \notin s[u.root]
       PROVE  u.parent[x] = Nil /\ \A b \in Sides : u.child[b][x] = Nil
  <2>1. g[x] \in Elems /\ g[x] \notin S /\ g[Nil] = Nil
    BY <1>1, <1>4, <1>9, <1>15 DEF Renamed
  <2>2. t.parent[g[x]] = Nil /\ \A b \in Sides : t.child[b][g[x]] = Nil
    BY <2>1 DEF S, Forest
  <2>3. QED
    BY <1>2, <2>1, <2>2
<1>16. Forest(u, s)
  BY <1>2, <1>6, <1>7, <1>10, <1>11, <1>12, <1>13, <1>14, <1>15 DEF Forest
<1>17. QED
  BY <1>9, <1>16 DEF s, S

LEMMA ImageColors ==
  ASSUME NEW t, NEW sub, Forest(t, sub), NEW g, Renames(g), NEW u, Image(t, u, g),
         NEW bh, NEW p \in Pointers, NEW d \in Sides, Heights(t, bh, p, d),
         NEW c \in Pointers, Reds(t, c, c), NEW S, t.red \subseteq S
  PROVE  /\ Heights(u, [x \in Pointers |-> bh[g[x]]], g[p], d)
         /\ Reds(u, g[c], g[c]) /\ u.red \subseteq Renamed(g, S)
<1> DEFINE bh2 == [x \in Pointers |-> bh[g[x]]]
<1>1. /\ \A x \in Pointers : g[x] \in Pointers /\ g[g[x]] = x /\ (g[x] = Nil <=> x = Nil)
      /\ \A x \in Elems : g[x] \in Elems
  BY RenamesIs
<1>2. /\ u \in Trees /\ u.red \in SUBSET Elems
      /\ \A b \in Sides, x \in Elems : u.child[b][x] = g[t.child[b][g[x]]]
      /\ \A x \in Elems : x \in u.red <=> g[x] \in t.red
  BY TreeParts DEF Image
<1>3. /\ t \in Trees /\ t.red \in SUBSET Elems /\ bh \in [Pointers -> Nat] /\ bh[Nil] = 0
      /\ \A x \in Elems, b \in Sides : t.child[b][x] \in Pointers
  BY TreeParts DEF Forest, Heights
<1>4. Elems \subseteq Pointers /\ Nil \in Pointers /\ Nil \notin Elems
  BY ElemsAre
<1>5. bh2 \in [Pointers -> Nat] /\ bh2[Nil] = 0 /\ \A x \in Pointers : bh2[x] = bh[g[x]]
  BY <1>1, <1>3, <1>4
<1> HIDE DEF bh2
<1>6. ASSUME NEW x \in Elems, NEW b \in Sides
      PROVE  bh2[x] = bh2[u.child[b][x]] + Black(u, x) + Lack(g[p], d, x, b)
  <2>1. g[x] \in Elems /\ x \in Pointers /\ t.child[b][g[x]] \in Pointers
    BY <1>1, <1>3, <1>4
  <2>2. bh[g[x]] = bh[t.child[b][g[x]]] + Black(t, g[x]) + Lack(p, d, g[x], b)
    BY <1>3, <2>1, HeightsAt
  <2>3. bh2[x] = bh[g[x]]
    BY <1>5, <2>1
  <2>4. bh2[u.child[b][x]] = bh[t.child[b][g[x]]]
    BY <1>1, <1>2, <1>5, <2>1
  <2>5. Black(u, x) = Black(t, g[x])
    BY <1>2 DEF Black
  <2>6. g[x] = p <=> x = g[p]
    BY <1>1, <2>1
  <2>7. Lack(g[p], d, x, b) = Lack(p, d, g[x], b)
    BY <2>6 DEF Lack
  <2>8. QED
    BY <2>2, <2>3, <2>4, <2>5, <2>7
<1>7. Reds(u, g[c], g[c])
  <2>1. SUFFICES ASSUME NEW x \in Elems, NEW b \in Sides, x \in u.red, u.child[b][x] \in u.red
                 PROVE  x = g[c] \/ u.child[b][x] = g[c]
    BY DEF Reds
  <2>2. g[x] \in Elems /\ x \in Pointers /\ t.child[b][g[x]] \in Pointers /\ u.child[b][x] = g[t.child[b][g[x]]]
    BY <1>1, <1>2, <1>3, <1>4
  <2>3. g[x] \in t.red /\ t.child[b][g[x]] \in t.red
    BY <1>1, <1>2, <2>1, <2>2
  <2>4. g[x] = c \/ t.child[b][g[x]] = c
    BY <2>2, <2>3 DEF Reds
  <2>5. QED
    BY <1>1, <2>2, <2>4
<1>8. u.red \subseteq Renamed(g, S)
  BY <1>2 DEF Renamed
<1>9. QED
  BY <1>5, <1>6, <1>7, <1>8 DEF Heights, bh2

(* e takes the place of old. *)
Swap(e, old) == [x \in Pointers |-> IF x = e THEN old ELSE IF x = old THEN e ELSE x]

LEMMA SwapRenames ==
  ASSUME NEW e \in Elems, NEW old \in Elems
  PROVE  /\ Renames(Swap(e, old)) /\ Swap(e, old)[e] = old /\ Swap(e, old)[old] = e
         /\ \A x \in Pointers : x # e /\ x # old => Swap(e, old)[x] = x
BY ElemsAre DEF Renames, Swap

LEMMA TakePlaceIs ==
  ASSUME NEW t, NEW sub, Forest(t, sub), t.red \subseteq sub[t.root],
         NEW old \in sub[t.root], NEW e \in Elems, e \notin sub[t.root]
  PROVE  Image(t, TakePlace(t, e, old), Swap(e, old))
<1> DEFINE S == sub[t.root]
           p == t.parent[old]
           l == t.child["left"][old]
           r == t.child["right"][old]
           s == [root |-> t.root,
                 child |-> [d \in Sides |-> [t.child[d] EXCEPT ![e] = t.child[d][old], ![old] = Nil]],
                 parent |-> [t.parent EXCEPT ![e] = t.parent[old], ![old] = Nil],
                 red |-> IF old \in t.red THEN (t.red \ {old}) \cup {e} ELSE t.red]
           u1 == Replace(s, p, old, e)
           u2 == SetParent(u1, l, e)
           u3 == SetParent(u2, r, e)
           g == Swap(e, old)
<1>1. TakePlace(t, e, old) = u3
  BY DEF TakePlace
<1>2. /\ t \in Trees /\ old \in Elems /\ p \in Pointers /\ l \in Pointers /\ r \in Pointers
      /\ t.root \in Pointers /\ t.red \in SUBSET Elems /\ S \subseteq Elems /\ e # old
      /\ \A x \in Elems, b \in Sides : t.child[b][x] \in Pointers
      /\ \A x \in Elems : t.parent[x] \in Pointers
      /\ (p = Nil <=> t.root = old) /\ t.root # e
  <2>1. t \in Trees /\ old \in Elems /\ t.root \in Elems
    BY TreeClosed DEF Forest
  <2>2. t.root \in sub[t.root]
    BY <2>1, ChildIs, SidesAre DEF Sides
  <2>3. (p = Nil <=> t.root = old) /\ S \subseteq Elems
    BY <2>1, <2>2, TreeClosed, ElemsAre DEF Forest
  <2>4. \A x \in Elems : t.parent[x] \in Pointers /\ \A b \in Sides : t.child[b][x] \in Pointers
    BY <2>1, TreeParts
  <2>5. QED
    BY <2>1, <2>2, <2>3, <2>4, TreeParts DEF Sides
<1>3. Nil \in Pointers /\ Nil \notin Elems /\ Elems \subseteq Pointers /\ e # Nil /\ old # Nil
      /\ \A x \in Pointers : x # Nil => x \in Elems
  BY <1>2, ElemsAre
<1>4. \A x \in Elems, b \in Sides : t.child[b][x] # e /\ t.child[b][e] = Nil
  <2>1. SUFFICES ASSUME NEW x \in Elems, NEW b \in Sides
                 PROVE  t.child[b][x] # e /\ t.child[b][e] = Nil
    OBVIOUS
  <2>2. t.child[b][e] = Nil
    BY DEF Forest
  <2>3. x \in S => (t.child[b][x] # Nil => t.child[b][x] \in S)
    BY TreeClosed
  <2>4. x \notin S => t.child[b][x] = Nil
    BY DEF Forest
  <2>5. QED
    BY <1>3, <2>2, <2>3, <2>4
<1>5. t.parent[e] = Nil /\ p # e /\ p # old
      /\ \A x \in Elems : t.parent[x] # e
  <2>1. t.parent[e] = Nil
    BY DEF Forest
  <2>2. \A x \in Elems : t.parent[x] # Nil => \E b \in Sides : t.child[b][t.parent[x]] = x
    BY DEF Forest
  <2>3. \A x \in Elems : t.parent[x] # e
    BY <1>3, <1>4, <2>2
  <2>4. p # old
    <3>1. SUFFICES ASSUME p = old
                   PROVE  FALSE
      OBVIOUS
    <3>2. PICK b \in Sides : t.child[b][old] = old
      BY <1>2, <1>3, <2>2, <3>1
    <3>3. QED
      BY <1>2, <1>3, <3>2, OnePlace
  <2>5. QED
    BY <1>2, <2>1, <2>3, <2>4
<1>6. \A b \in Sides : t.child[b][old] # old
  BY <1>2, <1>3, OnePlace
<1>7. \A x \in Elems : t.parent[x] = old <=> x = l \/ x = r
  <2>1. \A x \in Elems : t.parent[x] = old => \E b \in Sides : t.child[b][old] = x
    BY <1>3 DEF Forest
  <2>2. \A b \in Sides : t.child[b][old] # Nil => t.parent[t.child[b][old]] = old
    BY <1>2 DEF Forest
  <2>3. \A x \in Elems : x # Nil
    BY <1>3
  <2>4. QED
    BY <2>1, <2>2, <2>3 DEF Sides
<1>8. /\ s \in Trees /\ s.root = t.root
      /\ \A x \in Elems : x \in s.red <=> IF x = e THEN old \in t.red ELSE x # old /\ x \in t.red
      /\ \A x \in Elems : s.parent[x] = IF x = old THEN Nil ELSE IF x = e THEN p ELSE t.parent[x]
      /\ \A b \in Sides, x \in Elems :
           s.child[b][x] = IF x = old THEN Nil ELSE IF x = e THEN t.child[b][old] ELSE t.child[b][x]
  <2>1. t.parent \in [Elems -> Pointers] /\ \A b \in Sides : t.child[b] \in [Elems -> Pointers]
    BY <1>2 DEF Trees
  <2> DEFINE par == [t.parent EXCEPT ![e] = t.parent[old], ![old] = Nil]
             kid == [d \in Sides |-> [t.child[d] EXCEPT ![e] = t.child[d][old], ![old] = Nil]]
             new == IF old \in t.red THEN (t.red \ {old}) \cup {e} ELSE t.red
  <2>2. par \in [Elems -> Pointers]
        /\ \A x \in Elems : par[x] = IF x = old THEN Nil ELSE IF x = e THEN p ELSE t.parent[x]
    BY <1>2, <1>3, <2>1
  <2>3. kid \in [Sides -> [Elems -> Pointers]]
        /\ \A b \in Sides, x \in Elems :
             kid[b][x] = IF x = old THEN Nil ELSE IF x = e THEN t.child[b][old] ELSE t.child[b][x]
    BY <1>2, <1>3, <2>1
  <2>4. new \in SUBSET Elems /\ \A x \in Elems : x \in new <=> IF x = e THEN old \in t.red ELSE x # old /\ x \in t.red
    <3>1. e \notin t.red
      OBVIOUS
    <3>2. QED
      BY <1>2, <3>1
  <2>5. s = [root |-> t.root, child |-> kid, parent |-> par, red |-> new]
    OBVIOUS
  <2> HIDE DEF s, par, kid, new
  <2>6. QED
    BY <1>2, <2>2, <2>3, <2>4, <2>5 DEF Trees
<1> HIDE DEF s, p, l, r, S
<1>9. /\ u1 \in Trees /\ u1.red = s.red /\ u1.parent = s.parent
      /\ u1.root = IF p = Nil THEN e ELSE s.root
      /\ \A b \in Sides, x \in Elems :
           u1.child[b][x] = IF x = p /\ b = Side(s, p, old) THEN e ELSE s.child[b][x]
  BY <1>2, <1>3, <1>8, ReplaceIs
<1> HIDE DEF u1
<1>10. /\ u2 \in Trees /\ u2.root = u1.root /\ u2.red = u1.red /\ u2.child = u1.child
       /\ \A x \in Elems : u2.parent[x] = IF x = l THEN e ELSE u1.parent[x]
  <2>1. u1 \in Trees /\ l \in Pointers /\ e \in Pointers
    BY <1>2, <1>3, <1>9
  <2>2. QED
    BY <2>1, SetParentIs
<1> HIDE DEF u2
<1>11. /\ u3 \in Trees /\ u3.root = u2.root /\ u3.red = u2.red /\ u3.child = u2.child
       /\ \A x \in Elems : u3.parent[x] = IF x = r THEN e ELSE u2.parent[x]
  <2>1. u2 \in Trees /\ r \in Pointers /\ e \in Pointers
    BY <1>2, <1>3, <1>10
  <2>2. QED
    BY <2>1, SetParentIs
<1> HIDE DEF u3
<1>12. \A b \in Sides, x \in Elems : x = p /\ b = Side(s, p, old) <=> t.child[b][x] = old
  <2>1. \A b \in Sides, x \in Elems : t.child[b][x] = old => x = p
    BY <1>3 DEF p, Forest
  <2>2. p \in Elems => Side(s, p, old) = Side(t, p, old)
    BY <1>5, <1>8 DEF Side, Sides
  <2>3. p # Nil => t.child[Side(t, p, old)][p] = old /\ Side(t, p, old) \in Sides /\ p \in Elems
    BY <1>2, SideIs DEF p
  <2>4. \A b \in Sides, x \in Elems : t.child[b][x] = old => Side(t, x, old) = b
    BY <1>3, SideOf
  <2>5. QED
    BY <1>3, <2>1, <2>2, <2>3, <2>4
<1>13. g[e] = old /\ g[old] = e /\ (\A x \in Pointers : x # e /\ x # old => g[x] = x) /\ g[Nil] = Nil
  BY <1>2, <1>3, SwapRenames DEF Renames
<1> HIDE DEF g
<1>14. ASSUME NEW b \in Sides, NEW x \in Elems
       PROVE  u3.child[b][x] = g[t.child[b][g[x]]]
  <2>1. u3.child[b][x] = IF t.child[b][x] = old THEN e ELSE s.child[b][x]
    BY <1>9, <1>10, <1>11, <1>12
  <2>2. CASE x = e
    BY <1>2, <1>3, <1>4, <1>6, <1>8, <1>13, <2>1, <2>2
  <2>3. CASE x = old
    BY <1>2, <1>3, <1>4, <1>6, <1>8, <1>13, <2>1, <2>3
  <2>4. CASE x # e /\ x # old
    <3>1. g[x] = x /\ t.child[b][x] \in Pointers /\ t.child[b][x] # e /\ s.child[b][x] = t.child[b][x]
      BY <1>2, <1>3, <1>4, <1>8, <1>13, <2>4
    <3>2. QED
      BY <1>13, <2>1, <3>1
  <2>5. QED
    BY <2>2, <2>3, <2>4
<1>15. ASSUME NEW x \in Elems
       PROVE  u3.parent[x] = g[t.parent[g[x]]]
  <2>1. u3.parent[x] = IF t.parent[x] = old THEN e ELSE s.parent[x]
    BY <1>7, <1>9, <1>10, <1>11
  <2>2. CASE x = e
    <3>1. u3.parent[x] = p
      BY <1>2, <1>3, <1>5, <1>8, <2>1, <2>2
    <3>2. g[p] = p
      BY <1>2, <1>5, <1>13
    <3>3. QED
      BY <1>13, <2>2, <3>1, <3>2 DEF p
  <2>3. CASE x = old
    <3>1. u3.parent[x] = Nil
      BY <1>5, <1>8, <2>1, <2>3 DEF p
    <3>2. QED
      BY <1>5, <1>13, <2>3, <3>1
  <2>4. CASE x # e /\ x # old
    <3>1. g[x] = x /\ t.parent[x] \in Pointers /\ t.parent[x] # e /\ s.parent[x] = t.parent[x]
      BY <1>2, <1>3, <1>5, <1>8, <1>13, <2>4
    <3>2. QED
      BY <1>13, <2>1, <3>1
  <2>5. QED
    BY <2>2, <2>3, <2>4
<1>16. u3.root = g[t.root]
  BY <1>2, <1>8, <1>9, <1>10, <1>11, <1>13
<1>17. \A x \in Elems : x \in u3.red <=> g[x] \in t.red
  <2>1. e \notin t.red
    OBVIOUS
  <2>2. \A x \in Elems : x # e /\ x # old => g[x] = x
    BY <1>3, <1>13
  <2>3. QED
    BY <1>2, <1>8, <1>9, <1>10, <1>11, <1>13, <2>1, <2>2
<1>18. Image(t, u3, g)
  BY <1>11, <1>14, <1>15, <1>16, <1>17 DEF Image
<1>19. QED
  BY <1>1, <1>18 DEF g

----------------------------------------------------------------------------
LEMMA ImageHolds ==
  ASSUME NEW t, NEW S, Holds(t, S), NEW g, Renames(g), NEW u, Image(t, u, g), KeepsOrder(g, S)
  PROVE  Holds(u, Renamed(g, S))
<1>1. PICK sub, bh : /\ Forest(t, sub) /\ sub[t.root] = S /\ Heights(t, bh, Nil, "left")
                     /\ Reds(t, Nil, Nil) /\ t.red \subseteq S /\ t.root \notin t.red
  BY DEF Holds
<1>2. Forest(u, Imaged(sub, g)) /\ Imaged(sub, g)[u.root] = Renamed(g, S)
  BY <1>1, ImageForest
<1>3. Nil \in Pointers /\ "left" \in Sides /\ g[Nil] = Nil
  BY ElemsAre DEF Sides, Renames
<1> DEFINE bh2 == [x \in Pointers |-> bh[g[x]]]
<1>4. Heights(u, bh2, g[Nil], "left") /\ Reds(u, g[Nil], g[Nil]) /\ u.red \subseteq Renamed(g, S)
  BY <1>1, <1>3, ImageColors, SMTT(30)
<1> HIDE DEF bh2
<1>5. u.root \notin u.red
  <2>1. u.red \in SUBSET Elems /\ t.root \in Pointers
    BY <1>1, TreeParts DEF Image, Forest
  <2>2. g[u.root] = t.root
    BY <2>1, RenamesIs DEF Image
  <2>3. QED
    BY <1>1, <2>1, <2>2 DEF Image
<1>6. QED
  BY <1>2, <1>3, <1>4, <1>5 DEF Holds

LEMMA ImageRemoving ==
  ASSUME NEW t, NEW sub, NEW bh, NEW p \in Pointers, NEW d, NEW e, NEW S,
         Removing(t, sub, bh, p, d, e, S), NEW g, Renames(g), NEW u, Image(t, u, g), KeepsOrder(g, S)
  PROVE  Removing(u, Imaged(sub, g), [x \in Pointers |-> bh[g[x]]], g[p], d, g[e], Renamed(g, S))
<1> DEFINE bh2 == [x \in Pointers |-> bh[g[x]]]
<1>1. /\ Forest(t, sub) /\ sub[t.root] = S /\ t.red \subseteq S
      /\ d \in Sides /\ Heights(t, bh, p, d) /\ Reds(t, e, e)
      /\ t.root \in t.red => t.root = e
  BY DEF Removing
<1>2. IF p = Nil THEN e = t.root ELSE p \in S /\ t.child[d][p] = e
  BY DEF Removing
<1>3. /\ u.red \in SUBSET Elems /\ t.root \in Pointers /\ S \subseteq Elems
      /\ u.root = g[t.root]
      /\ \A b \in Sides, x \in Elems : u.child[b][x] = g[t.child[b][g[x]]]
      /\ \A x \in Elems : x \in u.red <=> g[x] \in t.red
      /\ \A x \in Elems, b \in Sides : t.child[b][x] \in Pointers
  <2>1. t.root \in Pointers /\ u.red \in SUBSET Elems
        /\ \A x \in Elems, b \in Sides : t.child[b][x] \in Pointers
    BY <1>1, TreeParts DEF Image, Forest
  <2>2. S \subseteq Elems
    BY <1>1, <2>1 DEF Forest
  <2>3. QED
    BY <2>1, <2>2 DEF Image
<1>4. /\ \A x \in Pointers : g[x] \in Pointers /\ g[g[x]] = x /\ (g[x] = Nil <=> x = Nil)
      /\ \A x \in Elems : g[x] \in Elems
  BY RenamesIs
<1>5. Elems \subseteq Pointers /\ Nil \in Pointers /\ Nil \notin Elems
      /\ \A x \in Pointers : x # Nil => x \in Elems
  BY ElemsAre
<1>6. e \in Pointers
  BY <1>1, <1>2, <1>3, <1>5
<1>7. Forest(u, Imaged(sub, g)) /\ Imaged(sub, g)[u.root] = Renamed(g, S)
  BY <1>1, ImageForest
<1>8. Heights(u, bh2, g[p], d) /\ Reds(u, g[e], g[e]) /\ u.red \subseteq Renamed(g, S)
  BY <1>1, <1>6, ImageColors, SMTT(30)
<1> HIDE DEF bh2
<1>9. u.root \in u.red => u.root = g[e]
  BY <1>1, <1>3, <1>4
<1>10. CASE p = Nil
  <2>1. g[p] = Nil /\ g[e] = u.root
    BY <1>2, <1>3, <1>4, <1>5, <1>10
  <2>2. QED
    BY <1>1, <1>7, <1>8, <1>9, <2>1 DEF Removing, bh2
<1>11. CASE p # Nil
  <2>1. g[p] # Nil /\ g[p] \in Elems /\ g[g[p]] = p /\ p \in S /\ t.child[d][p] = e
    BY <1>2, <1>4, <1>5, <1>11
  <2>2. g[p] \in Renamed(g, S)
    BY <2>1 DEF Renamed
  <2>3. u.child[d][g[p]] = g[e]
    BY <1>1, <1>3, <2>1
  <2>4. QED
    BY <1>1, <1>7, <1>8, <1>9, <2>1, <2>2, <2>3 DEF Removing, bh2
<1>12. QED
  BY <1>10, <1>11

(* The next element in order of one with a right child. *)
LEMMA SuccessorIs ==
  ASSUME NEW t, NEW sub, Forest(t, sub), NEW old \in sub[t.root], t.child["right"][old] # Nil
  PROVE  LET e == Extreme(t, t.child["right"][old], "left")
             S == sub[t.root]
         IN /\ e \in S /\ e # old /\ t.child["left"][e] = Nil /\ old \notin sub[e]
            /\ KeepsOrder(Swap(e, old), S \ {e}) /\ Renamed(Swap(e, old), S \ {e}) = S \ {old}
<1> DEFINE r == t.child["right"][old]
           e == Extreme(t, r, "left")
           S == sub[t.root]
           g == Swap(e, old)
<1>1. old \in Elems /\ sub[old] \subseteq S /\ S \subseteq Elems /\ "left" \in Sides /\ "right" \in Sides
      /\ t.root \in Elems
  <2>1. old \in Elems /\ t.root \in Elems /\ sub[old] \subseteq S
    BY TreeClosed
  <2>2. QED
    BY <2>1, ChildIs DEF Sides
<1>2. r \in Elems /\ r \in sub[old] /\ old \notin sub[r] /\ sub[r] \subseteq sub[old]
  BY <1>1, OnePlace, ChildIs
<1> HIDE DEF r
<1>3. e \in sub[r] /\ t.child["left"][e] = Nil /\ e \in Elems
      /\ \A z \in sub[r] : z # e => Before("right", z, e)
  <2>1. e \in Elems /\ e \in sub[r] /\ t.child["left"][e] = Nil
        /\ \A z \in sub[r] : z # e => Before(Other("left"), z, e)
    BY <1>1, <1>2, ExtremeIs
  <2>2. QED
    BY <2>1 DEF Other
<1> HIDE DEF e
<1>4. e \in S /\ e # old /\ e \in sub[old] /\ Before("right", e, old)
  <2>1. Before("right", e, old)
    BY <1>1, <1>3 DEF Forest, r
  <2>2. QED
    BY <1>1, <1>2, <1>3, <2>1
<1>5. old \notin sub[e]
  BY <1>2, <1>3, BelowBelow
<1>6. old \in Nat /\ e \in Nat /\ old < e /\ \A x \in S : x \in Nat
  BY <1>1, <1>3, <1>4, RbAssumption DEF Before
<1>7. ASSUME NEW x \in S, x # e, x # old
      PROVE  (x < old <=> x < e) /\ (old < x <=> e < x)
  <2>1. ~(old < x /\ x < e)
    <3>1. SUFFICES ASSUME old < x, x < e
                   PROVE  FALSE
      OBVIOUS
    <3>2. old \in sub[old] /\ Before("left", old, x) /\ Before("left", x, e)
      BY <1>1, <3>1, ChildIs DEF Before
    <3>3. x \in sub[old]
      BY <1>1, <1>4, <3>2, BelowIsConvex
    <3>4. x \in sub[t.child["left"][old]] \/ x \in sub[r]
      BY <1>1, <1>7, <3>3, ChildIs DEF Other, r
    <3>5. x \in sub[t.child["left"][old]] => Before("left", x, old)
      BY <1>1, <3>3 DEF Forest
    <3>6. x \in sub[r] => Before("right", x, e)
      BY <1>3, <1>7
    <3>7. QED
      BY <1>6, <3>1, <3>4, <3>5, <3>6 DEF Before
  <2>2. QED
    BY <1>6, <1>7, <2>1
<1>8. /\ g[e] = old /\ g[old] = e /\ \A x \in Elems : x # e /\ x # old => g[x] = x
  <2>1. Elems \subseteq Pointers
    BY ElemsAre
  <2>2. QED
    BY <1>1, <1>3, <2>1, SwapRenames
<1> HIDE DEF S, g
<1>9. KeepsOrder(g, S \ {e})
  <2>1. SUFFICES ASSUME NEW b \in Sides, NEW x \in S \ {e}, NEW y \in S \ {e}, Before(b, x, y)
                 PROVE  Before(b, g[x], g[y])
    BY DEF KeepsOrder
  <2>2. x \in Nat /\ y \in Nat /\ x \in Elems /\ y \in Elems
    BY <1>1, <1>6
  <2>3. CASE x = old /\ y = old
    BY <1>6, <2>1, <2>3 DEF Before
  <2>4. CASE x = old /\ y # old
    <3>1. g[x] = e /\ g[y] = y /\ (y < old <=> y < e) /\ (old < y <=> e < y)
      BY <1>7, <1>8, <2>2, <2>4
    <3>2. QED
      BY <2>1, <2>4, <3>1 DEF Before
  <2>5. CASE x # old /\ y = old
    <3>1. g[y] = e /\ g[x] = x /\ (x < old <=> x < e) /\ (old < x <=> e < x)
      BY <1>7, <1>8, <2>2, <2>5
    <3>2. QED
      BY <2>1, <2>5, <3>1 DEF Before
  <2>6. CASE x # old /\ y # old
    BY <1>8, <2>1, <2>2, <2>6
  <2>7. QED
    BY <2>3, <2>4, <2>5, <2>6
<1>10. Renamed(g, S \ {e}) = S \ {old}
  <2>1. ASSUME NEW z \in Elems
        PROVE  g[z] \in S \ {e} <=> z \in S \ {old}
    <3>1. old \in S
      BY DEF S
    <3>2. QED
      BY <1>4, <1>8, <3>1
  <2>2. QED
    BY <1>1, <2>1 DEF Renamed
<1>11. QED
  BY <1>3, <1>4, <1>5, <1>9, <1>10 DEF e, r, S, g

(* RB_REMOVE *)
LEMMA RemoveHolds ==
  ASSUME NEW t, NEW S, Holds(t, S), NEW old \in S
  PROVE  Holds(RbRemove(t, old), S \ {old})
<1>1. PICK sub, bh : /\ Forest(t, sub) /\ sub[t.root] = S /\ Heights(t, bh, Nil, "left")
                     /\ Reds(t, Nil, Nil) /\ t.red \subseteq S /\ t.root \notin t.red
  BY DEF Holds
<1>2. CASE \E d \in Sides : t.child[d][old] = Nil
  <2>1. RbRemove(t, old) = IF old \in t.red THEN Unlink(t, old)
                           ELSE RemoveColor(Unlink(t, old), t.parent[old], OnlyChild(t, old))
    BY <1>2 DEF RbRemove
  <2>2. /\ old \in t.red => Holds(Unlink(t, old), S \ {old})
        /\ old \notin t.red => \E d, bh2 : Removing(Unlink(t, old), TakenOut(sub, old), bh2, t.parent[old], d,
                                                    OnlyChild(t, old), S \ {old})
    BY <1>1, <1>2, UnlinkRemoves
  <2>3. CASE old \in t.red
    BY <2>1, <2>2, <2>3
  <2>4. CASE old \notin t.red
    <3>1. PICK d, bh2 : Removing(Unlink(t, old), TakenOut(sub, old), bh2, t.parent[old], d,
                                 OnlyChild(t, old), S \ {old})
      BY <2>2, <2>4
    <3>2. QED
      BY <2>1, <2>4, <3>1, RemoveColorHolds
  <2>5. QED
    BY <2>3, <2>4
<1>3. CASE \A d \in Sides : t.child[d][old] # Nil
  <2> DEFINE e == Extreme(t, t.child["right"][old], "left")
             s == Unlink(t, e)
             u == TakePlace(s, e, old)
             c == OnlyChild(t, e)
             g == Swap(e, old)
             s2 == TakenOut(sub, e)
  <2>1. t.child["right"][old] # Nil /\ "left" \in Sides
    BY <1>3 DEF Sides
  <2>2. /\ e \in S /\ e # old /\ t.child["left"][e] = Nil /\ old \notin sub[e]
        /\ KeepsOrder(g, S \ {e}) /\ Renamed(g, S \ {e}) = S \ {old}
    BY <1>1, <2>1, SuccessorIs, SMTT(30)
  <2>3. RbRemove(t, old) = IF e \in t.red THEN u
                           ELSE RemoveColor(u, IF t.parent[e] = old THEN e ELSE t.parent[e], c)
    BY <1>3 DEF RbRemove
  <2> HIDE DEF e
  <2>4. e \in Elems /\ old \in Elems /\ t.parent[e] \in Pointers /\ t.parent[e] # e
    <3>1. e \in Elems /\ old \in Elems
      BY <1>1, <2>2, TreeClosed
    <3>2. t.parent[e] \in Pointers
      BY <1>1, <2>1, <3>1, ChildIs
    <3>3. t.parent[e] # e
      <4>1. SUFFICES ASSUME t.parent[e] = e
                     PROVE  FALSE
        OBVIOUS
      <4>2. e # Nil
        BY <3>1, ElemsAre
      <4>3. PICK b \in Sides : t.child[b][e] = e
        BY <1>1, <3>1, <4>1, <4>2 DEF Forest
      <4>4. QED
        BY <1>1, <3>1, <4>2, <4>3, OnePlace
    <3>4. QED
      BY <3>1, <3>2, <3>3
  <2>5. \E d \in Sides : t.child[d][e] = Nil
    BY <2>1, <2>2
  <2>6. Forest(s, s2) /\ s2[s.root] = S \ {e}
    BY <1>1, <2>2, <2>5, UnlinkForest
  <2>7. s.red = t.red \ {e} /\ c \in Pointers /\ c # e /\ sub[e] = {e} \cup sub[c]
    BY <1>1, <2>2, <2>5, UnlinkIs
  <2>8. /\ e \in t.red => Holds(s, S \ {e})
        /\ e \notin t.red => \E d, bh2 : Removing(s, s2, bh2, t.parent[e], d, c, S \ {e})
    BY <1>1, <2>2, <2>5, UnlinkRemoves
  <2> HIDE DEF s, s2, c
  <2>9. Image(s, u, g)
    <3>1. s.red \subseteq s2[s.root] /\ old \in s2[s.root] /\ e \notin s2[s.root]
      BY <1>1, <2>2, <2>6, <2>7
    <3>2. QED
      BY <2>4, <2>6, <3>1, TakePlaceIs
  <2>10. Renames(g) /\ g[old] = e /\ \A x \in Pointers : x # e /\ x # old => g[x] = x
    BY <2>4, SwapRenames
  <2> HIDE DEF u, g
  <2>11. CASE e \in t.red
    BY <2>2, <2>3, <2>8, <2>9, <2>10, <2>11, ImageHolds
  <2>12. CASE e \notin t.red
    <3>1. PICK d, bh2 : Removing(s, s2, bh2, t.parent[e], d, c, S \ {e})
      BY <2>8, <2>12
    <3>2. \E bh3 : Removing(u, Imaged(s2, g), bh3, g[t.parent[e]], d, g[c], Renamed(g, S \ {e}))
      BY <2>2, <2>4, <2>9, <2>10, <3>1, ImageRemoving
    <3>3. g[t.parent[e]] = IF t.parent[e] = old THEN e ELSE t.parent[e]
      BY <2>4, <2>10
    <3>4. c # old
      <4>1. c \in Elems => c \in sub[c]
        BY <1>1, <2>1, ChildIs
      <4>2. QED
        BY <2>2, <2>4, <2>7, <4>1
    <3>5. g[c] = c
      BY <2>7, <2>10, <3>4
    <3>6. Holds(RemoveColor(u, g[t.parent[e]], g[c]), S \ {old})
      BY <2>2, <3>2, RemoveColorHolds
    <3>7. QED
      BY <2>3, <2>12, <3>3, <3>5, <3>6
  <2>13. QED
    BY <2>11, <2>12
<1>4. QED
  BY <1>2, <1>3

----------------------------------------------------------------------------
(* The first of S from the side d, or none. *)
First(S, d) == IF S = {} THEN Nil ELSE IF d = "left" THEN Min(S) ELSE Max(S)

LEMMA FirstIs ==
  ASSUME NEW S \in SUBSET Elems, NEW d \in Sides, NEW x \in S,
         \A y \in S : y # x => Before(Other(d), y, x)
  PROVE  First(S, d) = x
<1>1. S \subseteq Nat
  BY ElemsAre
<1>2. CASE d = "left"
  <2>1. \A y \in S : x <= y
    BY <1>1, <1>2 DEF Before, Other
  <2>2. Min(S) \in S /\ \A y \in S : Min(S) <= y
    BY <2>1 DEF Min
  <2>3. Min(S) <= x /\ x <= Min(S) /\ Min(S) \in Nat /\ x \in Nat
    BY <1>1, <2>1, <2>2
  <2>4. QED
    BY <1>2, <2>3 DEF First
<1>3. CASE d = "right"
  <2>1. \A y \in S : x >= y
    BY <1>1, <1>3 DEF Before, Other
  <2>2. Max(S) \in S /\ \A y \in S : Max(S) >= y
    BY <2>1 DEF Max
  <2>3. Max(S) <= x /\ x <= Max(S) /\ Max(S) \in Nat /\ x \in Nat
    BY <1>1, <2>1, <2>2
  <2>4. QED
    BY <1>3, <2>3 DEF First
<1>4. QED
  BY <1>2, <1>3 DEF Sides

(* RB_MIN, RB_MAX *)
LEMMA MinMaxIs ==
  ASSUME NEW t, NEW sub, Forest(t, sub), NEW d \in Sides
  PROVE  RbMinMax(t, d) = First(sub[t.root], d)
<1>1. CASE t.root = Nil
  BY <1>1 DEF RbMinMax, First, Forest
<1>2. CASE t.root # Nil
  <2>1. t.root \in Elems
    BY <1>2, TreeParts, ElemsAre DEF Forest
  <2> DEFINE x == Extreme(t, t.root, d)
  <2>2. /\ x \in sub[t.root] /\ \A z \in sub[t.root] : z # x => Before(Other(d), z, x)
    BY <2>1, ExtremeIs
  <2>3. RbMinMax(t, d) = x
    BY <1>2 DEF RbMinMax
  <2> HIDE DEF x
  <2>4. sub[t.root] \in SUBSET Elems
    BY <2>1, ElemsAre DEF Forest
  <2>5. QED
    BY <2>2, <2>3, <2>4, FirstIs
<1>3. QED
  BY <1>1, <1>2

(* RB_FIND *)
LEMMA FindIs ==
  ASSUME NEW t, NEW sub, Forest(t, sub), NEW e \in Elems
  PROVE  RbFind(t, e) = IF e \in sub[t.root] THEN e ELSE Nil
<1>1. CASE t.root = Nil
  BY <1>1 DEF RbFind, Forest
<1>2. CASE t.root # Nil
  <2>1. Descend(t, t.root, e) = e <=> e \in sub[t.root]
    BY <1>2, DescendIs
  <2>2. QED
    BY <1>2, <2>1 DEF RbFind
<1>3. QED
  BY <1>1, <1>2

(* RB_NFIND at `at`: what it looks for is below or is res. *)
NotPassed(t, sub, e, at, res) ==
  /\ at # Nil => at \in sub[t.root]
  /\ res # Nil => res \in sub[t.root] /\ Before("right", res, e)
  /\ res # Nil => \A x \in sub[at] : Before("left", x, res)
  /\ \A x \in sub[t.root] : ~Before("left", x, e) =>
        x \in sub[at] \/ (res # Nil /\ ~Before("left", x, res))

LEMMA NotPassedOn ==
  ASSUME NEW t, NEW sub, Forest(t, sub), NEW e \in Elems, NEW at \in Elems, at # e,
         NEW res \in Pointers, NotPassed(t, sub, e, at, res)
  PROVE  NotPassed(t, sub, e, t.child[Way(e, at)][at], IF e < at THEN at ELSE res)
<1> DEFINE w == Way(e, at)
           c == t.child[w][at]
           S == sub[t.root]
<1>1. Elems \subseteq Nat /\ Nil \notin Elems /\ "left" \in Sides /\ "right" \in Sides
      /\ \A x \in Pointers : x # Nil => x \in Elems
  BY ElemsAre DEF Sides
<1>2. at \in S /\ S \subseteq Elems /\ sub[at] \subseteq Elems /\ at \in sub[at]
  <2>1. at \in S
    BY <1>1 DEF NotPassed
  <2>2. t.root \in Elems
    BY <2>1, TreeClosed
  <2>3. QED
    BY <1>1, <2>1, <2>2, ChildIs
<1>3. w \in Sides /\ Before(w, e, at) /\ w = IF e < at THEN "left" ELSE "right"
  BY WayIs DEF Way
<1>4. /\ c \in Pointers /\ (c # Nil => c \in S) /\ sub[c] \subseteq sub[at]
      /\ sub[at] = {at} \cup sub[c] \cup sub[t.child[Other(w)][at]]
      /\ \A z \in sub[c] : Before(w, z, at)
      /\ \A z \in sub[t.child[Other(w)][at]] : Before(Other(w), z, at)
  <2>1. c # Nil => c \in S
    BY <1>2, <1>3, TreeClosed
  <2>2. Other(w) \in Sides
    BY <1>3, SidesAre
  <2>3. (\A z \in sub[c] : Before(w, z, at)) /\ \A z \in sub[t.child[Other(w)][at]] : Before(Other(w), z, at)
    BY <1>3, <2>2 DEF Forest
  <2>4. QED
    BY <1>3, <2>1, <2>3, ChildIs
<1> HIDE DEF c, w, S
<1>5. /\ res # Nil => res \in S /\ Before("right", res, e)
      /\ res # Nil => \A x \in sub[at] : Before("left", x, res)
      /\ \A x \in S : ~Before("left", x, e) =>
           x \in sub[at] \/ (res # Nil /\ ~Before("left", x, res))
  BY DEF NotPassed, S
<1>6. CASE e < at
  <2>1. w = "left" /\ Other(w) = "right"
    BY <1>3, <1>6 DEF Other
  <2>2. ASSUME NEW x \in S, ~Before("left", x, e)
        PROVE  x \in sub[c] \/ (at # Nil /\ ~Before("left", x, at))
    <3>1. x \in Nat /\ at \in Nat /\ at # Nil /\ x \in Elems
      BY <1>1, <1>2
    <3>2. CASE x \in sub[at]
      BY <1>4, <2>1, <3>1, <3>2 DEF Before
    <3>3. CASE x \notin sub[at]
      <4>1. res # Nil /\ ~(x < res) /\ at < res /\ res \in Nat
        BY <1>1, <1>2, <1>5, <2>2, <3>3 DEF Before
      <4>2. QED
        BY <3>1, <4>1 DEF Before
    <3>4. QED
      BY <3>2, <3>3
  <2>3. Before("right", at, e)
    BY <1>6 DEF Before
  <2>4. NotPassed(t, sub, e, c, at)
    BY <1>2, <1>4, <2>1, <2>2, <2>3 DEF NotPassed, S
  <2>5. QED
    BY <1>6, <2>4 DEF c, w
<1>7. CASE ~(e < at)
  <2>1. w = "right" /\ Other(w) = "left"
    BY <1>3, <1>7 DEF Other
  <2>2. ASSUME NEW x \in S, ~Before("left", x, e)
        PROVE  x \in sub[c] \/ (res # Nil /\ ~Before("left", x, res))
    <3>1. x \in Nat /\ at \in Nat /\ e \in Nat /\ at < e /\ ~(x < e)
      BY <1>1, <1>2, <1>7, <2>2 DEF Before
    <3>2. CASE x \in sub[at]
      BY <1>4, <2>1, <3>1, <3>2 DEF Before
    <3>3. CASE x \notin sub[at]
      BY <1>5, <2>2, <3>3
    <3>4. QED
      BY <3>2, <3>3
  <2>3. NotPassed(t, sub, e, c, res)
    BY <1>4, <1>5, <2>2 DEF NotPassed, S
  <2>4. QED
    BY <1>7, <2>3 DEF c, w
<1>8. QED
  BY <1>6, <1>7

(* RB_NFIND *)
LEMMA NFindIs ==
  ASSUME NEW t, NEW sub, Forest(t, sub), NEW e \in Elems
  PROVE  RbNFind(t, e) = First({x \in sub[t.root] : ~Before("left", x, e)}, "left")
<1> DEFINE S == sub[t.root]
           T == {x \in S : ~Before("left", x, e)}
           V == [at : Pointers, res : Pointers]
           step == [v \in V |-> IF v.at \in {Nil, e} THEN v
                                ELSE [at |-> t.child[Way(e, v.at)][v.at],
                                      res |-> IF e < v.at THEN v.at ELSE v.res]]
           v0 == [at |-> t.root, res |-> Nil]
           end == Loop(step, v0)
           G == {v \in V : NotPassed(t, sub, e, v.at, v.res)}
           rank == [v \in G |-> SizesBelow(sub)[v.at]]
<1>1. Elems \subseteq Pointers /\ Nil \in Pointers /\ Nil \notin Elems /\ t.root \in Pointers
      /\ (\A x \in Pointers : x # Nil => x \in Elems) /\ "left" \in Sides
      /\ sub[Nil] = {} /\ S \subseteq Elems
  BY ElemsAre, TreeParts DEF Forest, Sides
<1>2. RbNFind(t, e) = IF end.at = Nil THEN end.res ELSE end.at
  BY DEF RbNFind
<1>3. \A v \in V : step[v] = IF v.at \in {Nil, e} THEN v
                             ELSE [at |-> t.child[Way(e, v.at)][v.at],
                                   res |-> IF e < v.at THEN v.at ELSE v.res]
  OBVIOUS
<1> HIDE DEF step
<1>4. v0 \in G
  <2>1. t.root # Nil => t.root \in S
    BY <1>1, ChildIs
  <2>2. NotPassed(t, sub, e, t.root, Nil)
    BY <2>1 DEF NotPassed
  <2>3. QED
    BY <1>1, <2>2
<1>5. rank \in [G -> 0..Cardinality(Elems)]
  BY SizesBelowAre
<1>6. Descends(step, G, rank)
  <2>1. SUFFICES ASSUME NEW v \in G, ~(v.at \in {Nil, e})
                 PROVE  step[v] \in G /\ rank[step[v]] < rank[v]
    BY <1>3 DEF Descends
  <2> DEFINE at == v.at
             c == t.child[Way(e, at)][at]
             res == IF e < at THEN at ELSE v.res
  <2>2. v \in V /\ at \in Elems /\ at # e /\ v.res \in Pointers /\ NotPassed(t, sub, e, at, v.res)
    BY <1>1, <2>1
  <2>3. step[v] = [at |-> c, res |-> res]
    BY <1>3, <2>1, <2>2
  <2>4. Way(e, at) \in Sides
    BY <2>2, WayIs
  <2> HIDE DEF at
  <2>5. NotPassed(t, sub, e, c, res)
    BY <2>2, NotPassedOn
  <2>6. c \in Pointers /\ res \in Pointers /\ SizesBelow(sub)[c] < SizesBelow(sub)[at]
    BY <1>1, <2>2, <2>4, ChildIs, SizesBelowAre
  <2> HIDE DEF c, res
  <2>7. step[v] \in G
    BY <2>3, <2>5, <2>6
  <2>8. QED
    BY <2>3, <2>6, <2>7 DEF at
<1> HIDE DEF rank
<1>7. end \in G /\ step[end] = end
  BY <1>4, <1>5, <1>6, LoopSettles
<1> HIDE DEF end
<1>8. end \in V /\ NotPassed(t, sub, e, end.at, end.res)
  BY <1>7
<1> HIDE DEF G
<1>9. end.at \in {Nil, e}
  <2>1. SUFFICES ASSUME ~(end.at \in {Nil, e})
                 PROVE  FALSE
    OBVIOUS
  <2>2. end.at \in Elems
    BY <1>1, <1>8, <2>1
  <2>3. end.at = t.child[Way(e, end.at)][end.at]
    <3>1. end \in V /\ step[end] = end
      BY <1>7, <1>8
    <3> HIDE DEF V
    <3>2. step[end] = [at |-> t.child[Way(e, end.at)][end.at], res |-> IF e < end.at THEN end.at ELSE end.res]
      BY <1>3, <2>1, <3>1
    <3>3. QED
      BY <3>1, <3>2
  <2>4. Way(e, end.at) \in Sides
    BY <2>1, <2>2, WayIs
  <2>5. QED
    BY <1>1, <2>2, <2>3, <2>4, OnePlace
<1>10. T \in SUBSET Elems
  BY <1>1
<1>11. CASE end.at = Nil /\ end.res = Nil
  <2>1. T = {}
    BY <1>1, <1>8, <1>11 DEF NotPassed
  <2>2. QED
    BY <1>2, <1>11, <2>1 DEF First
<1>12. CASE end.at = Nil /\ end.res # Nil
  <2> DEFINE r == end.res
  <2>1. r \in S /\ Before("right", r, e) /\ r \in Elems
    BY <1>1, <1>8, <1>12 DEF NotPassed
  <2>2. r \in T
    <3>1. ~Before("left", r, e)
      <4>1. r \in Nat /\ e \in Nat
        BY <2>1, ElemsAre
      <4> HIDE DEF r
      <4>2. QED
        BY <2>1, <4>1 DEF Before
    <3>2. QED
      BY <2>1, <3>1
  <2>3. ASSUME NEW y \in T, y # r
        PROVE  Before(Other("left"), y, r)
    <3>1. y \in Elems /\ ~Before("left", y, r)
      BY <1>1, <1>8, <1>12, <2>3 DEF NotPassed
    <3>2. QED
      BY <1>1, <2>1, <2>3, <3>1, BeforeIs
  <2> HIDE DEF r, T
  <2>4. First(T, "left") = r
    BY <1>1, <1>10, <2>2, <2>3, FirstIs
  <2>5. QED
    BY <1>2, <1>12, <2>4 DEF r, T
<1>13. CASE end.at = e
  <2>1. e \in S
    BY <1>1, <1>8, <1>13 DEF NotPassed
  <2>2. e \in T
    BY <1>1, <2>1, BeforeIs
  <2>3. ASSUME NEW y \in T, y # e
        PROVE  Before(Other("left"), y, e)
    <3>1. y \in Elems /\ ~Before("left", y, e)
      BY <1>1
    <3>2. QED
      BY <1>1, <2>3, <3>1, BeforeIs
  <2> HIDE DEF T
  <2>4. First(T, "left") = e
    BY <1>1, <1>10, <2>2, <2>3, FirstIs
  <2>5. QED
    BY <1>1, <1>2, <1>13, <2>4 DEF T
<1>14. QED
  BY <1>9, <1>11, <1>12, <1>13

----------------------------------------------------------------------------
(* Between an element and one below it there are only elements below it,   *)
(* on the same side.                                                       *)
LEMMA Between ==
  ASSUME NEW t, NEW sub, Forest(t, sub), NEW e \in sub[t.root], NEW d \in Sides,
         NEW x \in sub[t.child[d][e]], NEW z \in sub[t.root], Before(d, z, e), Before(d, x, z)
  PROVE  z \in sub[t.child[d][e]]
<1>1. e \in Elems /\ z \in Elems
  BY TreeClosed
<1>2. x \in sub[e] /\ e \in sub[e] /\ x \in Elems
      /\ sub[e] = {e} \cup sub[t.child[d][e]] \cup sub[t.child[Other(d)][e]]
  BY <1>1, ChildIs
<1>3. z \in sub[e]
  BY <1>2, BelowIsConvex
<1>4. \A y \in sub[t.child[Other(d)][e]] : Before(Other(d), y, e)
  BY <1>1, SidesAre DEF Forest
<1>5. ~Before(d, e, e) /\ ~Before(Other(d), z, e)
  BY <1>1, BeforeIs
<1>6. QED
  BY <1>2, <1>3, <1>4, <1>5

(* Up from e: e is still the last below x in the direction d. *)
StillLast(sub, S, e, d, x) ==
  x \in S /\ e \in sub[x] /\ \A z \in sub[x] : z # e => Before(Other(d), z, e)

LEMMA ClimbIs ==
  ASSUME NEW t, NEW sub, Forest(t, sub), NEW e \in sub[t.root], NEW d \in Sides, t.child[d][e] = Nil
  PROVE  Climb(t, e, d) = First({x \in sub[t.root] : Before(d, x, e)}, Other(d))
<1> DEFINE S == sub[t.root]
           T == {x \in S : Before(d, x, e)}
           o == Other(d)
           Right(x) == t.parent[x] # Nil /\ t.child[d][t.parent[x]] = x
           step == [x \in Elems |-> IF t.parent[x] # Nil /\ t.child[d][t.parent[x]] = x
                                    THEN t.parent[x] ELSE x]
           end == Loop(step, e)
           G == {x \in S : StillLast(sub, S, e, d, x)}
           rank == [x \in G |-> Cardinality(Elems) - SizesBelow(sub)[x]]
<1>1. Elems \subseteq Pointers /\ Nil \in Pointers /\ Nil \notin Elems /\ t.root \in Elems
      /\ (\A x \in Pointers : x # Nil => x \in Elems)
      /\ S \subseteq Elems /\ e \in Elems /\ sub[Nil] = {}
      /\ o \in Sides /\ o # d /\ Other(o) = d /\ \A c \in Sides : c = d \/ c = o
  <2>1. e \in Elems /\ t.root \in Elems
    BY TreeClosed
  <2>2. sub[Nil] = {} /\ S \subseteq Elems
    BY <2>1, ChildIs DEF Forest
  <2>3. QED
    BY <2>1, <2>2, ElemsAre, SidesAre
<1>2. Climb(t, e, d) = t.parent[end]
  BY DEF Climb
<1>3. \A x \in Elems : step[x] = IF Right(x) THEN t.parent[x] ELSE x
  OBVIOUS
<1> HIDE DEF step
<1>4. e \in G
  <2>1. e \in sub[e] /\ sub[e] = {e} \cup sub[t.child[d][e]] \cup sub[t.child[o][e]]
    BY <1>1, ChildIs
  <2>2. \A z \in sub[t.child[o][e]] : Before(o, z, e)
    BY <1>1 DEF Forest
  <2>3. QED
    BY <1>1, <2>1, <2>2 DEF StillLast
<1>5. ASSUME NEW x \in S
      PROVE  Cardinality(Elems) - SizesBelow(sub)[x] \in 0..Cardinality(Elems) /\ SizesBelow(sub)[x] \in Nat
             /\ Cardinality(Elems) \in Nat
  <2>1. SizesBelow(sub)[x] \in 0..Cardinality(Elems) /\ Cardinality(Elems) \in Nat
    BY <1>1, SizesBelowAre, RbAssumption, FS_CardinalityType
  <2>2. QED
    BY <2>1
<1>6. rank \in [G -> 0..Cardinality(Elems)]
  BY <1>5
<1>7. Descends(step, G, rank)
  <2>1. SUFFICES ASSUME NEW x \in G
                 PROVE  step[x] \in G /\ (step[x] = x \/ rank[step[x]] < rank[x])
    BY DEF Descends
  <2>2. x \in S /\ x \in Elems /\ StillLast(sub, S, e, d, x)
    BY <1>1
  <2>3. CASE ~Right(x)
    BY <1>3, <2>1, <2>2, <2>3
  <2>4. CASE Right(x)
    <3> DEFINE p == t.parent[x]
    <3>1. step[x] = p /\ p \in S /\ p \in Elems /\ t.child[d][p] = x
      BY <1>1, <1>3, <2>2, <2>4, TreeClosed
    <3> HIDE DEF p
    <3>2. sub[x] \subseteq sub[p] /\ sub[p] = {p} \cup sub[x] \cup sub[t.child[o][p]] /\ sub[p] \subseteq Elems
      BY <3>1, ChildIs
    <3>3. Before(d, e, p) /\ \A z \in sub[t.child[o][p]] : Before(o, z, p)
      BY <1>1, <2>2, <3>1 DEF StillLast, Forest
    <3>4. Before(o, p, e)
      BY <1>1, <3>1, <3>3, BeforeIs
    <3>5. ASSUME NEW z \in sub[p], z # e
          PROVE  Before(o, z, e)
      <4>1. CASE z = p
        BY <3>4, <4>1
      <4>2. CASE z \in sub[x]
        BY <2>2, <3>5, <4>2 DEF StillLast
      <4>3. CASE z \in sub[t.child[o][p]]
        <5>1. Before(o, z, p) /\ z \in Elems
          BY <3>2, <3>3, <4>3
        <5>2. QED
          BY <1>1, <3>1, <3>4, <5>1, BeforeIs
      <4>4. QED
        BY <3>2, <3>5, <4>1, <4>2, <4>3
    <3>6. StillLast(sub, S, e, d, p)
      BY <2>2, <3>1, <3>2, <3>5 DEF StillLast
    <3>7. SizesBelow(sub)[x] < SizesBelow(sub)[p]
      BY <3>1, SizesBelowAre
    <3>8. p \in G /\ rank[p] < rank[x]
      BY <1>5, <2>1, <2>2, <3>1, <3>6, <3>7
    <3>9. QED
      BY <3>1, <3>8
  <2>5. QED
    BY <2>3, <2>4
<1> HIDE DEF rank
<1>8. end \in G /\ step[end] = end
  BY <1>4, <1>6, <1>7, LoopSettles
<1> HIDE DEF end
<1>9. end \in S /\ end \in Elems /\ StillLast(sub, S, e, d, end)
  BY <1>1, <1>8
<1>10. ~Right(end)
  <2>1. SUFFICES ASSUME Right(end)
                 PROVE  FALSE
    OBVIOUS
  <2>2. t.parent[end] = end
    BY <1>3, <1>8, <1>9, <2>1
  <2>3. t.child[d][end] = end /\ end # Nil
    BY <1>1, <1>9, <2>1, <2>2
  <2>4. QED
    BY <1>9, <2>3, OnePlace
<1> HIDE DEF G
<1>11. CASE t.parent[end] = Nil
  <2>1. end = t.root
    BY <1>9, <1>11, TreeClosed
  <2>2. T = {}
    <3>1. SUFFICES ASSUME NEW z \in S, Before(d, z, e)
                   PROVE  FALSE
      OBVIOUS
    <3>2. z = e \/ Before(o, z, e)
      BY <1>9, <2>1 DEF StillLast
    <3>3. z \in Elems
      BY <1>1
    <3>4. QED
      BY <1>1, <3>1, <3>2, <3>3, BeforeIs
  <2>3. QED
    BY <1>2, <1>11, <2>2 DEF First
<1>12. CASE t.parent[end] # Nil
  <2> DEFINE p == t.parent[end]
  <2>1. p \in S /\ p \in Elems
    BY <1>1, <1>9, <1>12, TreeClosed
  <2>2. t.child[o][p] = end
    <3>1. \E b \in Sides : t.child[b][p] = end
      BY <1>9, <1>12 DEF Forest
    <3>2. QED
      BY <1>1, <1>10, <1>12, <3>1
  <2> HIDE DEF p
  <2>3. Before(o, e, p)
    BY <1>1, <1>9, <2>1, <2>2 DEF StillLast, Forest
  <2>4. Before(d, p, e)
    BY <1>1, <2>1, <2>3, BeforeIs
  <2>5. ASSUME NEW z \in S, Before(d, z, e), z # p
        PROVE  Before(d, z, p)
    <3>1. SUFFICES ASSUME ~Before(d, z, p)
                   PROVE  FALSE
      OBVIOUS
    <3>2. z \in Elems /\ Before(o, z, p) /\ Before(o, e, z)
      <4>1. z \in Elems
        BY <1>1
      <4>2. QED
        BY <1>1, <2>1, <2>5, <3>1, <4>1, BeforeIs
    <3>3. e \in sub[t.child[o][p]]
      BY <1>9, <2>2 DEF StillLast
    <3>4. z \in sub[end]
      BY <1>1, <2>1, <2>2, <3>2, <3>3, Between
    <3>5. z = e \/ Before(o, z, e)
      BY <1>9, <3>4 DEF StillLast
    <3>6. QED
      BY <1>1, <2>5, <3>2, <3>5, BeforeIs
  <2>6. T \in SUBSET Elems /\ p \in T /\ \A z \in T : z # p => Before(Other(o), z, p)
    BY <1>1, <2>1, <2>4, <2>5
  <2> HIDE DEF T, o
  <2>7. First(T, o) = p
    BY <1>1, <2>6, FirstIs
  <2>8. QED
    BY <1>2, <2>7 DEF p, T, o
<1>13. QED
  BY <1>11, <1>12

(* RB_NEXT, RB_PREV *)
LEMMA StepIs ==
  ASSUME NEW t, NEW sub, Forest(t, sub), NEW e \in sub[t.root], NEW d \in Sides
  PROVE  RbStep(t, e, d) = First({x \in sub[t.root] : Before(d, x, e)}, Other(d))
<1>1. CASE t.child[d][e] = Nil
  BY <1>1, ClimbIs DEF RbStep
<1>2. CASE t.child[d][e] # Nil
  <2> DEFINE S == sub[t.root]
             T == {x \in S : Before(d, x, e)}
             o == Other(d)
             c == t.child[d][e]
             x == Extreme(t, c, o)
  <2>1. e \in Elems /\ o \in Sides /\ Other(o) = d /\ t.root \in Elems /\ S \subseteq Elems
    <3>1. e \in Elems /\ t.root \in Elems
      BY TreeClosed
    <3>2. QED
      BY <3>1, ChildIs, SidesAre
  <2>2. c \in Elems /\ c \in S /\ sub[c] \subseteq S
    <3>1. c \in Elems /\ c \in S
      BY <1>2, <2>1, OnePlace, TreeClosed
    <3>2. QED
      BY <3>1, TreeClosed
  <2>3. RbStep(t, e, d) = x
    BY <1>2 DEF RbStep
  <2>4. x \in sub[c] /\ \A z \in sub[c] : z # x => Before(Other(o), z, x)
    BY <2>1, <2>2, ExtremeIs
  <2> HIDE DEF x
  <2>5. Before(d, x, e) /\ x \in S
    BY <2>1, <2>2, <2>4 DEF Forest
  <2>6. ASSUME NEW z \in T, z # x
        PROVE  Before(d, z, x)
    <3>1. SUFFICES ASSUME ~Before(d, z, x)
                   PROVE  FALSE
      OBVIOUS
    <3>2. z \in S /\ z \in Elems /\ x \in Elems /\ Before(d, z, e)
      BY <2>1, <2>5
    <3>3. Before(d, x, z)
      BY <2>6, <3>1, <3>2, BeforeIs
    <3>4. z \in sub[c]
      BY <2>4, <3>2, <3>3, Between
    <3>5. QED
      BY <2>1, <2>4, <2>6, <3>1, <3>4
  <2>7. T \in SUBSET Elems /\ x \in T /\ \A z \in T : z # x => Before(Other(o), z, x)
    BY <2>1, <2>5, <2>6
  <2> HIDE DEF T, o
  <2>8. First(T, o) = x
    BY <2>1, <2>7, FirstIs
  <2>9. QED
    BY <2>3, <2>8 DEF T, o
<1>3. QED
  BY <1>1, <1>2

----------------------------------------------------------------------------
(* What Under and Blacks compute. *)
LEMMA UnderIs ==
  ASSUME NEW t, NEW sub, Forest(t, sub)
  PROVE  Under(t) = sub
<1> DEFINE U(f) == f = [x \in Pointers |-> IF x = Nil THEN {}
                         ELSE {x} \cup f[t.child["left"][x]] \cup f[t.child["right"][x]]]
           under == CHOOSE f : U(f)
<1>1. Elems \subseteq Pointers /\ Nil \in Pointers /\ Nil \notin Elems
      /\ (\A x \in Pointers : x # Nil => x \in Elems) /\ "left" \in Sides /\ Other("left") = "right"
      /\ sub \in [Pointers -> SUBSET Elems] /\ sub[Nil] = {}
  BY ElemsAre DEF Sides, Other, Forest
<1>2. \A x \in Elems : sub[x] = {x} \cup sub[t.child["left"][x]] \cup sub[t.child["right"][x]]
  BY <1>1, ChildIs
<1>3. U(sub)
  BY <1>1, <1>2
<1>4. U(under)
  <2> HIDE DEF U
  <2>1. QED
    BY <1>3
<1>5. Under(t) = under
  BY DEF Under
<1> HIDE DEF under
<1>6. under[Nil] = {}
  BY <1>1, <1>4
<1>7. \A x \in Elems : under[x] = {x} \cup under[t.child["left"][x]] \cup under[t.child["right"][x]]
  BY <1>1, <1>4
<1> DEFINE G == {x \in Elems : under[x] = sub[x]}
<1>8. ASSUME NEW x \in Elems, \A d \in Sides : t.child[d][x] # Nil => t.child[d][x] \in G
      PROVE  x \in G
  <2>1. \A d \in Sides : under[t.child[d][x]] = sub[t.child[d][x]]
    BY <1>1, <1>6, <1>8
  <2>2. QED
    BY <1>2, <1>7, <2>1, SMTT(30) DEF Sides
<1>9. G = Elems
  <2> HIDE DEF G
  <2>1. G \in SUBSET Elems
    BY DEF G
  <2>2. QED
    BY <1>8, <2>1, UpFromLeaves
<1>10. \A x \in Pointers : under[x] = sub[x]
  BY <1>1, <1>6, <1>9
<1>11. under = [x \in Pointers |-> under[x]] /\ sub = [x \in Pointers |-> sub[x]]
  BY <1>1, <1>4
<1>12. QED
  BY <1>5, <1>10, <1>11

LEMMA BlacksAre ==
  ASSUME NEW t, NEW sub, Forest(t, sub), NEW bh, Heights(t, bh, Nil, "left")
  PROVE  Blacks(t) = bh
<1> DEFINE U(f) == f = [x \in Pointers |-> IF x = Nil THEN 0
                         ELSE f[t.child["left"][x]] + (IF x \in t.red THEN 0 ELSE 1)]
           blacks == CHOOSE f : U(f)
<1>1. Elems \subseteq Pointers /\ Nil \in Pointers /\ Nil \notin Elems
      /\ (\A x \in Pointers : x # Nil => x \in Elems) /\ "left" \in Sides
      /\ bh \in [Pointers -> Nat] /\ bh[Nil] = 0
  BY ElemsAre DEF Sides, Heights
<1>2. \A x \in Elems : bh[x] = bh[t.child["left"][x]] + (IF x \in t.red THEN 0 ELSE 1)
  <2>1. SUFFICES ASSUME NEW x \in Elems
                 PROVE  bh[x] = bh[t.child["left"][x]] + (IF x \in t.red THEN 0 ELSE 1)
    OBVIOUS
  <2>2. t.child["left"][x] \in Pointers
    BY <1>1, ChildIs
  <2>3. Lack(Nil, "left", x, "left") = 0
    BY <1>1 DEF Lack
  <2>4. bh[x] = bh[t.child["left"][x]] + Black(t, x) + Lack(Nil, "left", x, "left")
    BY <1>1 DEF Heights
  <2>5. bh[t.child["left"][x]] \in Nat /\ Black(t, x) \in Nat
    BY <1>1, <2>2 DEF Black
  <2>6. QED
    BY <2>3, <2>4, <2>5 DEF Black
<1>3. U(bh)
  BY <1>1, <1>2
<1>4. U(blacks)
  <2> HIDE DEF U
  <2>1. QED
    BY <1>3
<1>5. Blacks(t) = blacks
  BY DEF Blacks
<1> HIDE DEF blacks
<1>6. blacks[Nil] = 0
  BY <1>1, <1>4
<1>7. \A x \in Elems : blacks[x] = blacks[t.child["left"][x]] + (IF x \in t.red THEN 0 ELSE 1)
  BY <1>1, <1>4
<1> DEFINE G == {x \in Elems : blacks[x] = bh[x]}
<1>8. ASSUME NEW x \in Elems, \A d \in Sides : t.child[d][x] # Nil => t.child[d][x] \in G
      PROVE  x \in G
  <2>1. blacks[t.child["left"][x]] = bh[t.child["left"][x]]
    BY <1>1, <1>6, <1>8
  <2>2. QED
    BY <1>2, <1>7, <2>1
<1>9. G = Elems
  <2> HIDE DEF G
  <2>1. G \in SUBSET Elems
    BY DEF G
  <2>2. QED
    BY <1>8, <2>1, UpFromLeaves
<1>10. \A x \in Pointers : blacks[x] = bh[x]
  BY <1>1, <1>6, <1>9
<1>11. blacks = [x \in Pointers |-> blacks[x]] /\ bh = [x \in Pointers |-> bh[x]]
  BY <1>1, <1>4
<1>12. QED
  BY <1>5, <1>10, <1>11

LEMMA EmptyHolds == Holds(RbEmpty, {})
<1> DEFINE sub == [x \in Pointers |-> IF x = Nil THEN {} ELSE {x}]
           bh == [x \in Pointers |-> IF x = Nil THEN 0 ELSE 1]
<1>1. Elems \subseteq Pointers /\ Nil \in Pointers /\ Nil \notin Elems /\ "left" \in Sides
      /\ (\A x \in Pointers : x # Nil => x \in Elems)
  BY ElemsAre DEF Sides
<1>2. /\ RbEmpty \in Trees /\ RbEmpty.root = Nil /\ RbEmpty.red = {}
      /\ \A x \in Elems : RbEmpty.parent[x] = Nil /\ \A d \in Sides : RbEmpty.child[d][x] = Nil
  BY <1>1 DEF RbEmpty, Trees
<1>3. sub \in [Pointers -> SUBSET Elems] /\ sub[Nil] = {} /\ \A x \in Elems : sub[x] = {x}
  BY <1>1
<1>4. bh \in [Pointers -> Nat] /\ bh[Nil] = 0 /\ \A x \in Elems : bh[x] = 1
  BY <1>1
<1> HIDE DEF sub, bh
<1>5. Forest(RbEmpty, sub)
  BY <1>2, <1>3 DEF Forest
<1>6. Heights(RbEmpty, bh, Nil, "left")
  BY <1>1, <1>2, <1>4 DEF Heights, Black, Lack
<1>7. Reds(RbEmpty, Nil, Nil)
  BY <1>2 DEF Reds
<1>8. QED
  BY <1>2, <1>3, <1>5, <1>6, <1>7 DEF Holds

(* Whatever is inserted and removed, in whatever order, the tree holds it: *)
(* its links hang together in order, every way down is equally black and   *)
(* no red element has a red child, however the rotations fell.             *)
RbInv == inserted \subseteq Elems /\ Holds(rb, inserted)

(* The tree of tree.h stays a red-black tree of what was inserted and not   *)
(* removed through any number of insertions and removals.                  *)
THEOREM RbInvariance == RbSpec => []RbInv
<1>1. RbInit => RbInv
  BY EmptyHolds DEF RbInit, RbInv
<1>2. RbInv /\ [RbNext]_rbVars => RbInv'
  <2> SUFFICES ASSUME RbInv, [RbNext]_rbVars
               PROVE  RbInv'
    OBVIOUS
  <2>1. CASE RbInsertAction
    <3>1. PICK e \in Elems : rb' = RbInsert(rb, e).t /\ inserted' = inserted \cup {e}
      BY <2>1 DEF RbInsertAction
    <3>2. Holds(RbInsert(rb, e).t, inserted \cup {e})
      BY InsertHolds DEF RbInv
    <3>3. QED
      BY <3>1, <3>2 DEF RbInv
  <2>2. CASE RbRemoveAction
    <3>1. PICK e \in inserted : rb' = RbRemove(rb, e) /\ inserted' = inserted \ {e}
      BY <2>2 DEF RbRemoveAction
    <3>2. Holds(RbRemove(rb, e), inserted \ {e})
      BY RemoveHolds DEF RbInv
    <3>3. QED
      BY <3>1, <3>2 DEF RbInv
  <2>3. CASE UNCHANGED rbVars
    BY <2>3 DEF rbVars, RbInv
  <2>4. QED
    BY <2>1, <2>2, <2>3 DEF RbNext
<1>3. QED
  BY <1>1, <1>2, PTL DEF RbSpec

LEMMA ShapeHolds ==
  ASSUME RbInv
  PROVE  RbShape
<1>1. PICK sub, bh : /\ Forest(rb, sub) /\ sub[rb.root] = inserted /\ Heights(rb, bh, Nil, "left")
                     /\ Reds(rb, Nil, Nil) /\ rb.red \subseteq inserted /\ rb.root \notin rb.red
  BY DEF RbInv, Holds
<1>2. Under(rb) = sub /\ Blacks(rb) = bh
  BY <1>1, UnderIs, BlacksAre
<1>3. rb.root # Nil => rb.parent[rb.root] = Nil
  BY <1>1 DEF Forest
<1>4. ASSUME NEW e \in inserted, NEW d \in Sides
      PROVE  LET c == rb.child[d][e]
             IN /\ \A x \in sub[c] : Before(d, x, e)
                /\ c # Nil => rb.parent[c] = e /\ ~(e \in rb.red /\ c \in rb.red)
                /\ bh[c] = bh[rb.child[Other(d)][e]]
  <2>1. e \in Elems /\ e # Nil
    BY ElemsAre DEF RbInv
  <2>2. Other(d) \in Sides
    BY SidesAre
  <2> DEFINE c == rb.child[d][e]
             o == rb.child[Other(d)][e]
  <2>3. c \in Pointers /\ o \in Pointers /\ bh \in [Pointers -> Nat]
    BY <1>1, <2>1, <2>2, ChildIs DEF Heights
  <2>4. (\A x \in sub[c] : Before(d, x, e)) /\ (c # Nil => rb.parent[c] = e)
    BY <1>1, <2>1 DEF Forest
  <2>5. c # Nil => ~(e \in rb.red /\ c \in rb.red)
    BY <1>1, <2>1 DEF Reds
  <2>6. bh[e] = bh[c] + Black(rb, e) + Lack(Nil, "left", e, d)
        /\ bh[e] = bh[o] + Black(rb, e) + Lack(Nil, "left", e, Other(d))
    BY <1>1, <2>1, <2>2 DEF Heights
  <2>7. Lack(Nil, "left", e, d) = 0 /\ Lack(Nil, "left", e, Other(d)) = 0
    BY <2>1 DEF Lack
  <2>8. bh[c] \in Nat /\ bh[o] \in Nat /\ Black(rb, e) \in Nat
    BY <2>3 DEF Black
  <2> HIDE DEF c, o
  <2>9. bh[c] = bh[o]
    BY <2>6, <2>7, <2>8
  <2>10. QED
    BY <2>4, <2>5, <2>9 DEF c, o
<1>5. QED
  BY <1>1, <1>2, <1>3, <1>4 DEF RbShape

LEMMA SearchHolds ==
  ASSUME RbInv
  PROVE  RbSearch
<1>1. PICK sub : Forest(rb, sub) /\ sub[rb.root] = inserted
  BY DEF RbInv, Holds
<1>2. inserted \subseteq Elems /\ Elems \subseteq Nat
  BY ElemsAre DEF RbInv
<1>3. \A d \in Sides : RbMinMax(rb, d) = First(inserted, d)
  BY <1>1, MinMaxIs
<1>4. \A e \in Elems : RbFind(rb, e) = IF e \in inserted THEN e ELSE Nil
  BY <1>1, FindIs
<1>5. \A e \in Elems : RbNFind(rb, e) = First({x \in inserted : ~Before("left", x, e)}, "left")
  BY <1>1, NFindIs
<1>6. \A e \in inserted, d \in Sides : RbStep(rb, e, d) = First({x \in inserted : Before(d, x, e)}, Other(d))
  BY <1>1, StepIs
<1>7. ASSUME NEW e \in Elems
      PROVE  /\ {x \in inserted : ~Before("left", x, e)} = {x \in inserted : x >= e}
             /\ {x \in inserted : Before("right", x, e)} = {x \in inserted : x > e}
             /\ {x \in inserted : Before("left", x, e)} = {x \in inserted : x < e}
  <2>1. \A x \in inserted : x \in Nat /\ e \in Nat
    BY <1>2
  <2>2. QED
    BY <2>1 DEF Before
<1>8. /\ "left" \in Sides /\ "right" \in Sides
      /\ Other("left") = "right" /\ Other("right") = "left"
  BY DEF Sides, Other
<1>9. \A S : /\ First(S, "left") = IF S = {} THEN Nil ELSE Min(S)
             /\ First(S, "right") = IF S = {} THEN Nil ELSE Max(S)
  BY DEF First
<1>10. /\ RbMinMax(rb, "left") = IF inserted = {} THEN Nil ELSE Min(inserted)
       /\ RbMinMax(rb, "right") = IF inserted = {} THEN Nil ELSE Max(inserted)
  BY <1>3, <1>8, <1>9
<1>11. ASSUME NEW e \in Elems
       PROVE  LET S == {x \in inserted : x >= e}
              IN RbNFind(rb, e) = IF S = {} THEN Nil ELSE Min(S)
  BY <1>5, <1>7, <1>9
<1>12. ASSUME NEW e \in inserted
       PROVE  LET S == {x \in inserted : x > e}
                  T == {x \in inserted : x < e}
              IN /\ RbStep(rb, e, "right") = IF S = {} THEN Nil ELSE Min(S)
                 /\ RbStep(rb, e, "left") = IF T = {} THEN Nil ELSE Max(T)
  <2>1. e \in Elems
    BY <1>2
  <2>2. RbStep(rb, e, "right") = First({x \in inserted : x > e}, "left")
        /\ RbStep(rb, e, "left") = First({x \in inserted : x < e}, "right")
    BY <1>6, <1>7, <1>8, <2>1
  <2>3. QED
    BY <1>9, <2>2
<1>13. QED
  BY <1>4, <1>10, <1>11, <1>12 DEF RbSearch

(* The scheduler gets the right lthread from the trees of sleeping and      *)
(* waiting lthreads, whatever was inserted and removed before, and no way   *)
(* down a tree has more black elements than another.                        *)
THEOREM RbBalancedHolds == RbSpec => []RbBalanced
<1>1. RbInv => RbBalanced
  BY ShapeHolds, SearchHolds DEF RbBalanced
<1>2. QED
  BY <1>1, RbInvariance, PTL

----------------------------------------------------------------------------
(* What the first state of a loop has and every turn keeps, every state     *)
(* has.                                                                     *)
Keeps(n, V, Q, all) == \A i \in 0..n - 1, v \in V : <<i, v>> \in Q => <<i + 1, all[<<i, v>>]>> \in Q

(* The states of a loop. *)
Runs(n, V, Q, all, x, f) ==
  /\ f \in [0..n -> V] /\ f[0] = x
  /\ \A i \in 0..n : <<i, f[i]>> \in Q
  /\ \A i \in 0..n - 1 : f[i + 1] = all[<<i, f[i]>>]

LEMMA KeepsRuns ==
  ASSUME NEW n \in Nat, NEW V, NEW Q \in SUBSET (Nat \X V), NEW all, NEW x, <<0, x>> \in Q,
         Keeps(n, V, Q, all)
  PROVE  \E f : Runs(n, V, Q, all, x, f)
<1> DEFINE tot == [p \in (0..n - 1) \X V |-> IF <<p[1] + 1, all[p]>> \in Q THEN all[p] ELSE p[2]]
<1>1. x \in V /\ \A i \in Nat : \A v : <<i, v>> \in Q => v \in V
  OBVIOUS
<1>2. \A i \in 0..n - 1, v \in V :
        tot[<<i, v>>] = IF <<i + 1, all[<<i, v>>]>> \in Q THEN all[<<i, v>>] ELSE v
  OBVIOUS
<1> HIDE DEF tot
<1>3. TurnsTo(n, V, tot)
  <2>1. SUFFICES ASSUME NEW i \in 0..n - 1, NEW v \in V
                 PROVE  tot[<<i, v>>] \in V
    BY DEF TurnsTo
  <2>2. i + 1 \in Nat
    OBVIOUS
  <2>3. QED
    BY <1>1, <1>2, <2>2
<1>4. PICK f \in LoopStatesTo(n, V, x, tot) : TRUE
  BY <1>1, <1>3, LoopRunsTo
<1>5. f \in [0..n -> V] /\ f[0] = x /\ \A i \in 0..n - 1 : f[i + 1] = tot[<<i, f[i]>>]
  BY <1>4 DEF LoopStatesTo
<1>6. ASSUME NEW i \in 0..n - 1, <<i, f[i]>> \in Q
      PROVE  f[i + 1] = all[<<i, f[i]>>] /\ <<i + 1, f[i + 1]>> \in Q
  <2>1. f[i] \in V
    BY <1>5
  <2>2. <<i + 1, all[<<i, f[i]>>]>> \in Q
    BY <1>6, <2>1 DEF Keeps
  <2>3. QED
    BY <1>2, <1>5, <2>1, <2>2
<1> DEFINE R == {i \in Nat : i <= n => <<i, f[i]>> \in Q}
<1>7. 0 \in R
  BY <1>5
<1>8. ASSUME NEW i \in R
      PROVE  i + 1 \in R
  <2>1. SUFFICES ASSUME i + 1 <= n
                 PROVE  <<i + 1, f[i + 1]>> \in Q
    OBVIOUS
  <2>2. i \in 0..n - 1 /\ <<i, f[i]>> \in Q
    BY <2>1
  <2>3. QED
    BY <1>6, <2>2
<1>9. R = Nat
  <2> HIDE DEF R
  <2>1. R \in SUBSET Nat
    BY DEF R
  <2>2. QED
    BY <1>7, <1>8, <2>1, AllNat
<1>10. \A i \in 0..n : <<i, f[i]>> \in Q
  BY <1>9
<1>11. \A i \in 0..n - 1 : f[i + 1] = all[<<i, f[i]>>]
  <2>1. \A i \in 0..n - 1 : i \in 0..n
    OBVIOUS
  <2>2. QED
    BY <1>6, <1>10, <2>1
<1>12. QED
  BY <1>5, <1>10, <1>11 DEF Runs

(* The for loops of cfuhash.c. *)
RepeatKeeps(n, V, Q, step) ==
  \A i \in 1..n, v \in V : <<i - 1, v>> \in Q => <<i, step[i][v]>> \in Q

LEMMA RepeatEnds ==
  ASSUME NEW n \in Nat, NEW V, NEW Q \in SUBSET (Nat \X V), NEW step, NEW x, <<0, x>> \in Q,
         RepeatKeeps(n, V, Q, step)
  PROVE  <<n, Repeat(n, step, x)>> \in Q
<1> DEFINE all == [p \in Nat \X V |-> step[p[1] + 1][p[2]]]
<1>1. \A i \in Nat, v \in V : all[<<i, v>>] = step[i + 1][v]
  OBVIOUS
<1> HIDE DEF all
<1>2. Keeps(n, V, Q, all)
  <2>1. SUFFICES ASSUME NEW i \in 0..n - 1, NEW v \in V, <<i, v>> \in Q
                 PROVE  <<i + 1, all[<<i, v>>]>> \in Q
    BY DEF Keeps
  <2>2. i + 1 \in 1..n /\ (i + 1) - 1 = i /\ i \in Nat
    OBVIOUS
  <2>3. <<i + 1, step[i + 1][v]>> \in Q
    BY <2>1, <2>2 DEF RepeatKeeps
  <2>4. QED
    BY <1>1, <2>2, <2>3
<1>3. PICK f : Runs(n, V, Q, all, x, f)
  BY <1>2, KeepsRuns
<1> USE DEF Runs
<1> DEFINE Turn(g) == g = [i \in 0..n |-> IF i = 0 THEN x ELSE step[i][g[i - 1]]]
           turn == CHOOSE g : Turn(g)
<1>4. Turn(f)
  <2>1. ASSUME NEW i \in 0..n, i # 0
        PROVE  f[i] = step[i][f[i - 1]]
    <3>1. i - 1 \in 0..n - 1 /\ (i - 1) + 1 = i /\ i - 1 \in 0..n /\ i - 1 \in Nat
      BY <2>1
    <3>2. f[(i - 1) + 1] = all[<<i - 1, f[i - 1]>>] /\ f[i - 1] \in V
      BY <1>3, <3>1
    <3>3. QED
      BY <1>1, <3>1, <3>2
  <2>2. QED
    BY <1>3, <2>1
<1>5. Turn(turn)
  <2> HIDE DEF Turn
  <2>1. QED
    BY <1>4
<1>6. Repeat(n, step, x) = turn[n]
  BY DEF Repeat
<1> HIDE DEF turn
<1>7. \A i \in 0..n : turn[i] = IF i = 0 THEN x ELSE step[i][turn[i - 1]]
  BY <1>5
<1>8. \A i \in 0..n : f[i] = IF i = 0 THEN x ELSE step[i][f[i - 1]]
  BY <1>4
<1>9. SameTurns(n, f, turn)
  <2>1. ASSUME NEW i \in 0..n - 1, turn[i] = f[i]
        PROVE  turn[i + 1] = f[i + 1]
    <3>1. i + 1 \in 0..n /\ i + 1 # 0 /\ (i + 1) - 1 = i
      OBVIOUS
    <3>2. turn[i + 1] = step[i + 1][turn[(i + 1) - 1]] /\ f[i + 1] = step[i + 1][f[(i + 1) - 1]]
      BY <1>7, <1>8, <3>1
    <3>3. QED
      BY <2>1, <3>1, <3>2
  <2>2. 0 \in 0..n
    OBVIOUS
  <2>3. QED
    BY <1>7, <1>8, <2>1, <2>2 DEF SameTurns
<1>10. turn[n] = f[n]
  <2>1. \A i \in 0..n : turn[i] = f[i]
    BY <1>9, SameLoop
  <2>2. QED
    BY <2>1
<1>11. QED
  BY <1>3, <1>6, <1>10

(* hash_size() finds a power of two that is large enough. *)
LEMMA HashSizeIs ==
  ASSUME NEW s \in Nat
  PROVE  HashSize(s) \in Nat \ {0} /\ HashSize(s) >= s
<1> DEFINE step == [n \in 1..s |-> [i \in Nat |-> IF i < s THEN 2 * i ELSE i]]
           Q == {q \in Nat \X Nat : q[2] # 0 /\ (q[2] >= s \/ q[2] > q[1])}
<1>1. \A n \in Nat, i \in Nat : <<n, i>> \in Q <=> i # 0 /\ (i >= s \/ i > n)
  OBVIOUS
<1>2. \A n \in 1..s, i \in Nat : step[n][i] = IF i < s THEN 2 * i ELSE i
  OBVIOUS
<1>3. Q \in SUBSET (Nat \X Nat)
  OBVIOUS
<1> HIDE DEF Q, step
<1>4. <<0, 1>> \in Q
  BY <1>1
<1>5. RepeatKeeps(s, Nat, Q, step)
  <2>1. SUFFICES ASSUME NEW n \in 1..s, NEW i \in Nat, <<n - 1, i>> \in Q
                 PROVE  <<n, step[n][i]>> \in Q
    BY DEF RepeatKeeps
  <2>2. n - 1 \in Nat /\ n \in Nat /\ i # 0 /\ (i >= s \/ i > n - 1)
    BY <1>1, <2>1
  <2>3. step[n][i] \in Nat /\ step[n][i] # 0 /\ (step[n][i] >= s \/ step[n][i] > n)
    BY <1>2, <2>2
  <2>4. QED
    BY <1>1, <2>2, <2>3
<1>6. <<s, HashSize(s)>> \in Q
  BY <1>3, <1>4, <1>5, RepeatEnds DEF HashSize, step
<1>7. HashSize(s) \in Nat
  BY <1>3, <1>6
<1>8. QED
  BY <1>1, <1>6, <1>7

----------------------------------------------------------------------------
(* The chain c holds the keys of K, each once, with their data in f.       *)
Chained(c, K, f) ==
  /\ c \in Seq(CfuEntries)
  /\ \A i \in 1..Len(c) : c[i].key \in K /\ c[i].data = f[c[i].key]
  /\ \A i, j \in 1..Len(c) : c[i].key = c[j].key => i = j
  /\ \A k \in K : \E i \in 1..Len(c) : c[i].key = k

LEMMA ChainedEmpty == ASSUME NEW f PROVE Chained(<<>>, {}, f)
BY DEF Chained

LEMMA ChainedOne ==
  ASSUME NEW e \in CfuEntries, NEW f, f[e.key] = e.data
  PROVE  Chained(<<e>>, {e.key}, f)
<1>1. <<e>> \in Seq(CfuEntries) /\ Len(<<e>>) = 1 /\ <<e>>[1] = e
  OBVIOUS
<1>2. \A i \in 1..Len(<<e>>) : i = 1
  BY <1>1
<1>3. 1 \in 1..Len(<<e>>)
  BY <1>1
<1> DEFINE c == <<e>>
<1> HIDE DEF c
<1>4. QED
  BY <1>1, <1>2, <1>3 DEF Chained, c

LEMMA ChainedJoin ==
  ASSUME NEW a, NEW b, NEW K, NEW L, NEW f, Chained(a, K, f), Chained(b, L, f), K \cap L = {}
  PROVE  Chained(a \o b, K \cup L, f)
<1> DEFINE c == a \o b
<1>1. /\ a \in Seq(CfuEntries) /\ b \in Seq(CfuEntries)
      /\ \A i \in 1..Len(a) : a[i].key \in K /\ a[i].data = f[a[i].key]
      /\ \A i \in 1..Len(b) : b[i].key \in L /\ b[i].data = f[b[i].key]
      /\ \A i, j \in 1..Len(a) : a[i].key = a[j].key => i = j
      /\ \A i, j \in 1..Len(b) : b[i].key = b[j].key => i = j
  BY DEF Chained
<1>2. c \in Seq(CfuEntries) /\ Len(c) = Len(a) + Len(b) /\ Len(a) \in Nat /\ Len(b) \in Nat
  BY <1>1
<1>3. \A i \in 1..Len(c) : c[i] = IF i <= Len(a) THEN a[i] ELSE b[i - Len(a)]
  BY <1>1, <1>2
<1> HIDE DEF c
<1>4. \A i \in 1..Len(c) : IF i <= Len(a) THEN i \in 1..Len(a) ELSE i - Len(a) \in 1..Len(b)
  BY <1>2
<1>5. \A i \in 1..Len(c) : /\ c[i].key \in K \cup L /\ c[i].data = f[c[i].key]
                           /\ c[i].key \in K <=> i <= Len(a)
  <2>1. SUFFICES ASSUME NEW i \in 1..Len(c)
                 PROVE  /\ c[i].key \in K \cup L /\ c[i].data = f[c[i].key]
                        /\ c[i].key \in K <=> i <= Len(a)
    OBVIOUS
  <2>2. CASE i <= Len(a)
    BY <1>1, <1>3, <1>4, <2>2
  <2>3. CASE ~(i <= Len(a))
    <3>1. c[i] = b[i - Len(a)] /\ i - Len(a) \in 1..Len(b)
      BY <1>3, <1>4, <2>3
    <3>2. QED
      BY <1>1, <2>3, <3>1
  <2>4. QED
    BY <2>2, <2>3
<1>6. ASSUME NEW i \in 1..Len(c), NEW j \in 1..Len(c), c[i].key = c[j].key
      PROVE  i = j
  <2>1. i <= Len(a) <=> j <= Len(a)
    BY <1>5, <1>6
  <2>2. CASE i <= Len(a)
    <3>1. i \in 1..Len(a) /\ j \in 1..Len(a) /\ c[i] = a[i] /\ c[j] = a[j]
      BY <1>3, <1>4, <2>1, <2>2
    <3>2. QED
      BY <1>1, <1>6, <3>1
  <2>3. CASE ~(i <= Len(a))
    <3>1. i - Len(a) \in 1..Len(b) /\ j - Len(a) \in 1..Len(b) /\ c[i] = b[i - Len(a)] /\ c[j] = b[j - Len(a)]
      BY <1>3, <1>4, <2>1, <2>3
    <3>2. i - Len(a) = j - Len(a)
      BY <1>1, <1>6, <3>1
    <3>3. QED
      BY <1>2, <3>2
  <2>4. QED
    BY <2>2, <2>3
<1>7. ASSUME NEW k \in K \cup L
      PROVE  \E i \in 1..Len(c) : c[i].key = k
  <2>1. CASE k \in K
    <3>1. PICK i \in 1..Len(a) : a[i].key = k
      BY <2>1 DEF Chained
    <3>2. i \in 1..Len(c) /\ i <= Len(a)
      BY <1>2
    <3>3. QED
      BY <1>3, <3>1, <3>2
  <2>2. CASE k \in L
    <3>1. PICK i \in 1..Len(b) : b[i].key = k
      BY <2>2 DEF Chained
    <3>2. i + Len(a) \in 1..Len(c) /\ ~(i + Len(a) <= Len(a)) /\ (i + Len(a)) - Len(a) = i
      BY <1>2
    <3>3. c[i + Len(a)] = b[i]
      BY <1>3, <3>2
    <3>4. QED
      BY <3>1, <3>2, <3>3
  <2>3. QED
    BY <2>1, <2>2
<1>8. Chained(c, K \cup L, f)
  BY <1>2, <1>5, <1>6, <1>7 DEF Chained
<1>9. QED
  BY <1>8 DEF c

LEMMA ChainedLike ==
  ASSUME NEW c, NEW K, NEW f, NEW g, Chained(c, K, f), \A k \in K : g[k] = f[k]
  PROVE  Chained(c, K, g)
BY DEF Chained

LEMMA ChainedLen ==
  ASSUME NEW c, NEW K, NEW f, Chained(c, K, f)
  PROVE  Len(c) \in Nat /\ IsFiniteSet(K) /\ Cardinality(K) = Len(c) /\ K \subseteq Keys
<1>1. c \in Seq(CfuEntries) /\ Len(c) \in Nat
  BY DEF Chained
<1> DEFINE F == [i \in 1..Len(c) |-> c[i].key]
<1>2. F \in Bijection(1..Len(c), K)
  <2>1. F \in [1..Len(c) -> K]
    BY DEF Chained
  <2>2. \A i, j \in 1..Len(c) : F[i] = F[j] => i = j
    BY DEF Chained
  <2>3. \A k \in K : \E i \in 1..Len(c) : F[i] = k
    BY DEF Chained
  <2> HIDE DEF F
  <2>4. F \in Injection(1..Len(c), K)
    BY <2>1, <2>2 DEF Injection, IsInjective
  <2>5. F \in Surjection(1..Len(c), K)
    BY <2>1, <2>3 DEF Surjection
  <2>6. QED
    BY <2>4, <2>5 DEF Bijection
<1>3. ExistsBijection(1..Len(c), K)
  BY <1>2 DEF ExistsBijection
<1>4. IsFiniteSet(1..Len(c)) /\ Cardinality(1..Len(c)) = Len(c)
  BY <1>1, FS_Interval
<1>5. IsFiniteSet(K) /\ Cardinality(K) = Len(c)
  BY <1>3, <1>4, FS_Bijection
<1>6. K \subseteq Keys
  <2>1. SUFFICES ASSUME NEW k \in K
                 PROVE  k \in Keys
    OBVIOUS
  <2>2. PICK i \in 1..Len(c) : c[i].key = k
    BY DEF Chained
  <2>3. c[i] \in CfuEntries
    BY <1>1
  <2>4. QED
    BY <2>2, <2>3 DEF CfuEntries
<1>7. QED
  BY <1>1, <1>5, <1>6

(* Where a key is. *)
PlacesOf(c, k) == {i \in DOMAIN c : c[i].key = k}

LEMMA ChainedPlace ==
  ASSUME NEW c, NEW K, NEW f, Chained(c, K, f), NEW k
  PROVE  /\ k \notin K => PlacesOf(c, k) = {}
         /\ k \in K => \E i \in 1..Len(c) : PlacesOf(c, k) = {i} /\ Min(PlacesOf(c, k)) = i
                                            /\ c[i].key = k /\ c[i].data = f[k]
<1>1. c \in Seq(CfuEntries) /\ DOMAIN c = 1..Len(c) /\ Len(c) \in Nat
  BY DEF Chained
<1>2. CASE k \notin K
  BY <1>1, <1>2 DEF Chained, PlacesOf
<1>3. CASE k \in K
  <2>1. PICK i \in 1..Len(c) : c[i].key = k
    BY <1>3 DEF Chained
  <2>2. c[i].data = f[k]
    BY <2>1 DEF Chained
  <2>3. \A j \in 1..Len(c) : c[j].key = k => j = i
    BY <2>1 DEF Chained
  <2>4. PlacesOf(c, k) = {i}
    BY <1>1, <2>1, <2>3 DEF PlacesOf
  <2>5. Min({i}) = i
    <3>1. {i} \subseteq Nat /\ {i} # {}
      BY <1>1
    <3>2. Min({i}) \in {i}
      BY <3>1, LeastOf
    <3>3. QED
      BY <3>2
  <2>6. QED
    BY <1>3, <2>1, <2>2, <2>4, <2>5
<1>4. QED
  BY <1>2, <1>3

(* Another entry of the same key. *)
LEMMA ChainedSet ==
  ASSUME NEW c, NEW K, NEW f, Chained(c, K, f), NEW i \in 1..Len(c), NEW e \in CfuEntries,
         e.key = c[i].key, NEW g, g[e.key] = e.data, \A k \in K : k # e.key => g[k] = f[k]
  PROVE  Chained([c EXCEPT ![i] = e], K, g)
<1> DEFINE r == [c EXCEPT ![i] = e]
<1>1. c \in Seq(CfuEntries) /\ Len(c) \in Nat
  BY DEF Chained
<1>2. r \in Seq(CfuEntries) /\ Len(r) = Len(c) /\ \A j \in 1..Len(c) : r[j] = IF j = i THEN e ELSE c[j]
  BY <1>1
<1> HIDE DEF r
<1>3. \A j \in 1..Len(c) : r[j].key = c[j].key
  BY <1>2
<1>4. \A j \in 1..Len(c) : r[j].data = g[r[j].key]
  <2>1. SUFFICES ASSUME NEW j \in 1..Len(c)
                 PROVE  r[j].data = g[r[j].key]
    OBVIOUS
  <2>2. CASE j = i
    BY <1>2, <2>2
  <2>3. CASE j # i
    <3>1. c[j].key \in K /\ c[j].key # e.key /\ c[j].data = f[c[j].key]
      BY <2>3 DEF Chained
    <3>2. QED
      BY <1>2, <2>3, <3>1
  <2>4. QED
    BY <2>2, <2>3
<1>5. /\ \A j \in 1..Len(r) : r[j].key \in K /\ r[j].data = g[r[j].key]
      /\ \A j, k \in 1..Len(r) : r[j].key = r[k].key => j = k
  <2>1. /\ \A j \in 1..Len(c) : c[j].key \in K
        /\ \A j, k \in 1..Len(c) : c[j].key = c[k].key => j = k
    BY DEF Chained
  <2>2. QED
    BY <1>2, <1>3, <1>4, <2>1
<1>6. \A k \in K : \E j \in 1..Len(r) : r[j].key = k
  <2>1. \A k \in K : \E j \in 1..Len(c) : c[j].key = k
    BY DEF Chained
  <2>2. QED
    BY <1>2, <1>3, <2>1
<1>7. Chained(r, K, g)
  BY <1>2, <1>5, <1>6 DEF Chained
<1>8. QED
  BY <1>7 DEF r

(* r is s without its entry i. *)
Shortened(r, s, i) ==
  /\ Len(r) = Len(s) - 1
  /\ \A k \in 1..Len(s) - 1 : r[k] = IF k < i THEN s[k] ELSE s[k + 1]

LEMMA RemoveAtIs ==
  ASSUME NEW S, NEW s \in Seq(S), NEW i \in 1..Len(s)
  PROVE  RemoveAt(s, i) \in Seq(S) /\ Shortened(RemoveAt(s, i), s, i)
<1> DEFINE a == SubSeq(s, 1, i - 1)
           b == SubSeq(s, i + 1, Len(s))
<1>1. Len(s) \in Nat /\ i \in Nat
  OBVIOUS
<1>2. a \in Seq(S) /\ Len(a) = i - 1 /\ \A k \in 1..i - 1 : a[k] = s[k]
  BY <1>1
<1>3. b \in Seq(S) /\ Len(b) = Len(s) - i /\ \A k \in 1..Len(s) - i : b[k] = s[i + k]
  BY <1>1
<1>4. RemoveAt(s, i) = a \o b
  BY DEF RemoveAt
<1> HIDE DEF a, b
<1>5. a \o b \in Seq(S) /\ Len(a \o b) = Len(a) + Len(b)
      /\ \A k \in 1..Len(a) + Len(b) : (a \o b)[k] = IF k <= Len(a) THEN a[k] ELSE b[k - Len(a)]
  BY <1>2, <1>3, ConcatProperties
<1>6. ASSUME NEW k \in 1..Len(s) - 1
      PROVE  (a \o b)[k] = IF k < i THEN s[k] ELSE s[k + 1]
  <2>1. k \in 1..Len(a) + Len(b)
    BY <1>1, <1>2, <1>3
  <2>2. CASE k < i
    BY <1>1, <1>2, <1>5, <2>1, <2>2
  <2>3. CASE ~(k < i)
    <3>1. k - Len(a) \in 1..Len(s) - i /\ ~(k <= Len(a)) /\ i + (k - Len(a)) = k + 1
      BY <1>1, <1>2, <2>3
    <3>2. b[k - Len(a)] = s[k + 1]
      BY <1>3, <3>1
    <3>3. QED
      BY <1>5, <2>1, <2>3, <3>1, <3>2
  <2>4. QED
    BY <2>2, <2>3
<1>7. Len(a \o b) = Len(s) - 1
  BY <1>1, <1>2, <1>3, <1>5
<1> DEFINE r == a \o b
<1>8. r \in Seq(S) /\ Len(r) = Len(s) - 1
  BY <1>5, <1>7
<1>9. \A k \in 1..Len(s) - 1 : r[k] = IF k < i THEN s[k] ELSE s[k + 1]
  BY <1>6
<1> HIDE DEF r
<1>10. Shortened(r, s, i)
  BY <1>8, <1>9 DEF Shortened
<1>11. QED
  BY <1>4, <1>8, <1>10 DEF r

LEMMA ChainedRemove ==
  ASSUME NEW c, NEW K, NEW f, Chained(c, K, f), NEW i \in 1..Len(c)
  PROVE  Chained(RemoveAt(c, i), K \ {c[i].key}, f)
<1> DEFINE r == RemoveAt(c, i)
           at(k) == IF k < i THEN k ELSE k + 1
<1>1. c \in Seq(CfuEntries) /\ Len(c) \in Nat
  BY DEF Chained
<1>2. r \in Seq(CfuEntries) /\ Len(r) = Len(c) - 1
      /\ \A k \in 1..Len(c) - 1 : r[k] = IF k < i THEN c[k] ELSE c[k + 1]
  <2>1. r \in Seq(CfuEntries) /\ Shortened(r, c, i)
    BY <1>1, RemoveAtIs
  <2>2. QED
    BY <2>1 DEF Shortened
<1>3. \A k \in 1..Len(r) : r[k] = c[at(k)] /\ at(k) \in 1..Len(c) /\ at(k) # i
  BY <1>1, <1>2
<1>4. \A k, j \in 1..Len(r) : at(k) = at(j) => k = j
  BY <1>1, <1>2
<1>5. ASSUME NEW j \in 1..Len(c), j # i
      PROVE  \E k \in 1..Len(r) : at(k) = j
  <2> DEFINE k == IF j < i THEN j ELSE j - 1
  <2>1. k \in 1..Len(r) /\ at(k) = j
    BY <1>1, <1>2, <1>5
  <2>2. QED
    BY <2>1
<1> HIDE DEF r, at
<1>6. ASSUME NEW k \in 1..Len(r)
      PROVE  r[k].key \in K \ {c[i].key} /\ r[k].data = f[r[k].key]
  <2>1. PICK j \in 1..Len(c) : r[k] = c[j] /\ j # i
    BY <1>3
  <2>2. c[j].key \in K /\ c[j].data = f[c[j].key] /\ c[j].key # c[i].key
    BY <2>1 DEF Chained
  <2>3. QED
    BY <2>1, <2>2
<1>7. \A k, j \in 1..Len(r) : r[k].key = r[j].key => k = j
  BY <1>3, <1>4 DEF Chained
<1>8. ASSUME NEW k \in K \ {c[i].key}
      PROVE  \E j \in 1..Len(r) : r[j].key = k
  <2>1. PICK j \in 1..Len(c) : c[j].key = k
    BY DEF Chained
  <2>2. j # i
    BY <2>1
  <2>3. PICK m \in 1..Len(r) : at(m) = j
    BY <1>5, <2>2
  <2>4. QED
    BY <1>3, <2>1, <2>3
<1>9. Chained(r, K \ {c[i].key}, f)
  BY <1>2, <1>6, <1>7, <1>8 DEF Chained
<1>10. QED
  BY <1>9 DEF r

(* The keys of the first n entries. *)
FirstKeys(c, n) == {c[j].key : j \in 1..n}

LEMMA FirstKeysGrow ==
  ASSUME NEW c, NEW K, NEW f, Chained(c, K, f)
  PROVE  /\ FirstKeys(c, 0) = {} /\ FirstKeys(c, Len(c)) = K
         /\ \A i \in 1..Len(c) : /\ FirstKeys(c, i) = FirstKeys(c, i - 1) \cup {c[i].key}
                                 /\ c[i].key \notin FirstKeys(c, i - 1)
<1>1. Len(c) \in Nat
  BY DEF Chained
<1>2. FirstKeys(c, 0) = {}
  BY DEF FirstKeys
<1>3. FirstKeys(c, Len(c)) = K
  BY DEF FirstKeys, Chained
<1>4. ASSUME NEW i \in 1..Len(c)
      PROVE  /\ FirstKeys(c, i) = FirstKeys(c, i - 1) \cup {c[i].key}
             /\ c[i].key \notin FirstKeys(c, i - 1)
  <2>1. \A j : j \in 1..i <=> j \in 1..i - 1 \/ j = i
    BY <1>1
  <2>2. FirstKeys(c, i) = FirstKeys(c, i - 1) \cup {c[i].key}
    BY <2>1 DEF FirstKeys
  <2>3. \A j \in 1..i - 1 : j \in 1..Len(c) /\ j # i
    BY <1>1
  <2>4. QED
    BY <2>2, <2>3 DEF FirstKeys, Chained
<1>5. QED
  BY <1>2, <1>3, <1>4

----------------------------------------------------------------------------
(* The keys of K that belong into bucket b of num. *)
KeysAt(K, num, b) == {k \in K : HashValue(k, num) = b}

(* The buckets hold the keys of K, each where its lookup reads. *)
Spread(c, num, K, f) ==
  /\ c \in Chains(num) /\ K \subseteq Keys
  /\ \A b \in 0..num - 1 : Chained(c[b], KeysAt(K, num, b), f)

LEMMA HashValueIs ==
  ASSUME NEW k \in Keys, NEW num \in Nat \ {0}
  PROVE  HashValue(k, num) \in 0..num - 1
<1>1. KeyHash[k] \in Nat
  BY KeysAssumption
<1> DEFINE n == KeyHash[k]
<1> HIDE DEF n
<1>2. (n % num) \in 0..num - 1
  BY <1>1 DEF n
<1>3. QED
  BY <1>2 DEF HashValue, n

(* Other keys and their data where b is not their bucket. *)
Apart(num, b, K, f, L, g) ==
  \A k \in Keys : HashValue(k, num) # b => ((k \in K) <=> (k \in L)) /\ (k \in K => g[k] = f[k])

(* One bucket changes. *)
LEMMA SpreadAt ==
  ASSUME NEW num \in Nat \ {0}, NEW c, NEW K, NEW f, Spread(c, num, K, f),
         NEW b \in 0..num - 1, NEW L, L \subseteq Keys, NEW g, NEW r, Apart(num, b, K, f, L, g),
         Chained(r, KeysAt(L, num, b), g)
  PROVE  Spread([c EXCEPT ![b] = r], num, L, g)
<1>1. c \in [0..num - 1 -> Seq(CfuEntries)] /\ K \subseteq Keys
  BY DEF Spread, Chains
<1>2. r \in Seq(CfuEntries)
  BY DEF Chained
<1> DEFINE n == [c EXCEPT ![b] = r]
<1>3. n \in Chains(num)
  BY <1>1, <1>2 DEF Chains
<1>4. ASSUME NEW a \in 0..num - 1
      PROVE  Chained(n[a], KeysAt(L, num, a), g)
  <2>1. CASE a = b
    <3>1. n[a] = r
      BY <1>1, <2>1
    <3>2. QED
      BY <2>1, <3>1
  <2>2. CASE a # b
    <3>1. n[a] = c[a]
      BY <1>1, <2>2
    <3>2. KeysAt(L, num, a) = KeysAt(K, num, a)
      <4>1. \A k \in Keys : HashValue(k, num) = a => ((k \in K) <=> (k \in L))
        BY <2>2 DEF Apart
      <4>2. QED
        BY <1>1, <4>1 DEF KeysAt
    <3>3. \A k \in KeysAt(K, num, a) : g[k] = f[k]
      <4>1. SUFFICES ASSUME NEW k \in KeysAt(K, num, a)
                     PROVE  g[k] = f[k]
        OBVIOUS
      <4>2. k \in K /\ k \in Keys /\ HashValue(k, num) # b
        BY <1>1, <2>2 DEF KeysAt
      <4>3. QED
        BY <4>2 DEF Apart
    <3>4. Chained(c[a], KeysAt(K, num, a), f)
      BY DEF Spread
    <3>5. Chained(c[a], KeysAt(K, num, a), g)
      BY <3>3, <3>4, ChainedLike
    <3>6. QED
      BY <3>1, <3>2, <3>5
  <2>3. QED
    BY <2>1, <2>2
<1>5. QED
  BY <1>3, <1>4 DEF Spread

(* hash_add_entry() *)
LEMMA SpreadAdd ==
  ASSUME NEW num \in Nat \ {0}, NEW c, NEW K, NEW f, Spread(c, num, K, f), NEW e \in CfuEntries,
         e.key \notin K, NEW g, g[e.key] = e.data, \A k \in K : g[k] = f[k]
  PROVE  /\ HashValue(e.key, num) \in 0..num - 1
         /\ Spread([c EXCEPT ![HashValue(e.key, num)] = <<e>> \o c[HashValue(e.key, num)]],
                   num, K \cup {e.key}, g)
<1> DEFINE k == e.key
           b == HashValue(k, num)
           r == <<e>> \o c[b]
           n == [c EXCEPT ![b] = r]
<1>1. k \in Keys
  BY DEF CfuEntries
<1>2. b \in 0..num - 1
  BY <1>1, HashValueIs
<1>3. c \in [0..num - 1 -> Seq(CfuEntries)] /\ K \subseteq Keys /\ Chained(c[b], KeysAt(K, num, b), f)
  BY <1>2 DEF Spread, Chains
<1>4. Chained(c[b], KeysAt(K, num, b), g)
  <2>1. \A j \in KeysAt(K, num, b) : g[j] = f[j]
    BY DEF KeysAt
  <2>2. QED
    BY <1>3, <2>1, ChainedLike
<1>5. Chained(<<e>>, {k}, g)
  BY ChainedOne
<1>6. {k} \cap KeysAt(K, num, b) = {}
  BY DEF KeysAt
<1>7. KeysAt(K \cup {k}, num, b) = {k} \cup KeysAt(K, num, b)
  BY DEF KeysAt
<1>8. Chained(r, KeysAt(K \cup {k}, num, b), g)
  <2> HIDE DEF b, k
  <2>1. QED
    BY <1>4, <1>5, <1>6, <1>7, ChainedJoin, SMTT(30)
<1>9. Apart(num, b, K, f, K \cup {k}, g)
  BY DEF Apart
<1>10. K \cup {k} \subseteq Keys
  BY <1>1, <1>3
<1> HIDE DEF b, r, k
<1>11. Spread(n, num, K \cup {k}, g)
  BY <1>2, <1>8, <1>9, <1>10, SpreadAt
<1>12. QED
  BY <1>2, <1>11 DEF k, b, r

(* The buckets of a new table. *)
LEMMA SpreadEmpty ==
  ASSUME NEW num \in Nat \ {0}, NEW f
  PROVE  Spread([b \in 0..num - 1 |-> <<>>], num, {}, f)
<1> DEFINE c == [b \in 0..num - 1 |-> <<>>]
<1>1. c \in Chains(num)
  <2>1. <<>> \in Seq(CfuEntries)
    OBVIOUS
  <2>2. QED
    BY <2>1 DEF Chains
<1>2. \A b \in 0..num - 1 : c[b] = <<>> /\ KeysAt({}, num, b) = {}
  BY DEF KeysAt
<1> HIDE DEF c
<1>3. \A b \in 0..num - 1 : Chained(c[b], KeysAt({}, num, b), f)
  BY <1>2, ChainedEmpty
<1>4. Spread(c, num, {}, f)
  BY <1>1, <1>3 DEF Spread
<1>5. QED
  BY <1>4 DEF c

(* The keys of the first n buckets. *)
KeysBelow(K, num, n) == {k \in K : HashValue(k, num) < n}

(* All buckets, one after the other. *)
LEMMA InOrderIs ==
  ASSUME NEW h, NEW K, NEW f, h.num_buckets \in Nat \ {0}, Spread(h.buckets, h.num_buckets, K, f)
  PROVE  Chained(InOrder(h), K, f)
<1> DEFINE num == h.num_buckets
           S == Seq(CfuEntries)
           step == [b \in 1..num |-> [c \in Seq(CfuEntries) |-> c \o h.buckets[b - 1]]]
           Q == {q \in Nat \X S : Chained(q[2], KeysBelow(K, num, q[1]), f)}
<1>1. num \in Nat \ {0} /\ K \subseteq Keys /\ \A b \in 0..num - 1 : Chained(h.buckets[b], KeysAt(K, num, b), f)
  BY DEF Spread
<1>2. \A i \in Nat, c \in S : <<i, c>> \in Q <=> Chained(c, KeysBelow(K, num, i), f)
  OBVIOUS
<1>3. \A i \in 1..num, c \in S : step[i][c] = c \o h.buckets[i - 1]
  OBVIOUS
<1>4. Q \in SUBSET (Nat \X S) /\ <<>> \in S
  OBVIOUS
<1>5. InOrder(h) = Repeat(num, step, <<>>)
  BY DEF InOrder
<1>6. \A k \in K : HashValue(k, num) \in 0..num - 1
  BY <1>1, HashValueIs
<1> HIDE DEF Q, step, S, num
<1>7. <<0, <<>>>> \in Q
  <2>1. KeysBelow(K, num, 0) = {}
    BY <1>1, <1>6 DEF KeysBelow
  <2>2. QED
    BY <1>2, <1>4, <2>1, ChainedEmpty
<1>8. RepeatKeeps(num, S, Q, step)
  <2>1. SUFFICES ASSUME NEW i \in 1..num, NEW c \in S, <<i - 1, c>> \in Q
                 PROVE  <<i, step[i][c]>> \in Q
    BY DEF RepeatKeeps
  <2>2. i \in Nat /\ i - 1 \in Nat /\ i - 1 \in 0..num - 1
    BY <1>1
  <2>3. Chained(c, KeysBelow(K, num, i - 1), f)
    BY <1>2, <2>1, <2>2
  <2>4. Chained(h.buckets[i - 1], KeysAt(K, num, i - 1), f)
    BY <1>1, <2>2
  <2>5. /\ KeysBelow(K, num, i - 1) \cap KeysAt(K, num, i - 1) = {}
        /\ KeysBelow(K, num, i - 1) \cup KeysAt(K, num, i - 1) = KeysBelow(K, num, i)
    <3>1. \A k \in K : HashValue(k, num) \in Nat
      BY <1>1, <1>6
    <3>2. \A k \in K : HashValue(k, num) < i <=> HashValue(k, num) < i - 1 \/ HashValue(k, num) = i - 1
      BY <2>2, <3>1
    <3>3. \A k \in K : ~(HashValue(k, num) < i - 1 /\ HashValue(k, num) = i - 1)
      BY <2>2, <3>1
    <3>4. QED
      BY <3>2, <3>3 DEF KeysBelow, KeysAt
  <2>6. Chained(c \o h.buckets[i - 1], KeysBelow(K, num, i), f)
    BY <2>3, <2>4, <2>5, ChainedJoin
  <2>7. c \o h.buckets[i - 1] \in S
    BY <2>6 DEF Chained, S
  <2>8. QED
    BY <1>2, <1>3, <2>2, <2>6, <2>7
<1>9. <<num, InOrder(h)>> \in Q
  BY <1>1, <1>4, <1>5, <1>7, <1>8, RepeatEnds
<1>10. InOrder(h) \in S
  BY <1>4, <1>9
<1>11. KeysBelow(K, num, num) = K
  BY <1>1, <1>6 DEF KeysBelow
<1>12. QED
  BY <1>1, <1>2, <1>9, <1>10, <1>11

----------------------------------------------------------------------------
(* The entries of all, each at the head of its bucket in turn. *)
LEMMA Respread ==
  ASSUME NEW size \in Nat \ {0}, NEW all, NEW K, NEW f, Chained(all, K, f)
  PROVE  Spread(Repeat(Len(all),
                  [i \in 1..Len(all) |-> [c \in Chains(size) |->
                     [c EXCEPT ![HashValue(all[i].key, size)] = <<all[i]>> \o @]]],
                  [b \in 0..size - 1 |-> <<>>]), size, K, f)
<1> DEFINE V == Chains(size)
           x == [b \in 0..size - 1 |-> <<>>]
           step == [i \in 1..Len(all) |-> [c \in Chains(size) |->
                      [c EXCEPT ![HashValue(all[i].key, size)] = <<all[i]>> \o @]]]
           Q == {q \in Nat \X V : Spread(q[2], size, FirstKeys(all, q[1]), f)}
<1>1. Len(all) \in Nat /\ all \in Seq(CfuEntries)
  BY ChainedLen DEF Chained
<1>2. \A i \in Nat, c \in V : <<i, c>> \in Q <=> Spread(c, size, FirstKeys(all, i), f)
  OBVIOUS
<1>3. \A i \in 1..Len(all), c \in V :
        step[i][c] = [c EXCEPT ![HashValue(all[i].key, size)] = <<all[i]>> \o c[HashValue(all[i].key, size)]]
  OBVIOUS
<1>4. Q \in SUBSET (Nat \X V)
  OBVIOUS
<1>5. Spread(x, size, {}, f)
  BY SpreadEmpty
<1> HIDE DEF step, Q, V, x
<1>6. <<0, x>> \in Q
  <2>1. FirstKeys(all, 0) = {}
    BY FirstKeysGrow
  <2>2. x \in V
    BY <1>5 DEF Spread, V
  <2>3. QED
    BY <1>2, <1>5, <2>1, <2>2
<1>7. RepeatKeeps(Len(all), V, Q, step)
  <2>1. SUFFICES ASSUME NEW i \in 1..Len(all), NEW c \in V, <<i - 1, c>> \in Q
                 PROVE  <<i, step[i][c]>> \in Q
    BY DEF RepeatKeeps
  <2>2. i \in Nat /\ i - 1 \in Nat
    BY <1>1
  <2>3. Spread(c, size, FirstKeys(all, i - 1), f)
    BY <1>2, <2>1, <2>2
  <2>4. /\ FirstKeys(all, i) = FirstKeys(all, i - 1) \cup {all[i].key}
        /\ all[i].key \notin FirstKeys(all, i - 1)
    BY FirstKeysGrow
  <2>5. all[i] \in CfuEntries /\ f[all[i].key] = all[i].data
    BY <1>1 DEF Chained
  <2>6. Spread([c EXCEPT ![HashValue(all[i].key, size)] = <<all[i]>> \o c[HashValue(all[i].key, size)]],
               size, FirstKeys(all, i), f)
    BY <2>3, <2>4, <2>5, SpreadAdd
  <2>7. Spread(step[i][c], size, FirstKeys(all, i), f)
    BY <1>3, <2>6
  <2>8. step[i][c] \in V
    BY <2>7 DEF Spread, V
  <2>9. QED
    BY <1>2, <2>2, <2>7, <2>8
<1>8. <<Len(all), Repeat(Len(all), step, x)>> \in Q
  BY <1>1, <1>4, <1>6, <1>7, RepeatEnds
<1>9. Repeat(Len(all), step, x) \in V
  BY <1>4, <1>8
<1>10. FirstKeys(all, Len(all)) = K
  BY FirstKeysGrow
<1>11. Spread(Repeat(Len(all), step, x), size, K, f)
  BY <1>1, <1>2, <1>8, <1>9, <1>10
<1>12. QED
  BY <1>11 DEF step, x

(* The fields of a table. *)
Shells ==
  [num_buckets : Nat \ {0}, entries : Nat, frozen : BOOLEAN,
   buckets : UNION {Chains(n) : n \in Nat \ {0}}, resized : BOOLEAN]

(* The data of keys. *)
IsData(f) == f \in [DOMAIN f -> CfuData]

(* The contents of the table h are f. *)
Holding(h, f) ==
  /\ h \in Shells /\ IsData(f)
  /\ Spread(h.buckets, h.num_buckets, DOMAIN f, f)

LEMMA RehashHolds ==
  ASSUME NEW h, NEW f, Holding(h, f)
  PROVE  /\ Holding(Rehash(h), f)
         /\ Rehash(h).entries = h.entries /\ Rehash(h).frozen = h.frozen
         /\ Rehash(h).num_buckets = HashSize(2 * h.entries)
<1> DEFINE size == HashSize(2 * h.entries)
           all == InOrder(h)
           B == Repeat(Len(all),
                  [i \in 1..Len(all) |-> [c \in Chains(size) |->
                     [c EXCEPT ![HashValue(all[i].key, size)] = <<all[i]>> \o @]]],
                  [b \in 0..size - 1 |-> <<>>])
<1>1. h \in Shells /\ IsData(f) /\ Spread(h.buckets, h.num_buckets, DOMAIN f, f)
  BY DEF Holding
<1>2. h.num_buckets \in Nat \ {0} /\ h.entries \in Nat
  BY <1>1 DEF Shells
<1>3. size \in Nat \ {0}
  <2>1. 2 * h.entries \in Nat
    BY <1>2
  <2>2. QED
    BY <2>1, HashSizeIs
<1>4. Rehash(h) = IF size = h.num_buckets THEN h
                  ELSE [h EXCEPT !.num_buckets = size, !.resized = TRUE, !.buckets = B]
  BY DEF Rehash
<1>5. Chained(all, DOMAIN f, f)
  BY <1>1, <1>2, InOrderIs
<1> HIDE DEF all
<1>6. Spread(B, size, DOMAIN f, f)
  <2> HIDE DEF size
  <2>1. QED
    BY <1>3, <1>5, Respread
<1>7. B \in Chains(size)
  BY <1>6 DEF Spread
<1> HIDE DEF B, size
<1>8. CASE size = h.num_buckets
  BY <1>4, <1>8 DEF size
<1>9. CASE size # h.num_buckets
  <2>1. B \in UNION {Chains(n) : n \in Nat \ {0}}
    BY <1>3, <1>7
  <2> DEFINE r == [h EXCEPT !.num_buckets = size, !.resized = TRUE, !.buckets = B]
  <2>2. /\ r \in Shells /\ r.num_buckets = size /\ r.buckets = B
        /\ r.entries = h.entries /\ r.frozen = h.frozen
    BY <1>1, <1>3, <2>1 DEF Shells
  <2>3. Rehash(h) = r
    BY <1>4, <1>9
  <2> HIDE DEF r
  <2>4. Holding(r, f)
    BY <1>1, <1>6, <2>2 DEF Holding
  <2>5. QED
    BY <2>2, <2>3, <2>4 DEF size
<1>10. QED
  BY <1>8, <1>9

LEMMA GrowHolds ==
  ASSUME NEW h, NEW f, Holding(h, f)
  PROVE  /\ Holding(GrowIfFull(h), f)
         /\ GrowIfFull(h).entries = h.entries /\ GrowIfFull(h).frozen = h.frozen
         /\ ~h.frozen => 4 * GrowIfFull(h).entries <= 3 * GrowIfFull(h).num_buckets
<1>1. h.entries \in Nat /\ h.num_buckets \in Nat /\ 2 * h.entries \in Nat
  BY DEF Holding, Shells
<1>2. CASE ~h.frozen /\ 4 * h.entries > 3 * h.num_buckets
  <2>1. GrowIfFull(h) = Rehash(h)
    BY <1>2 DEF GrowIfFull
  <2>2. HashSize(2 * h.entries) \in Nat /\ HashSize(2 * h.entries) >= 2 * h.entries
    BY <1>1, HashSizeIs
  <2>3. Rehash(h).entries = h.entries /\ Rehash(h).num_buckets >= 2 * h.entries /\ Rehash(h).num_buckets \in Nat
    BY <2>2, RehashHolds
  <2>4. 4 * Rehash(h).entries <= 3 * Rehash(h).num_buckets
    BY <1>1, <2>3
  <2>5. QED
    BY <2>1, <2>4, RehashHolds
<1>3. CASE ~(~h.frozen /\ 4 * h.entries > 3 * h.num_buckets)
  <2>1. GrowIfFull(h) = h
    BY <1>3 DEF GrowIfFull
  <2>2. ~h.frozen => 4 * h.entries <= 3 * h.num_buckets
    BY <1>1, <1>3
  <2>3. QED
    BY <2>1, <2>2
<1>4. QED
  BY <1>2, <1>3

LEMMA ShrinkHolds ==
  ASSUME NEW h, NEW f, Holding(h, f)
  PROVE  Holding(ShrinkIfSparse(h), f) /\ ShrinkIfSparse(h).entries = h.entries
<1>1. ShrinkIfSparse(h) = Rehash(h) \/ ShrinkIfSparse(h) = h
  BY DEF ShrinkIfSparse
<1>2. QED
  BY <1>1, RehashHolds

(* What a lookup needs to know of the bucket that it reads. *)
LEMMA BucketIs ==
  ASSUME NEW h, NEW f, Holding(h, f), NEW k \in Keys
  PROVE  /\ h.num_buckets \in Nat \ {0}
         /\ HashValue(k, h.num_buckets) \in 0..h.num_buckets - 1
         /\ Chained(Bucket(h, k), KeysAt(DOMAIN f, h.num_buckets, HashValue(k, h.num_buckets)), f)
         /\ (k \in KeysAt(DOMAIN f, h.num_buckets, HashValue(k, h.num_buckets))) <=> (k \in DOMAIN f)
<1>1. h.num_buckets \in Nat \ {0} /\ Spread(h.buckets, h.num_buckets, DOMAIN f, f)
  BY DEF Holding, Shells
<1>2. HashValue(k, h.num_buckets) \in 0..h.num_buckets - 1
  BY <1>1, HashValueIs
<1>3. Chained(h.buckets[HashValue(k, h.num_buckets)],
              KeysAt(DOMAIN f, h.num_buckets, HashValue(k, h.num_buckets)), f)
  BY <1>1, <1>2 DEF Spread
<1>4. QED
  BY <1>1, <1>2, <1>3 DEF Bucket, KeysAt

LEMMA PlaceIs ==
  ASSUME NEW h, NEW f, Holding(h, f), NEW k \in Keys
  PROVE  /\ k \notin DOMAIN f => Place(h, k) = 0
         /\ k \in DOMAIN f => /\ Place(h, k) # 0
                              /\ Place(h, k) \in 1..Len(Bucket(h, k))
                              /\ Bucket(h, k)[Place(h, k)].key = k
                              /\ Bucket(h, k)[Place(h, k)].data = f[k]
<1> DEFINE c == Bucket(h, k)
           K == KeysAt(DOMAIN f, h.num_buckets, HashValue(k, h.num_buckets))
<1>1. Chained(c, K, f) /\ ((k \in K) <=> (k \in DOMAIN f))
  BY BucketIs
<1>2. Place(h, k) = IF PlacesOf(c, k) = {} THEN 0 ELSE Min(PlacesOf(c, k))
  BY DEF Place, PlacesOf
<1> HIDE DEF c, K
<1>3. CASE k \notin DOMAIN f
  <2>1. PlacesOf(c, k) = {}
    BY <1>1, <1>3, ChainedPlace
  <2>2. QED
    BY <1>2, <1>3, <2>1
<1>4. CASE k \in DOMAIN f
  <2>1. PICK i \in 1..Len(c) : PlacesOf(c, k) = {i} /\ Min(PlacesOf(c, k)) = i
                               /\ c[i].key = k /\ c[i].data = f[k]
    BY <1>1, <1>4, ChainedPlace
  <2>2. Place(h, k) = i /\ i # 0
    BY <1>2, <2>1
  <2>3. QED
    BY <1>4, <2>1, <2>2 DEF c
<1>5. QED
  BY <1>3, <1>4

(* cfuhash_get_data() *)
LEMMA GetIs ==
  ASSUME NEW h, NEW f, Holding(h, f), NEW k \in Keys
  PROVE  /\ CfuGet(h, k) = IF k \in DOMAIN f THEN f[k] ELSE NoKey
         /\ (CfuGet(h, k) = NoKey) <=> (k \notin DOMAIN f)
<1>1. CfuGet(h, k) = IF k \in DOMAIN f THEN f[k] ELSE NoKey
  BY PlaceIs DEF CfuGet
<1>2. \A j \in DOMAIN f : f[j] \in CfuData
  BY DEF Holding, IsData
<1>3. QED
  BY <1>1, <1>2, CfuAssumption

(* What is stored is what lookups find. *)
LEMMA ContentsIs ==
  ASSUME NEW h, NEW f, Holding(h, f)
  PROVE  /\ DOMAIN f \subseteq Keys /\ Stored(h) = DOMAIN f /\ Contents(h) = f
         /\ \A k \in DOMAIN f : CfuGet(h, k) = f[k]
<1> DEFINE num == h.num_buckets
<1>1. num \in Nat \ {0} /\ Spread(h.buckets, num, DOMAIN f, f) /\ DOMAIN f \subseteq Keys
      /\ IsData(f)
  BY DEF Holding, Shells, Spread
<1>2. DOMAIN h.buckets = 0..num - 1 /\ \A b \in 0..num - 1 : DOMAIN h.buckets[b] = 1..Len(h.buckets[b])
  <2>1. h.buckets \in [0..num - 1 -> Seq(CfuEntries)]
    BY <1>1 DEF Spread, Chains
  <2>2. QED
    BY <2>1
<1>3. \A k : k \in Stored(h) <=> \E b \in 0..num - 1 : \E i \in 1..Len(h.buckets[b]) : h.buckets[b][i].key = k
  BY <1>2 DEF Stored, Range
<1>4. \A k : k \in Stored(h) <=> k \in DOMAIN f
  <2>1. ASSUME NEW k \in Stored(h)
        PROVE  k \in DOMAIN f
    <3>1. PICK b \in 0..num - 1 : \E i \in 1..Len(h.buckets[b]) : h.buckets[b][i].key = k
      BY <1>3
    <3>2. PICK i \in 1..Len(h.buckets[b]) : h.buckets[b][i].key = k
      BY <3>1
    <3>3. Chained(h.buckets[b], KeysAt(DOMAIN f, num, b), f)
      BY <1>1 DEF Spread
    <3>4. k \in KeysAt(DOMAIN f, num, b)
      BY <3>2, <3>3 DEF Chained
    <3>5. QED
      BY <3>4 DEF KeysAt
  <2>2. ASSUME NEW k \in DOMAIN f
        PROVE  k \in Stored(h)
    <3>1. k \in Keys
      BY <1>1
    <3>2. HashValue(k, num) \in 0..num - 1
      BY <1>1, <3>1, HashValueIs
    <3>3. Chained(h.buckets[HashValue(k, num)], KeysAt(DOMAIN f, num, HashValue(k, num)), f)
      BY <1>1, <3>2 DEF Spread
    <3>4. k \in KeysAt(DOMAIN f, num, HashValue(k, num))
      BY DEF KeysAt
    <3>5. \E i \in 1..Len(h.buckets[HashValue(k, num)]) : h.buckets[HashValue(k, num)][i].key = k
      BY <3>3, <3>4 DEF Chained
    <3>6. QED
      BY <1>3, <3>2, <3>5
  <2>3. QED
    BY <2>1, <2>2
<1>5. Stored(h) = DOMAIN f
  BY <1>4
<1>6. \A k \in DOMAIN f : CfuGet(h, k) = f[k]
  BY <1>1, GetIs
<1>7. Contents(h) = f
  BY <1>1, <1>5, <1>6 DEF Contents, IsData
<1>8. QED
  BY <1>1, <1>5, <1>6, <1>7

----------------------------------------------------------------------------
(* Another data for a key. *)
PutIn(f, k, d) == [j \in DOMAIN f \cup {k} |-> IF j = k THEN d ELSE f[j]]

Lacking(f, ks) == [j \in DOMAIN f \ ks |-> f[j]]

(* A table with other buckets and another count. *)
Shelled(h, c, n) == [h EXCEPT !.buckets = c, !.entries = n]

LEMMA ShellIs ==
  ASSUME NEW h \in Shells, NEW c \in Chains(h.num_buckets), NEW n \in Nat
  PROVE  /\ Shelled(h, c, n) \in Shells /\ Shelled(h, c, n).num_buckets = h.num_buckets
         /\ Shelled(h, c, n).buckets = c /\ Shelled(h, c, n).entries = n
         /\ Shelled(h, c, n).frozen = h.frozen
<1>1. h.num_buckets \in Nat \ {0}
  BY DEF Shells
<1>2. c \in UNION {Chains(m) : m \in Nat \ {0}}
  BY <1>1
<1>3. QED
  BY <1>2 DEF Shells, Shelled

(* The buckets with the one of k changed. *)
Rechained(h, k, c) == [h.buckets EXCEPT ![HashValue(k, h.num_buckets)] = c]

LEMMA SetBucketIs ==
  ASSUME NEW h \in Shells, NEW k, NEW c
  PROVE  /\ SetBucket(h, k, c) = Shelled(h, Rechained(h, k, c), h.entries)
         /\ \A n : [SetBucket(h, k, c) EXCEPT !.entries = n] = Shelled(h, Rechained(h, k, c), n)
         /\ SetBucket(h, k, c).entries = h.entries
BY DEF SetBucket, Shells, Shelled, Rechained

(* cfuhash_put_data() of a key that is there. *)
LEMMA PutOldIs ==
  ASSUME NEW h, NEW f, Holding(h, f), NEW k \in Keys, NEW d \in CfuData, k \in DOMAIN f
  PROVE  /\ Holding(CfuPut(h, k, d).h, PutIn(f, k, d))
         /\ CfuPut(h, k, d).h.entries = h.entries
         /\ CfuPut(h, k, d).ret = 0 /\ CfuPut(h, k, d).old = CfuGet(h, k)
<1> DEFINE num == h.num_buckets
           b == HashValue(k, num)
           c == Bucket(h, k)
           e == [key |-> k, data |-> d]
           r == [c EXCEPT ![Place(h, k)] = e]
           B == Rechained(h, k, r)
           g == PutIn(f, k, d)
<1>1. h \in Shells /\ IsData(f) /\ Spread(h.buckets, num, DOMAIN f, f) /\ DOMAIN f \subseteq Keys
  BY DEF Holding, Spread
<1>2. /\ num \in Nat \ {0} /\ b \in 0..num - 1 /\ Chained(c, KeysAt(DOMAIN f, num, b), f)
  BY BucketIs
<1>3. Place(h, k) # 0 /\ Place(h, k) \in 1..Len(c) /\ c[Place(h, k)].key = k
  BY PlaceIs
<1>4. /\ DOMAIN g = DOMAIN f \cup {k} /\ IsData(g) /\ g[k] = d
      /\ \A j \in DOMAIN f : j # k => g[j] = f[j]
  <2>1. IsData(f)
    BY <1>1
  <2> HIDE DEF num, e
  <2>2. /\ DOMAIN PutIn(f, k, d) = DOMAIN f \cup {k} /\ IsData(PutIn(f, k, d)) /\ PutIn(f, k, d)[k] = d
        /\ \A j \in DOMAIN f : j # k => PutIn(f, k, d)[j] = f[j]
    BY <2>1 DEF PutIn, IsData
  <2>3. QED
    BY <2>2
<1>5. DOMAIN g = DOMAIN f
  BY <1>4
<1>6. e \in CfuEntries /\ e.key = k /\ e.data = d
  BY DEF CfuEntries
<1>7. CfuPut(h, k, d) = [h |-> SetBucket(h, k, r), ret |-> 0, old |-> CfuGet(h, k)]
  BY <1>3 DEF CfuPut
<1> HIDE DEF num, b, c, e, g
<1>8. Chained(r, KeysAt(DOMAIN g, num, b), g)
  <2>1. \A j \in KeysAt(DOMAIN f, num, b) : j # e.key => g[j] = f[j]
    BY <1>4, <1>6 DEF KeysAt
  <2> DEFINE i == Place(h, k)
  <2>2. i \in 1..Len(c) /\ e.key = c[i].key /\ g[e.key] = e.data
    BY <1>3, <1>4, <1>6
  <2> HIDE DEF i
  <2>3. Chained([c EXCEPT ![i] = e], KeysAt(DOMAIN f, num, b), g)
    BY <1>2, <1>6, <2>1, <2>2, ChainedSet
  <2>4. QED
    BY <1>5, <2>3 DEF i
<1> HIDE DEF r
<1>9. Apart(num, b, DOMAIN f, f, DOMAIN g, g)
  BY <1>4, <1>5 DEF Apart, b
<1>10. Spread(B, num, DOMAIN g, g)
  <2> DEFINE o == h.buckets
  <2>1. DOMAIN g \subseteq Keys
    BY <1>1, <1>5
  <2> HIDE DEF o
  <2>2. Spread([o EXCEPT ![b] = r], num, DOMAIN g, g)
    BY <1>1, <1>2, <1>8, <1>9, <2>1, SpreadAt DEF o
  <2>3. QED
    BY <2>2 DEF Rechained, b, num, o
<1>11. B \in Chains(num)
  BY <1>10 DEF Spread
<1> HIDE DEF B
<1> DEFINE t == Shelled(h, B, h.entries)
<1>12. SetBucket(h, k, r) = t
  BY <1>1, SetBucketIs DEF B
<1>13. h.entries \in Nat
  BY <1>1 DEF Shells
<1>14. t \in Shells /\ t.num_buckets = num /\ t.buckets = B /\ t.entries = h.entries
  BY <1>1, <1>11, <1>13, ShellIs DEF num
<1> HIDE DEF t
<1>15. Holding(t, g)
  BY <1>4, <1>10, <1>14 DEF Holding
<1>16. QED
  BY <1>7, <1>12, <1>14, <1>15 DEF g

(* cfuhash_put_data() of a new key. *)
LEMMA PutNewIs ==
  ASSUME NEW h, NEW f, Holding(h, f), NEW k \in Keys, NEW d \in CfuData, k \notin DOMAIN f
  PROVE  /\ Holding(CfuPut(h, k, d).h, PutIn(f, k, d))
         /\ CfuPut(h, k, d).h.entries = h.entries + 1
         /\ CfuPut(h, k, d).ret = 1 /\ CfuPut(h, k, d).old = CfuGet(h, k)
         /\ ~h.frozen => 4 * CfuPut(h, k, d).h.entries <= 3 * CfuPut(h, k, d).h.num_buckets
<1> DEFINE num == h.num_buckets
           b == HashValue(k, num)
           e == [key |-> k, data |-> d]
           r == <<e>> \o Bucket(h, k)
           B == Rechained(h, k, r)
           g == PutIn(f, k, d)
           n == h.entries + 1
           t == Shelled(h, B, n)
<1>1. h \in Shells /\ IsData(f) /\ Spread(h.buckets, num, DOMAIN f, f)
  BY DEF Holding
<1>2. num \in Nat \ {0} /\ n \in Nat
  BY <1>1 DEF Shells
<1>3. Place(h, k) = 0 /\ CfuGet(h, k) = NoKey
  BY PlaceIs, GetIs
<1>4. /\ DOMAIN g = DOMAIN f \cup {k} /\ IsData(g) /\ g[k] = d
      /\ \A j \in DOMAIN f : j # k => g[j] = f[j]
  <2>1. IsData(f)
    BY <1>1
  <2> HIDE DEF num, e
  <2>2. /\ DOMAIN PutIn(f, k, d) = DOMAIN f \cup {k} /\ IsData(PutIn(f, k, d)) /\ PutIn(f, k, d)[k] = d
        /\ \A j \in DOMAIN f : j # k => PutIn(f, k, d)[j] = f[j]
    BY <2>1 DEF PutIn, IsData
  <2>3. QED
    BY <2>2
<1>5. e \in CfuEntries /\ e.key = k /\ e.data = d
  BY DEF CfuEntries
<1>6. CfuPut(h, k, d) = [h |-> GrowIfFull([SetBucket(h, k, r) EXCEPT !.entries = @ + 1]), ret |-> 1, old |-> NoKey]
  BY <1>3 DEF CfuPut
<1>7. [SetBucket(h, k, r) EXCEPT !.entries = @ + 1] = t
  <2> HIDE DEF r
  <2>1. SetBucket(h, k, r).entries = h.entries
    BY <1>1, SetBucketIs
  <2>2. [SetBucket(h, k, r) EXCEPT !.entries = n] = t
    BY <1>1, SetBucketIs
  <2>3. QED
    BY <2>1, <2>2
<1>8. Spread(B, num, DOMAIN g, g)
  <2>1. g[e.key] = e.data /\ e.key \notin DOMAIN f /\ \A j \in DOMAIN f : g[j] = f[j]
    BY <1>4, <1>5
  <2>2. Bucket(h, k) = h.buckets[HashValue(e.key, num)]
    BY <1>5 DEF Bucket
  <2> HIDE DEF num, e, g
  <2>3. Spread([h.buckets EXCEPT ![HashValue(e.key, num)] = <<e>> \o h.buckets[HashValue(e.key, num)]],
               num, DOMAIN f \cup {e.key}, g)
    BY <1>1, <1>2, <1>5, <2>1, SpreadAdd
  <2>4. QED
    BY <1>4, <1>5, <2>2, <2>3 DEF Rechained, num, e
<1> HIDE DEF r, e
<1>9. B \in Chains(num)
  BY <1>8 DEF Spread
<1> HIDE DEF B, n, g
<1>10. t \in Shells /\ t.num_buckets = num /\ t.buckets = B /\ t.entries = n /\ t.frozen = h.frozen
  BY <1>1, <1>2, <1>9, ShellIs
<1> HIDE DEF t, num
<1>11. Holding(t, g)
  BY <1>4, <1>8, <1>10 DEF Holding
<1>12. /\ Holding(GrowIfFull(t), g)
       /\ GrowIfFull(t).entries = t.entries
       /\ ~t.frozen => 4 * GrowIfFull(t).entries <= 3 * GrowIfFull(t).num_buckets
  BY <1>11, GrowHolds
<1>13. CfuPut(h, k, d) = [h |-> GrowIfFull(t), ret |-> 1, old |-> NoKey]
  BY <1>6, <1>7
<1>14. QED
  BY <1>3, <1>10, <1>12, <1>13 DEF g, n

----------------------------------------------------------------------------
(* cfuhash_put_data() *)
LEMMA PutIs ==
  ASSUME NEW h, NEW f, Holding(h, f), NEW k \in Keys, NEW d \in CfuData
  PROVE  /\ Holding(CfuPut(h, k, d).h, PutIn(f, k, d))
         /\ CfuPut(h, k, d).h.entries = IF k \in DOMAIN f THEN h.entries ELSE h.entries + 1
         /\ CfuPut(h, k, d).old = CfuGet(h, k)
         /\ CfuPut(h, k, d).ret = 1 /\ ~h.frozen =>
              4 * CfuPut(h, k, d).h.entries <= 3 * CfuPut(h, k, d).h.num_buckets
<1>1. CASE k \in DOMAIN f
  BY <1>1, PutOldIs
<1>2. CASE k \notin DOMAIN f
  BY <1>2, PutNewIs
<1>3. QED
  BY <1>1, <1>2

LEMMA WithoutIs ==
  ASSUME NEW f, IsData(f), NEW ks
  PROVE  DOMAIN Lacking(f, ks) = DOMAIN f \ ks /\ IsData(Lacking(f, ks))
BY DEF Lacking, IsData

LEMMA WithoutNone ==
  ASSUME NEW f, IsData(f), NEW k, k \notin DOMAIN f
  PROVE  Lacking(f, {k}) = f
<1>1. DOMAIN f \ {k} = DOMAIN f
  OBVIOUS
<1>2. f = [j \in DOMAIN f |-> f[j]]
  BY DEF IsData
<1>3. QED
  BY <1>1, <1>2 DEF Lacking

(* cfuhash_delete_data() *)
LEMMA DeleteIs ==
  ASSUME NEW h, NEW f, Holding(h, f), NEW k \in Keys, k \in DOMAIN f => h.entries # 0
  PROVE  /\ Holding(CfuDelete(h, k).h, Lacking(f, {k}))
         /\ CfuDelete(h, k).h.entries = IF k \in DOMAIN f THEN h.entries - 1 ELSE h.entries
         /\ (CfuDelete(h, k).ret = NoKey) <=> (k \notin DOMAIN f)
<1> DEFINE num == h.num_buckets
           b == HashValue(k, num)
           c == Bucket(h, k)
           r == RemoveAt(c, Place(h, k))
           B == Rechained(h, k, r)
           g == Lacking(f, {k})
           n == h.entries - 1
           t == Shelled(h, B, n)
<1>1. h \in Shells /\ IsData(f) /\ Spread(h.buckets, num, DOMAIN f, f) /\ DOMAIN f \subseteq Keys
  BY DEF Holding, Spread
<1>2. num \in Nat \ {0} /\ b \in 0..num - 1 /\ Chained(c, KeysAt(DOMAIN f, num, b), f)
  BY BucketIs
<1>3. DOMAIN g = DOMAIN f \ {k} /\ IsData(g)
  BY <1>1, WithoutIs
<1>4. \A j \in DOMAIN f \ {k} : g[j] = f[j]
  BY DEF Lacking
<1>5. CASE k \notin DOMAIN f
  <2>1. CfuDelete(h, k) = [h |-> h, ret |-> NoKey]
    BY <1>5, PlaceIs DEF CfuDelete
  <2>2. g = f
    BY <1>1, <1>5, WithoutNone
  <2>3. QED
    BY <1>5, <2>1, <2>2
<1>6. CASE k \in DOMAIN f
  <2>1. Place(h, k) # 0 /\ Place(h, k) \in 1..Len(c) /\ c[Place(h, k)].key = k
    BY <1>6, PlaceIs
  <2>2. CfuDelete(h, k) = [h |-> ShrinkIfSparse([SetBucket(h, k, r) EXCEPT !.entries = @ - 1]), ret |-> CfuGet(h, k)]
    BY <2>1 DEF CfuDelete
  <2>3. [SetBucket(h, k, r) EXCEPT !.entries = @ - 1] = t
    <3> HIDE DEF r
    <3>1. SetBucket(h, k, r).entries = h.entries
      BY <1>1, SetBucketIs
    <3>2. [SetBucket(h, k, r) EXCEPT !.entries = n] = t
      BY <1>1, SetBucketIs
    <3>3. QED
      BY <3>1, <3>2
  <2>4. n \in Nat
    BY <1>1, <1>6 DEF Shells
  <2> HIDE DEF num, b, c, g, B
  <2>5. Chained(r, KeysAt(DOMAIN g, num, b), g)
    <3> DEFINE i == Place(h, k)
    <3>1. i \in 1..Len(c) /\ c[i].key = k
      BY <2>1
    <3> HIDE DEF i
    <3>2. Chained(RemoveAt(c, i), KeysAt(DOMAIN f, num, b) \ {k}, f)
      BY <1>2, <3>1, ChainedRemove
    <3>3. KeysAt(DOMAIN g, num, b) = KeysAt(DOMAIN f, num, b) \ {k}
      BY <1>3 DEF KeysAt
    <3>4. \A j \in KeysAt(DOMAIN g, num, b) : g[j] = f[j]
      BY <1>3, <1>4 DEF KeysAt
    <3>5. Chained(RemoveAt(c, i), KeysAt(DOMAIN g, num, b), g)
      BY <3>2, <3>3, <3>4, ChainedLike
    <3>6. QED
      BY <3>5 DEF i
  <2> HIDE DEF r
  <2>6. Apart(num, b, DOMAIN f, f, DOMAIN g, g)
    BY <1>3, <1>4 DEF Apart, b
  <2>7. Spread(B, num, DOMAIN g, g)
    <3> DEFINE o == h.buckets
    <3>1. DOMAIN g \subseteq Keys
      BY <1>1, <1>3
    <3> HIDE DEF o
    <3>2. Spread([o EXCEPT ![b] = r], num, DOMAIN g, g)
      BY <1>1, <1>2, <2>5, <2>6, <3>1, SpreadAt DEF o
    <3>3. QED
      BY <3>2 DEF Rechained, B, b, num, o
  <2>8. B \in Chains(num)
    BY <2>7 DEF Spread
  <2> HIDE DEF n
  <2>9. t \in Shells /\ t.num_buckets = num /\ t.buckets = B /\ t.entries = n
    BY <1>1, <2>4, <2>8, ShellIs DEF num
  <2> HIDE DEF t
  <2>10. Holding(t, g)
    BY <1>3, <2>7, <2>9 DEF Holding
  <2>11. Holding(ShrinkIfSparse(t), g) /\ ShrinkIfSparse(t).entries = t.entries
    BY <2>10, ShrinkHolds
  <2>12. CfuDelete(h, k) = [h |-> ShrinkIfSparse(t), ret |-> CfuGet(h, k)]
    BY <2>2, <2>3
  <2>13. CfuGet(h, k) # NoKey
    BY <1>6, GetIs
  <2>14. QED
    BY <1>6, <2>9, <2>11, <2>12, <2>13 DEF n, g
<1>7. QED
  BY <1>5, <1>6

(* A table without entries. *)
NoData == [k \in {} |-> NoKey]

LEMMA NoDataIs == DOMAIN NoData = {} /\ IsData(NoData)
BY DEF NoData, IsData

(* _cfuhash_new() *)
LEMMA TableIs ==
  ASSUME NEW size \in Nat
  PROVE  Holding(CfuTable(size), NoData) /\ CfuTable(size).entries = 0
<1> DEFINE n == HashSize(size)
           c == [b \in 0..n - 1 |-> <<>>]
           t == [num_buckets |-> n, entries |-> 0, frozen |-> FALSE, buckets |-> c, resized |-> FALSE]
<1>1. n \in Nat \ {0}
  BY HashSizeIs
<1>2. CfuTable(size) = t
  BY DEF CfuTable
<1> HIDE DEF n
<1>3. Spread(c, n, {}, NoData)
  BY <1>1, SpreadEmpty
<1>4. c \in Chains(n)
  BY <1>3 DEF Spread
<1> HIDE DEF c
<1>5. c \in UNION {Chains(m) : m \in Nat \ {0}}
  BY <1>1, <1>4
<1>6. t \in Shells /\ t.num_buckets = n /\ t.buckets = c /\ t.entries = 0
  BY <1>1, <1>5 DEF Shells
<1> HIDE DEF t
<1>7. Holding(t, NoData)
  BY <1>3, <1>6, NoDataIs DEF Holding
<1>8. QED
  BY <1>2, <1>6, <1>7

(* cfuhash_clear() *)
LEMMA ClearIs ==
  ASSUME NEW h, NEW f, Holding(h, f)
  PROVE  Holding(CfuClear(h), NoData) /\ CfuClear(h).entries = 0
<1> DEFINE num == h.num_buckets
           c == [b \in 0..num - 1 |-> <<>>]
           t == Shelled(h, c, 0)
<1>1. h \in Shells /\ h.buckets \in Chains(num)
  BY DEF Holding, Spread
<1>2. num \in Nat \ {0}
  BY <1>1 DEF Shells
<1>3. DOMAIN h.buckets = 0..num - 1
  BY <1>1 DEF Chains
<1>4. CfuClear(h) = ShrinkIfSparse(t)
  BY <1>1, <1>3 DEF CfuClear, Shelled, Shells
<1>5. Spread(c, num, {}, NoData)
  BY <1>2, SpreadEmpty
<1>6. c \in Chains(num)
  BY <1>5 DEF Spread
<1> HIDE DEF c
<1>7. t \in Shells /\ t.num_buckets = num /\ t.buckets = c /\ t.entries = 0
  BY <1>1, <1>6, ShellIs
<1> HIDE DEF t
<1>8. Holding(t, NoData)
  BY <1>5, <1>7, NoDataIs DEF Holding
<1>9. QED
  BY <1>4, <1>7, <1>8, ShrinkHolds

----------------------------------------------------------------------------
(* As many keys as the table has, at least, are counted. *)
CountsAll(h, f) == h.entries >= Cardinality(DOMAIN f)

LEMMA KeyCount ==
  ASSUME NEW h, NEW f, Holding(h, f)
  PROVE  IsFiniteSet(DOMAIN f) /\ Cardinality(DOMAIN f) \in Nat /\ h.entries \in Nat
<1>1. DOMAIN f \subseteq Keys /\ h.entries \in Nat
  BY DEF Holding, Spread, Shells
<1>2. IsFiniteSet(DOMAIN f)
  BY <1>1, KeysAssumption, FS_Subset
<1>3. QED
  BY <1>1, <1>2, FS_CardinalityType

(* Each key of K once. *)
Lists(s, K) ==
  /\ s \in Seq(K)
  /\ \A i, j \in 1..Len(s) : s[i] = s[j] => i = j
  /\ \A k \in K : \E i \in 1..Len(s) : s[i] = k

(* cfuhash_keys_data() *)
LEMMA KeysIs ==
  ASSUME NEW h, NEW f, Holding(h, f), CountsAll(h, f)
  PROVE  Lists(CfuKeys(h), DOMAIN f)
<1> DEFINE all == InOrder(h)
           n == Min({Len(all), h.entries})
           s == [i \in 1..n |-> all[i].key]
<1>1. h.num_buckets \in Nat /\ h.num_buckets # 0 /\ Spread(h.buckets, h.num_buckets, DOMAIN f, f)
  BY DEF Holding, Shells
<1>2. Chained(all, DOMAIN f, f)
  BY <1>1, InOrderIs
<1>3. Len(all) \in Nat /\ Len(all) = Cardinality(DOMAIN f)
  BY <1>2, ChainedLen
<1>4. h.entries \in Nat /\ h.entries >= Len(all)
  BY <1>3, KeyCount DEF CountsAll
<1>5. CfuKeys(h) = s
  BY DEF CfuKeys
<1>6. n = Len(all)
  <2> HIDE DEF all
  <2>1. {Len(all), h.entries} \subseteq Nat /\ {Len(all), h.entries} # {}
    BY <1>3, <1>4
  <2>2. n \in {Len(all), h.entries} /\ \A m \in {Len(all), h.entries} : n <= m
    BY <2>1, LeastOf
  <2>3. QED
    BY <1>3, <1>4, <2>2
<1> HIDE DEF all, n
<1>7. \A i \in 1..n : all[i].key \in DOMAIN f
  BY <1>2, <1>6 DEF Chained
<1>8. s \in Seq(DOMAIN f) /\ Len(s) = n /\ \A i \in 1..n : s[i] = all[i].key
  BY <1>3, <1>6, <1>7
<1> HIDE DEF s
<1>9. \A i, j \in 1..n : s[i] = s[j] => i = j
  BY <1>2, <1>6, <1>8 DEF Chained
<1>10. \A k \in DOMAIN f : \E i \in 1..n : s[i] = k
  <2>1. \A k \in DOMAIN f : \E i \in 1..n : all[i].key = k
    BY <1>2, <1>6 DEF Chained
  <2>2. QED
    BY <1>8, <2>1
<1>11. QED
  BY <1>5, <1>8, <1>9, <1>10 DEF Lists

(* g, and f for the keys of K. *)
Over(f, K, g) == [j \in DOMAIN g \cup K |-> IF j \in K THEN f[j] ELSE g[j]]

LEMMA OverNone == ASSUME NEW f, NEW g, IsData(g) PROVE Over(f, {}, g) = g
<1>1. g = [j \in DOMAIN g |-> g[j]]
  BY DEF IsData
<1>2. DOMAIN g \cup {} = DOMAIN g
  OBVIOUS
<1>3. QED
  BY <1>1, <1>2 DEF Over

LEMMA OverPut ==
  ASSUME NEW f, NEW K, NEW g, NEW k
  PROVE  PutIn(Over(f, K, g), k, f[k]) = Over(f, K \cup {k}, g)
<1> DEFINE o == Over(f, K, g)
<1>1. DOMAIN o = DOMAIN g \cup K /\ \A j \in DOMAIN o : o[j] = IF j \in K THEN f[j] ELSE g[j]
  BY DEF Over
<1> HIDE DEF o
<1>2. DOMAIN o \cup {k} = DOMAIN g \cup (K \cup {k})
  BY <1>1
<1>3. \A j \in DOMAIN o \cup {k} :
        (IF j = k THEN f[k] ELSE o[j]) = IF j \in K \cup {k} THEN f[j] ELSE g[j]
  BY <1>1
<1>4. [j \in DOMAIN o \cup {k} |-> IF j = k THEN f[k] ELSE o[j]]
        = [j \in DOMAIN g \cup (K \cup {k}) |-> IF j \in K \cup {k} THEN f[j] ELSE g[j]]
  BY <1>2, <1>3
<1>5. QED
  BY <1>4 DEF PutIn, Over, o

(* The first n keys of a list. *)
FirstOf(s, n) == {s[j] : j \in 1..n}

(* cfuhash_copy() *)
LEMMA CopyIs ==
  ASSUME NEW src, NEW f, Holding(src, f), CountsAll(src, f), NEW dst, NEW g, Holding(dst, g)
  PROVE  Holding(CfuCopy(src, dst), Over(f, DOMAIN f, g))
<1> DEFINE s == CfuKeys(src)
           n == Len(s)
           V == Shells
           Q == {q \in Nat \X V : Holding(q[2], Over(f, FirstOf(s, q[1]), g))}
           all == [p \in Nat \X V |-> CopyTurn(src, s[p[1] + 1], p[2])]
<1>1. Lists(s, DOMAIN f)
  BY KeysIs
<1> HIDE DEF s
<1>2. n \in Nat /\ s \in Seq(DOMAIN f)
  BY <1>1 DEF Lists
<1>3. \A i \in Nat, v \in V : <<i, v>> \in Q <=> Holding(v, Over(f, FirstOf(s, i), g))
  OBVIOUS
<1>4. \A i \in Nat, v \in V : all[<<i, v>>] = CopyTurn(src, s[i + 1], v)
  OBVIOUS
<1>5. Q \in SUBSET (Nat \X V)
  OBVIOUS
<1>6. \A v, e : Holding(v, e) => v \in V
  BY DEF Holding
<1> HIDE DEF Q, all, V, n
<1>7. <<0, dst>> \in Q
  <2>1. FirstOf(s, 0) = {}
    BY DEF FirstOf
  <2>2. Over(f, FirstOf(s, 0), g) = g
    BY <2>1, OverNone DEF Holding
  <2>3. QED
    BY <1>3, <1>6, <2>2
<1>8. Keeps(n, V, Q, all)
  <2>1. SUFFICES ASSUME NEW i \in 0..n - 1, NEW v \in V, <<i, v>> \in Q
                 PROVE  <<i + 1, all[<<i, v>>]>> \in Q
    BY DEF Keeps
  <2> DEFINE k == s[i + 1]
             o == Over(f, FirstOf(s, i), g)
             r == CopyTurn(src, k, v)
  <2>2. i \in Nat /\ i + 1 \in Nat /\ i + 1 \in 1..n
    BY <1>2
  <2>3. k \in DOMAIN f
    BY <1>2, <2>2 DEF n
  <2>4. k \in Keys /\ IsData(f)
    BY <2>3 DEF Holding, Spread
  <2>5. f[k] \in CfuData
    BY <2>3, <2>4 DEF IsData
  <2>6. CfuGet(src, k) = f[k] /\ Place(src, k) # 0
    BY <2>3, <2>4, GetIs, PlaceIs
  <2>7. Holding(v, o)
    BY <1>3, <2>1, <2>2
  <2>8. FirstOf(s, i + 1) = FirstOf(s, i) \cup {k}
    <3>1. \A j : j \in 1..i + 1 <=> j \in 1..i \/ j = i + 1
      BY <2>2
    <3>2. QED
      BY <3>1 DEF FirstOf
  <2> HIDE DEF k, o
  <2>9. Holding(CfuPut(v, k, f[k]).h, PutIn(o, k, f[k]))
    BY <2>4, <2>5, <2>7, PutIs
  <2>10. r = CfuPut(v, k, f[k]).h
    BY <2>6 DEF CopyTurn
  <2>11. PutIn(o, k, f[k]) = Over(f, FirstOf(s, i + 1), g)
    BY <2>8, OverPut DEF o
  <2> HIDE DEF r
  <2>12. Holding(r, Over(f, FirstOf(s, i + 1), g))
    BY <2>9, <2>10, <2>11
  <2>13. all[<<i, v>>] = r
    BY <1>4, <2>2 DEF r, k
  <2>14. QED
    BY <1>3, <1>6, <2>2, <2>12, <2>13
<1>9. PICK w : Runs(n, V, Q, all, dst, w)
  BY <1>2, <1>5, <1>7, <1>8, KeepsRuns
<1> USE DEF Runs
<1> DEFINE Turn(t) == t = [i \in 0..n |-> IF i = 0 THEN dst ELSE CopyTurn(src, s[i], t[i - 1])]
           turn == CHOOSE t : Turn(t)
<1>10. Turn(w)
  <2>1. ASSUME NEW i \in 0..n, i # 0
        PROVE  w[i] = CopyTurn(src, s[i], w[i - 1])
    <3>1. i - 1 \in 0..n - 1 /\ (i - 1) + 1 = i /\ i - 1 \in 0..n /\ i - 1 \in Nat
      BY <1>2, <2>1
    <3>2. w[(i - 1) + 1] = all[<<i - 1, w[i - 1]>>] /\ w[i - 1] \in V
      BY <1>9, <3>1
    <3>3. QED
      BY <1>4, <3>1, <3>2
  <2>2. QED
    BY <1>9, <2>1
<1>11. Turn(turn)
  <2> HIDE DEF Turn
  <2>1. QED
    BY <1>10
<1>12. CfuCopy(src, dst) = turn[n]
  BY DEF CfuCopy, s, n
<1> HIDE DEF turn
<1>13. \A i \in 0..n : turn[i] = IF i = 0 THEN dst ELSE CopyTurn(src, s[i], turn[i - 1])
  BY <1>11
<1>14. \A i \in 0..n : w[i] = IF i = 0 THEN dst ELSE CopyTurn(src, s[i], w[i - 1])
  BY <1>10
<1>15. SameTurns(n, w, turn)
  <2>1. ASSUME NEW i \in 0..n - 1, turn[i] = w[i]
        PROVE  turn[i + 1] = w[i + 1]
    <3>1. i + 1 \in 0..n /\ i + 1 # 0 /\ (i + 1) - 1 = i
      BY <1>2
    <3>2. turn[i + 1] = CopyTurn(src, s[i + 1], turn[(i + 1) - 1])
          /\ w[i + 1] = CopyTurn(src, s[i + 1], w[(i + 1) - 1])
      BY <1>13, <1>14, <3>1
    <3>3. QED
      BY <2>1, <3>1, <3>2
  <2>2. 0 \in 0..n
    BY <1>2
  <2>3. QED
    BY <1>13, <1>14, <2>1, <2>2 DEF SameTurns
<1>16. turn[n] = w[n] /\ n \in 0..n
  <2>1. \A i \in 0..n : turn[i] = w[i]
    BY <1>2, <1>15, SameLoop
  <2>2. QED
    BY <1>2, <2>1
<1>17. FirstOf(s, n) = DOMAIN f
  <2>1. (\A i \in 1..n : s[i] \in DOMAIN f) /\ \A k \in DOMAIN f : \E i \in 1..n : s[i] = k
    BY <1>1, <1>2 DEF Lists, n
  <2>2. QED
    BY <2>1 DEF FirstOf
<1>18. w[n] \in V /\ <<n, w[n]>> \in Q
  BY <1>9, <1>16
<1>19. QED
  BY <1>2, <1>3, <1>12, <1>16, <1>17, <1>18

LEMMA OverNothing ==
  ASSUME NEW f, IsData(f)
  PROVE  Over(f, DOMAIN f, NoData) = f
<1>1. f = [j \in DOMAIN f |-> f[j]]
  BY DEF IsData
<1>2. {} \cup DOMAIN f = DOMAIN f
  OBVIOUS
<1>3. QED
  BY <1>1, <1>2, NoDataIs DEF Over

LEMMA OverPart ==
  ASSUME NEW f, IsData(f), NEW ks
  PROVE  Over(Lacking(f, ks), DOMAIN Lacking(f, ks), f) = f
<1> DEFINE g == Lacking(f, ks)
<1>1. DOMAIN g = DOMAIN f \ ks /\ \A j \in DOMAIN g : g[j] = f[j]
  BY DEF Lacking
<1> HIDE DEF g
<1>2. f = [j \in DOMAIN f |-> f[j]]
  BY DEF IsData
<1>3. DOMAIN f \cup DOMAIN g = DOMAIN f
  BY <1>1
<1>4. \A j \in DOMAIN f : (IF j \in DOMAIN g THEN g[j] ELSE f[j]) = f[j]
  BY <1>1
<1>5. Over(g, DOMAIN g, f) = [j \in DOMAIN f |-> f[j]]
  BY <1>3, <1>4 DEF Over
<1>6. QED
  BY <1>2, <1>5 DEF g

LEMMA OverLater ==
  ASSUME NEW f, IsData(f), NEW k, NEW d \in CfuData
  PROVE  Over(PutIn(f, k, d), DOMAIN PutIn(f, k, d), f) = PutIn(f, k, d)
<1> DEFINE g == PutIn(f, k, d)
<1>1. DOMAIN g = DOMAIN f \cup {k} /\ g = [j \in DOMAIN g |-> g[j]]
  BY DEF PutIn
<1> HIDE DEF g
<1>2. DOMAIN f \cup DOMAIN g = DOMAIN g
  BY <1>1
<1>3. Over(g, DOMAIN g, f) = [j \in DOMAIN g |-> g[j]]
  BY <1>2 DEF Over
<1>4. QED
  BY <1>1, <1>3 DEF g

(* A copy. *)
LEMMA CopyHolds ==
  ASSUME NEW h, NEW f, Holding(h, f), CountsAll(h, f), NEW size \in Nat
  PROVE  Holding(CfuCopy(h, CfuTable(size)), f)
<1>1. Holding(CfuTable(size), NoData)
  BY TableIs
<1>2. Holding(CfuCopy(h, CfuTable(size)), Over(f, DOMAIN f, NoData))
  BY <1>1, CopyIs
<1>3. QED
  BY <1>2, OverNothing DEF Holding

(* A merge with a table that holds g. *)
LEMMA MergeIs ==
  ASSUME NEW h, NEW f, Holding(h, f), CountsAll(h, f), NEW p, NEW g, Holding(p, g), CountsAll(p, g)
  PROVE  Contents(CfuMerge(h, p)) = Over(g, DOMAIN g, f)
<1> DEFINE m == h.entries + p.entries
<1>1. h.entries \in Nat /\ p.entries \in Nat
  BY KeyCount
<1>2. m \in Nat
  BY <1>1
<1>3. CfuMerge(h, p) = CfuCopy(p, CfuCopy(h, CfuTable(m)))
  BY DEF CfuMerge
<1> HIDE DEF m
<1>4. Holding(CfuCopy(h, CfuTable(m)), f)
  BY <1>2, CopyHolds
<1>5. Holding(CfuCopy(p, CfuCopy(h, CfuTable(m))), Over(g, DOMAIN g, f))
  BY <1>4, CopyIs
<1>6. QED
  BY <1>3, <1>5, ContentsIs

----------------------------------------------------------------------------
(* Where cfuhash_next_data() may stand. *)
Cursor(h, b, i) ==
  (b = -1 /\ i = 0) \/ (b \in 0..h.num_buckets - 1 /\ i \in 1..Len(h.buckets[b]))

(* The keys that it has passed. *)
Passed(h, K, b, i) ==
  {k \in K : LET v == HashValue(k, h.num_buckets) IN v < b \/ (v = b /\ Place(h, k) <= i)}

(* The place of each entry is that of its key. *)
LEMMA EntryAt ==
  ASSUME NEW h, NEW f, Holding(h, f), NEW b \in 0..h.num_buckets - 1, NEW i \in 1..Len(h.buckets[b])
  PROVE  /\ h.buckets[b][i].key \in DOMAIN f
         /\ HashValue(h.buckets[b][i].key, h.num_buckets) = b
         /\ Place(h, h.buckets[b][i].key) = i
<1> DEFINE k == h.buckets[b][i].key
           num == h.num_buckets
<1>1. Spread(h.buckets, num, DOMAIN f, f) /\ DOMAIN f \subseteq Keys
  BY DEF Holding, Spread
<1>2. Chained(h.buckets[b], KeysAt(DOMAIN f, num, b), f)
  BY <1>1 DEF Spread
<1>3. k \in DOMAIN f /\ HashValue(k, num) = b
  BY <1>2 DEF Chained, KeysAt
<1>4. k \in Keys
  BY <1>1, <1>3
<1>5. Place(h, k) \in 1..Len(Bucket(h, k)) /\ Bucket(h, k)[Place(h, k)].key = k
  <2> HIDE DEF k
  <2>1. QED
    BY <1>3, <1>4, PlaceIs
<1>6. Bucket(h, k) = h.buckets[b]
  BY <1>3 DEF Bucket
<1>7. Place(h, k) = i
  <2> DEFINE p == Place(h, k)
  <2>1. p \in 1..Len(h.buckets[b]) /\ h.buckets[b][p].key = h.buckets[b][i].key
    BY <1>5, <1>6
  <2> HIDE DEF p
  <2>2. p = i
    BY <1>2, <2>1 DEF Chained
  <2>3. QED
    BY <2>2 DEF p
<1>8. QED
  BY <1>3, <1>7

(* And the other way round. *)
LEMMA KeyAt ==
  ASSUME NEW h, NEW f, Holding(h, f), NEW k \in DOMAIN f
  PROVE  /\ HashValue(k, h.num_buckets) \in 0..h.num_buckets - 1
         /\ Place(h, k) \in 1..Len(h.buckets[HashValue(k, h.num_buckets)])
         /\ h.buckets[HashValue(k, h.num_buckets)][Place(h, k)].key = k
<1>1. k \in Keys
  BY DEF Holding, Spread
<1>2. QED
  BY <1>1, BucketIs, PlaceIs DEF Bucket

(* cfuhash_next_data() comes to the next entry, or has passed all. *)
Moves(h, K, b, i) ==
  \/ CfuNext(h, <<b, i>>) = <<h.num_buckets, 0>> /\ Passed(h, K, b, i) = K
  \/ \E c \in 0..h.num_buckets - 1 : \E j \in 1..Len(h.buckets[c]) :
       /\ CfuNext(h, <<b, i>>) = <<c, j>>
       /\ h.buckets[c][j].key \notin Passed(h, K, b, i)
       /\ Passed(h, K, c, j) = Passed(h, K, b, i) \cup {h.buckets[c][j].key}

LEMMA NextIs ==
  ASSUME NEW h, NEW f, Holding(h, f), NEW b \in Int, NEW i \in Nat, Cursor(h, b, i)
  PROVE  Moves(h, DOMAIN f, b, i)
<1> DEFINE num == h.num_buckets
           K == DOMAIN f
           full == {c \in b + 1..num - 1 : h.buckets[c] # <<>>}
           Follows(c, j) ==
             \A k \in K : (HashValue(k, num) < c \/ (HashValue(k, num) = c /\ Place(h, k) < j))
                           <=> (HashValue(k, num) < b \/ (HashValue(k, num) = b /\ Place(h, k) <= i))
           Found ==
             \E c \in 0..num - 1 : \E j \in 1..Len(h.buckets[c]) :
               /\ CfuNext(h, <<b, i>>) = <<c, j>>
               /\ h.buckets[c][j].key \notin Passed(h, K, b, i)
               /\ Passed(h, K, c, j) = Passed(h, K, b, i) \cup {h.buckets[c][j].key}
<1>1. num \in Nat \ {0} /\ h.buckets \in [0..num - 1 -> Seq(CfuEntries)]
  BY DEF Holding, Spread, Shells, Chains
<1>2. \A c \in 0..num - 1 : Len(h.buckets[c]) \in Nat
  BY <1>1
<1>3. \A k \in K : HashValue(k, num) \in 0..num - 1 /\ Place(h, k) \in 1..Len(h.buckets[HashValue(k, num)])
                   /\ h.buckets[HashValue(k, num)][Place(h, k)].key = k
  BY KeyAt
<1>4. \A k \in K : HashValue(k, num) \in Nat /\ Place(h, k) \in Nat
  BY <1>1, <1>2, <1>3
<1>5. \A c, j, k : k \in Passed(h, K, c, j) <=>
        k \in K /\ (HashValue(k, num) < c \/ (HashValue(k, num) = c /\ Place(h, k) <= j))
  BY DEF Passed
<1>6. CfuNext(h, <<b, i>>) = IF i # 0 /\ i < Len(h.buckets[b]) THEN <<b, i + 1>>
                             ELSE IF full = {} THEN <<num, 0>> ELSE <<Min(full), 1>>
  BY DEF CfuNext
<1>7. ASSUME NEW c \in 0..num - 1, NEW j \in 1..Len(h.buckets[c]), CfuNext(h, <<b, i>>) = <<c, j>>,
             Follows(c, j)
      PROVE  Found
  <2> DEFINE e == h.buckets[c][j].key
  <2>1. e \in K /\ HashValue(e, num) = c /\ Place(h, e) = j
    BY EntryAt
  <2>2. j \in Nat /\ c \in Nat
    BY <1>1, <1>2
  <2>3. \A k \in K : HashValue(k, num) = c /\ Place(h, k) = j => k = e
    BY <1>3
  <2> HIDE DEF e, K, num
  <2>4. e \notin Passed(h, K, b, i)
    <3>1. ~(HashValue(e, num) < c \/ (HashValue(e, num) = c /\ Place(h, e) < j))
      BY <2>1, <2>2
    <3>2. QED
      BY <1>5, <1>7, <2>1, <3>1
  <2>5. ASSUME NEW k \in K
        PROVE  k \in Passed(h, K, c, j) <=> k \in Passed(h, K, b, i) \/ k = e
    <3>1. Place(h, k) <= j <=> Place(h, k) < j \/ Place(h, k) = j
      BY <1>4, <2>2
    <3>2. HashValue(k, num) = c /\ Place(h, k) = j <=> k = e
      BY <2>1, <2>3
    <3>3. QED
      BY <1>5, <1>7, <3>1, <3>2
  <2>6. Passed(h, K, c, j) = Passed(h, K, b, i) \cup {e}
    BY <1>5, <2>1, <2>5
  <2>7. QED
    BY <1>7, <2>4, <2>6 DEF e
<1> HIDE DEF K, Found
<1>8. CASE i # 0 /\ i < Len(h.buckets[b])
  <2>1. b \in 0..num - 1 /\ i \in 1..Len(h.buckets[b])
    BY <1>8 DEF Cursor
  <2>2. i + 1 \in 1..Len(h.buckets[b]) /\ CfuNext(h, <<b, i>>) = <<b, i + 1>>
    BY <1>2, <1>6, <1>8, <2>1
  <2>3. \A k \in K : Place(h, k) < i + 1 <=> Place(h, k) <= i
    BY <1>4
  <2>4. Follows(b, i + 1)
    BY <2>3
  <2> HIDE DEF Follows
  <2>5. Found
    BY <1>7, <2>1, <2>2, <2>4
  <2>6. QED
    BY <2>5 DEF Found, K, Moves
<1>9. CASE ~(i # 0 /\ i < Len(h.buckets[b]))
  <2>1. ASSUME NEW k \in K, HashValue(k, num) = b
        PROVE  Place(h, k) <= i
    <3>1. b # -1
      BY <1>4, <2>1
    <3>2. b \in 0..num - 1 /\ i \in 1..Len(h.buckets[b])
      BY <3>1 DEF Cursor
    <3>3. i = Len(h.buckets[b]) /\ Place(h, k) \in 1..Len(h.buckets[b])
      BY <1>2, <1>3, <1>9, <2>1, <3>2
    <3>4. QED
      BY <1>2, <3>2, <3>3
  <2>2. ASSUME NEW k \in K, HashValue(k, num) > b
        PROVE  HashValue(k, num) \in full
    <3>1. HashValue(k, num) \in b + 1..num - 1
      BY <1>3, <2>2
    <3>2. h.buckets[HashValue(k, num)] # <<>>
      BY <1>3
    <3>3. QED
      BY <3>1, <3>2
  <2>3. b >= -1
    BY DEF Cursor
  <2>4. CASE full = {}
    <3>1. CfuNext(h, <<b, i>>) = <<num, 0>>
      BY <1>6, <1>9, <2>4
    <3>2. \A k \in K : k \in Passed(h, K, b, i)
      <4>1. SUFFICES ASSUME NEW k \in K
                     PROVE  k \in Passed(h, K, b, i)
        OBVIOUS
      <4>2. ~(HashValue(k, num) > b)
        BY <2>2, <2>4
      <4>3. HashValue(k, num) < b \/ HashValue(k, num) = b
        BY <1>4, <4>2
      <4>4. QED
        BY <1>5, <2>1, <4>3
    <3>3. Passed(h, K, b, i) = K
      BY <1>5, <3>2
    <3>4. QED
      BY <3>1, <3>3 DEF K, Moves
  <2>5. CASE full # {}
    <3> DEFINE c == Min(full)
    <3>1. full \subseteq Nat /\ full \subseteq 0..num - 1
      BY <1>1, <2>3
    <3>2. c \in full /\ \A n \in full : c <= n
      BY <2>5, <3>1, LeastOf
    <3>3. CfuNext(h, <<b, i>>) = <<c, 1>>
      BY <1>6, <1>9, <2>5
    <3> HIDE DEF c
    <3>4. c \in 0..num - 1 /\ c > b /\ h.buckets[c] # <<>>
      BY <2>3, <3>1, <3>2
    <3>5. 1 \in 1..Len(h.buckets[c])
      BY <1>1, <3>4
    <3>6. ASSUME NEW k \in K
          PROVE  (HashValue(k, num) < c \/ (HashValue(k, num) = c /\ Place(h, k) < 1))
                   <=> (HashValue(k, num) < b \/ (HashValue(k, num) = b /\ Place(h, k) <= i))
      <4>1. ~(Place(h, k) < 1)
        BY <1>2, <1>3
      <4>2. HashValue(k, num) < c => ~(HashValue(k, num) > b)
        BY <1>4, <2>2, <3>2, <3>4
      <4>3. HashValue(k, num) <= b => HashValue(k, num) < c
        BY <1>4, <3>4
      <4>4. QED
        BY <1>4, <2>1, <4>1, <4>2, <4>3
    <3>7. Follows(c, 1)
      BY <3>6
    <3> HIDE DEF Follows
    <3>8. Found
      BY <1>7, <3>3, <3>4, <3>5, <3>7
    <3>9. QED
      BY <3>8 DEF Found, K, Moves
  <2>6. QED
    BY <2>4, <2>5
<1>10. QED
  BY <1>8, <1>9 DEF Found, K, Moves

----------------------------------------------------------------------------
LEMMA ListsOne ==
  ASSUME NEW s, NEW K, Lists(s, K), NEW k, k \notin K
  PROVE  Lists(Append(s, k), K \cup {k}) /\ Len(Append(s, k)) = Len(s) + 1
<1> DEFINE r == Append(s, k)
<1>1. s \in Seq(K) /\ Len(s) \in Nat
  BY DEF Lists
<1>2. /\ r \in Seq(K \cup {k}) /\ Len(r) = Len(s) + 1
      /\ \A i \in 1..Len(s) + 1 : r[i] = IF i = Len(s) + 1 THEN k ELSE s[i]
  <2>1. s \in Seq(K \cup {k})
    BY <1>1
  <2>2. QED
    BY <1>1, <2>1, AppendProperties
<1>3. \A i \in 1..Len(s) : s[i] \in K
  BY <1>1
<1> HIDE DEF r
<1>4. ASSUME NEW i \in 1..Len(r), NEW j \in 1..Len(r), r[i] = r[j]
      PROVE  i = j
  <2>1. (i = Len(s) + 1 \/ i \in 1..Len(s)) /\ (j = Len(s) + 1 \/ j \in 1..Len(s))
    BY <1>1, <1>2
  <2>2. (i = Len(s) + 1) <=> (j = Len(s) + 1)
    BY <1>1, <1>2, <1>3, <1>4, <2>1
  <2>3. CASE i = Len(s) + 1
    BY <2>2, <2>3
  <2>4. CASE i # Len(s) + 1
    <3>1. i \in 1..Len(s) /\ j \in 1..Len(s) /\ s[i] = s[j]
      BY <1>1, <1>2, <1>4, <2>1, <2>2, <2>4
    <3>2. QED
      BY <3>1 DEF Lists
  <2>5. QED
    BY <2>3, <2>4
<1>5. ASSUME NEW j \in K \cup {k}
      PROVE  \E i \in 1..Len(r) : r[i] = j
  <2>1. CASE j = k
    <3>1. Len(s) + 1 \in 1..Len(r) /\ r[Len(s) + 1] = k
      BY <1>1, <1>2
    <3>2. QED
      BY <2>1, <3>1
  <2>2. CASE j \in K
    <3>1. PICK i \in 1..Len(s) : s[i] = j
      BY <2>2 DEF Lists
    <3>2. i \in 1..Len(r) /\ r[i] = j
      BY <1>1, <1>2, <3>1
    <3>3. QED
      BY <3>2
  <2>3. QED
    BY <2>1, <2>2
<1>6. Lists(r, K \cup {k})
  BY <1>2, <1>4, <1>5 DEF Lists
<1>7. QED
  BY <1>2, <1>6 DEF r

LEMMA ListsLen ==
  ASSUME NEW s, NEW K, Lists(s, K), IsFiniteSet(K)
  PROVE  Cardinality(K) = Len(s) /\ Range(s) = K /\ IsInjective(s)
<1>1. s \in Seq(K) /\ DOMAIN s = 1..Len(s) /\ Len(s) \in Nat
  BY DEF Lists
<1>2. s \in [1..Len(s) -> K]
  BY <1>1
<1>3. s \in Injection(1..Len(s), K)
  BY <1>2 DEF Lists, Injection, IsInjective
<1>4. s \in Surjection(1..Len(s), K)
  BY <1>2 DEF Lists, Surjection
<1>5. ExistsBijection(1..Len(s), K)
  BY <1>3, <1>4 DEF Bijection, ExistsBijection
<1>6. IsFiniteSet(1..Len(s)) /\ Cardinality(1..Len(s)) = Len(s)
  BY <1>1, FS_Interval, SMTT(30)
<1>7. Cardinality(K) = Len(s)
  BY <1>5, <1>6, FS_Bijection
<1>8. Range(s) = K /\ IsInjective(s)
  BY <1>1, <1>2 DEF Lists, Range, IsInjective
<1>9. QED
  BY <1>7, <1>8

(* cfuhash_each() and cfuhash_next() return every key once. *)
LEMMA EachIs ==
  ASSUME NEW h, NEW f, Holding(h, f)
  PROVE  Lists(Each(h), DOMAIN f)
<1> DEFINE N == Len(InOrder(h))
           K == DOMAIN f
           V == [at : Int \X Nat, keys : Seq(Keys)]
           step == [i \in 1..N |-> [v \in V |-> EachTurn(h, v)]]
           x == [at |-> <<-1, 0>>, keys |-> <<>>]
           Good(n, s, b, i) == /\ Cursor(h, b, i) /\ Lists(s, Passed(h, K, b, i))
                               /\ Len(s) = n \/ Passed(h, K, b, i) = K
           Q == {q \in Nat \X V : Good(q[1], q[2].keys, q[2].at[1], q[2].at[2])}
<1>1. /\ K \subseteq Keys /\ IsFiniteSet(K) /\ N \in Nat /\ N = Cardinality(K)
      /\ h.num_buckets \in Nat \ {0} /\ h.buckets \in [0..h.num_buckets - 1 -> Seq(CfuEntries)]
  <2>1. /\ K \subseteq Keys /\ h.num_buckets \in Nat \ {0}
        /\ h.buckets \in [0..h.num_buckets - 1 -> Seq(CfuEntries)]
        /\ Spread(h.buckets, h.num_buckets, K, f)
    BY DEF Holding, Spread, Shells, Chains
  <2>2. Chained(InOrder(h), K, f)
    BY <2>1, InOrderIs
  <2>3. QED
    BY <2>1, <2>2, ChainedLen
<1>2. \A n \in Nat, v \in V : <<n, v>> \in Q <=> Good(n, v.keys, v.at[1], v.at[2])
  OBVIOUS
<1>3. \A i \in 1..N, v \in V : step[i][v] = EachTurn(h, v)
  OBVIOUS
<1>4. Q \in SUBSET (Nat \X V) /\ x \in V /\ x.at[1] = -1 /\ x.at[2] = 0 /\ x.keys = <<>>
  OBVIOUS
<1>5. Each(h) = Repeat(N, step, x).keys
  BY DEF Each
<1>6. \A b, i : Passed(h, K, b, i) \subseteq K
  BY DEF Passed
<1> HIDE DEF Q, step, x
<1>7. <<0, x>> \in Q
  <2>1. Passed(h, K, -1, 0) = {}
    <3>1. \A k \in K : HashValue(k, h.num_buckets) \in 0..h.num_buckets - 1
      BY KeyAt
    <3>2. \A k \in K : HashValue(k, h.num_buckets) >= 0
      BY <1>1, <3>1
    <3>3. QED
      BY <1>1, <3>1, <3>2 DEF Passed
  <2>2. Lists(<<>>, {}) /\ Len(<<>>) = 0
    BY DEF Lists
  <2>3. Cursor(h, -1, 0)
    BY DEF Cursor
  <2>4. Good(0, <<>>, -1, 0)
    BY <2>1, <2>2, <2>3
  <2> HIDE DEF Good
  <2>5. QED
    BY <1>2, <1>4, <2>4
<1>8. RepeatKeeps(N, V, Q, step)
  <2>1. SUFFICES ASSUME NEW n \in 1..N, NEW v \in V, <<n - 1, v>> \in Q
                 PROVE  <<n, EachTurn(h, v)>> \in Q
    BY <1>3 DEF RepeatKeeps
  <2> DEFINE b == v.at[1]
             i == v.at[2]
             s == v.keys
             to == CfuNext(h, <<b, i>>)
             P == Passed(h, K, b, i)
  <2>2. n \in Nat /\ n - 1 \in Nat /\ b \in Int /\ i \in Nat /\ v.at = <<b, i>> /\ s \in Seq(Keys)
    BY <1>1
  <2>3. Cursor(h, b, i) /\ Lists(s, P) /\ (Len(s) = n - 1 \/ P = K)
    BY <1>2, <2>1, <2>2
  <2>4. EachTurn(h, v) = IF to[2] = 0 THEN v
                         ELSE [at |-> to, keys |-> Append(s, h.buckets[to[1]][to[2]].key)]
    BY <2>2 DEF EachTurn
  <2> HIDE DEF b, i, s, to, P
  <2>5. CASE to[2] = 0 /\ P = K
    <3>1. Good(n, s, b, i)
      BY <2>3, <2>5 DEF P
    <3> HIDE DEF Good
    <3>2. <<n, v>> \in Q
      BY <1>2, <2>2, <3>1 DEF s, b, i
    <3>3. QED
      BY <2>4, <2>5, <3>2
  <2>6. ASSUME NEW c \in 0..h.num_buckets - 1, NEW j \in 1..Len(h.buckets[c]), to = <<c, j>>,
               h.buckets[c][j].key \notin P, Passed(h, K, c, j) = P \cup {h.buckets[c][j].key}
        PROVE  <<n, EachTurn(h, v)>> \in Q
    <3> DEFINE k == h.buckets[c][j].key
               r == [at |-> <<c, j>>, keys |-> Append(s, k)]
    <3>1. j \in Nat /\ j # 0 /\ c \in Int
      BY <1>1
    <3>2. EachTurn(h, v) = r
      BY <2>4, <2>6, <3>1
    <3>3. k \in K /\ k \in Keys
      BY <1>1, EntryAt
    <3> HIDE DEF k
    <3>4. Append(s, k) \in Seq(Keys)
      BY <2>2, <3>3
    <3>5. r \in V /\ r.at[1] = c /\ r.at[2] = j /\ r.keys = Append(s, k)
      BY <3>1, <3>4
    <3>6. P \subseteq K /\ k \notin P
      BY <1>6, <2>6 DEF P, k
    <3>7. Len(s) = n - 1
      BY <2>3, <3>3, <3>6
    <3>8. Lists(Append(s, k), P \cup {k}) /\ Len(Append(s, k)) = n
      BY <2>2, <2>3, <3>6, <3>7, ListsOne
    <3>9. Good(n, Append(s, k), c, j)
      BY <2>6, <3>8 DEF Cursor, k
    <3> HIDE DEF Good, r
    <3>10. <<n, r>> \in Q
      BY <1>2, <2>2, <3>5, <3>9
    <3>11. QED
      BY <3>2, <3>10
  <2>7. \/ to[2] = 0 /\ P = K
        \/ \E c \in 0..h.num_buckets - 1 : \E j \in 1..Len(h.buckets[c]) :
             /\ to = <<c, j>> /\ h.buckets[c][j].key \notin P
             /\ Passed(h, K, c, j) = P \cup {h.buckets[c][j].key}
    <3>1. \/ to = <<h.num_buckets, 0>> /\ P = K
          \/ \E c \in 0..h.num_buckets - 1 : \E j \in 1..Len(h.buckets[c]) :
               /\ to = <<c, j>> /\ h.buckets[c][j].key \notin P
               /\ Passed(h, K, c, j) = P \cup {h.buckets[c][j].key}
      <4>1. Moves(h, K, b, i)
        BY <2>2, <2>3, NextIs
      <4>2. QED
        BY <4>1 DEF to, P, Moves
    <3>2. to = <<h.num_buckets, 0>> => to[2] = 0
      OBVIOUS
    <3>3. QED
      BY <3>1, <3>2
  <2>8. QED
    BY <2>5, <2>6, <2>7
<1> DEFINE e == Repeat(N, step, x)
<1>9. <<N, e>> \in Q
  BY <1>1, <1>4, <1>7, <1>8, RepeatEnds
<1> HIDE DEF e
<1>10. e \in V
  BY <1>4, <1>9
<1> DEFINE P == Passed(h, K, e.at[1], e.at[2])
<1>11. Lists(e.keys, P) /\ (Len(e.keys) = N \/ P = K)
  BY <1>1, <1>2, <1>9, <1>10
<1>12. P \subseteq K
  BY <1>6
<1> HIDE DEF P, Good, N
<1>13. P = K
  <2>1. IsFiniteSet(P) /\ IsFiniteSet(K)
    BY <1>1, <1>12, FS_Subset
  <2>2. Cardinality(P) = Len(e.keys)
    BY <1>11, <2>1, ListsLen
  <2>3. Cardinality(P) <= Cardinality(K) /\ Cardinality(K) <= N /\ (Cardinality(K) = Cardinality(P) => K = P)
    BY <1>1, <1>12, <2>1, FS_Subset
  <2>4. Cardinality(P) \in Nat /\ Cardinality(K) \in Nat
    BY <2>1, FS_CardinalityType
  <2>5. QED
    BY <1>1, <1>11, <2>2, <2>3, <2>4
<1>14. QED
  BY <1>5, <1>11, <1>13 DEF e

----------------------------------------------------------------------------
(* The table holds f and counts it. *)
Counting(h, f) == Holding(h, f) /\ h.entries = Cardinality(DOMAIN f)

CfuInv == \E f : Counting(cfu, f)

LEMMA CountedIs ==
  ASSUME NEW h, NEW f, Counting(h, f)
  PROVE  /\ CountsAll(h, f)
         /\ \A k : k \in DOMAIN f => h.entries # 0 /\ Cardinality(DOMAIN f) # 0
<1>1. IsFiniteSet(DOMAIN f) /\ Cardinality(DOMAIN f) \in Nat
  BY KeyCount DEF Counting
<1>2. \A k : k \in DOMAIN f => Cardinality(DOMAIN f) # 0
  BY <1>1, FS_EmptySet
<1>3. QED
  BY <1>1, <1>2 DEF Counting, CountsAll

LEMMA PutCounts ==
  ASSUME NEW h, NEW f, Counting(h, f), NEW k \in Keys, NEW d \in CfuData
  PROVE  Counting(CfuPut(h, k, d).h, PutIn(f, k, d))
<1> DEFINE g == CfuPut(h, k, d).h
           K == DOMAIN f
<1>1. Holding(h, f) /\ h.entries = Cardinality(K)
  BY DEF Counting
<1>2. Holding(g, PutIn(f, k, d)) /\ g.entries = IF k \in K THEN h.entries ELSE h.entries + 1
  BY <1>1, PutIs
<1>3. IsFiniteSet(K) /\ Cardinality(K) \in Nat
  BY <1>1, KeyCount
<1>4. DOMAIN PutIn(f, k, d) = K \cup {k}
  BY DEF PutIn
<1>5. Cardinality(K \cup {k}) = IF k \in K THEN Cardinality(K) ELSE Cardinality(K) + 1
  BY <1>3, FS_AddElement
<1> HIDE DEF g, K
<1>6. Counting(g, PutIn(f, k, d))
  BY <1>1, <1>2, <1>3, <1>4, <1>5 DEF Counting
<1>7. QED
  BY <1>6 DEF g

LEMMA DeleteCounts ==
  ASSUME NEW h, NEW f, Counting(h, f), NEW k \in Keys
  PROVE  Counting(CfuDelete(h, k).h, Lacking(f, {k}))
<1> DEFINE g == CfuDelete(h, k).h
           K == DOMAIN f
<1>1. Holding(h, f) /\ h.entries = Cardinality(K)
  BY DEF Counting
<1>2. k \in K => h.entries # 0
  BY CountedIs
<1>3. Holding(g, Lacking(f, {k})) /\ g.entries = IF k \in K THEN h.entries - 1 ELSE h.entries
  BY <1>1, <1>2, DeleteIs
<1>4. IsFiniteSet(K) /\ Cardinality(K) \in Nat
  BY <1>1, KeyCount
<1>5. DOMAIN Lacking(f, {k}) = K \ {k}
  BY DEF Lacking
<1>6. Cardinality(K \ {k}) = IF k \in K THEN Cardinality(K) - 1 ELSE Cardinality(K)
  BY <1>4, FS_RemoveElement
<1> HIDE DEF g, K
<1>7. Counting(g, Lacking(f, {k}))
  BY <1>1, <1>3, <1>4, <1>5, <1>6 DEF Counting
<1>8. QED
  BY <1>7 DEF g

LEMMA EmptyCounts ==
  ASSUME NEW h, Holding(h, NoData), h.entries = 0
  PROVE  Counting(h, NoData)
BY NoDataIs, FS_EmptySet DEF Counting

LEMMA FlagCounts ==
  ASSUME NEW h, NEW f, Counting(h, f)
  PROVE  Counting([h EXCEPT !.frozen = ~@], f)
<1> DEFINE g == [h EXCEPT !.frozen = ~@]
<1>1. h \in Shells
  BY DEF Counting, Holding
<1>2. /\ g \in Shells /\ g.entries = h.entries /\ g.buckets = h.buckets
      /\ g.num_buckets = h.num_buckets
  BY <1>1 DEF Shells
<1> HIDE DEF g
<1>3. Counting(g, f)
  BY <1>2 DEF Counting, Holding
<1>4. QED
  BY <1>3 DEF g

(* However entries are put, deleted and moved to other buckets, each key    *)
(* has one entry, in the bucket of its hash, and all of them are counted.   *)
THEOREM CfuInvariance == CfuSpec => []CfuInv
<1>1. CfuInit => CfuInv
  <2> SUFFICES ASSUME CfuInit PROVE CfuInv
    OBVIOUS
  <2>1. cfu = CfuTable(CfuSize) /\ CfuSize \in Nat
    BY CfuAssumption DEF CfuInit
  <2>2. Counting(cfu, NoData)
    BY <2>1, TableIs, EmptyCounts
  <2>3. QED
    BY <2>2 DEF CfuInv
<1>2. CfuInv /\ [CfuhashNext]_cfu => CfuInv'
  <2> SUFFICES ASSUME CfuInv, [CfuhashNext]_cfu PROVE CfuInv'
    OBVIOUS
  <2>1. PICK f : Counting(cfu, f)
    BY DEF CfuInv
  <2>2. ASSUME CfuPutAction
        PROVE  CfuInv'
    <3>1. PICK k \in Keys, d \in CfuData : cfu' = CfuPut(cfu, k, d).h
      BY <2>2 DEF CfuPutAction
    <3>2. Counting(cfu', PutIn(f, k, d))
      BY <2>1, <3>1, PutCounts
    <3>3. QED
      BY <3>2 DEF CfuInv
  <2>3. ASSUME CfuDeleteAction
        PROVE  CfuInv'
    <3>1. PICK k \in Keys : cfu' = CfuDelete(cfu, k).h
      BY <2>3 DEF CfuDeleteAction
    <3>2. Counting(cfu', Lacking(f, {k}))
      BY <2>1, <3>1, DeleteCounts
    <3>3. QED
      BY <3>2 DEF CfuInv
  <2>4. ASSUME CfuClearAction
        PROVE  CfuInv'
    <3>1. cfu' = CfuClear(cfu) /\ Holding(cfu, f)
      BY <2>1, <2>4 DEF CfuClearAction, Counting
    <3>2. Counting(cfu', NoData)
      BY <3>1, ClearIs, EmptyCounts
    <3>3. QED
      BY <3>2 DEF CfuInv
  <2>5. ASSUME CfuFlag
        PROVE  CfuInv'
    <3>1. cfu' = [cfu EXCEPT !.frozen = ~@]
      BY <2>5 DEF CfuFlag
    <3>2. Counting(cfu', f)
      BY <2>1, <3>1, FlagCounts
    <3>3. QED
      BY <3>2 DEF CfuInv
  <2>6. CASE UNCHANGED cfu
    BY <2>6 DEF CfuInv
  <2>7. QED
    BY <2>2, <2>3, <2>4, <2>5, <2>6 DEF CfuhashNext
<1>3. QED
  BY <1>1, <1>2, PTL DEF CfuSpec

(* The contents that the calls promise. *)
LEMMA PutGives ==
  ASSUME NEW h, NEW f, Holding(h, f), NEW k \in Keys, NEW d \in CfuData
  PROVE  Contents(CfuPut(h, k, d).h) = [j \in Stored(h) \cup {k} |-> IF j = k THEN d ELSE CfuGet(h, j)]
<1>1. Contents(CfuPut(h, k, d).h) = PutIn(f, k, d)
  BY PutIs, ContentsIs
<1>2. Stored(h) = DOMAIN f /\ \A j \in DOMAIN f : CfuGet(h, j) = f[j]
  BY ContentsIs
<1>3. QED
  BY <1>1, <1>2 DEF PutIn

Rest(h, ks) == [j \in Stored(h) \ ks |-> CfuGet(h, j)]

LEMMA WithoutGives ==
  ASSUME NEW h, NEW f, Holding(h, f), NEW g, NEW ks, Holding(g, Lacking(f, ks))
  PROVE  Contents(g) = Rest(h, ks)
<1>1. Contents(g) = Lacking(f, ks)
  BY ContentsIs
<1>2. Stored(h) = DOMAIN f /\ \A j \in DOMAIN f : CfuGet(h, j) = f[j]
  BY ContentsIs
<1>3. QED
  BY <1>1, <1>2 DEF Lacking, Rest

LEMMA BucketsHold == CfuInv => CfuhashBuckets
<1> SUFFICES ASSUME CfuInv PROVE CfuhashBuckets
  OBVIOUS
<1>1. PICK f : Counting(cfu, f)
  BY DEF CfuInv
<1>2. Holding(cfu, f) /\ CountsAll(cfu, f) /\ cfu.entries = Cardinality(DOMAIN f)
  BY <1>1, CountedIs DEF Counting
<1>3. Stored(cfu) = DOMAIN f /\ IsFiniteSet(DOMAIN f)
  BY <1>2, ContentsIs, KeyCount
<1>4. DOMAIN cfu.buckets = 0..cfu.num_buckets - 1
  BY <1>2 DEF Holding, Spread, Chains
<1>5. ASSUME NEW b \in DOMAIN cfu.buckets, NEW i \in DOMAIN cfu.buckets[b]
      PROVE  HashValue(cfu.buckets[b][i].key, cfu.num_buckets) = b
  <2>1. DOMAIN cfu.buckets[b] = 1..Len(cfu.buckets[b])
    BY <1>2 DEF Holding, Spread, Chains
  <2>2. QED
    BY <1>2, <1>4, <2>1, EntryAt
<1>6. Lists(Each(cfu), DOMAIN f) /\ Lists(CfuKeys(cfu), DOMAIN f)
  BY <1>2, EachIs, KeysIs
<1>7. Range(Each(cfu)) = DOMAIN f /\ IsInjective(Each(cfu)) /\ Range(CfuKeys(cfu)) = DOMAIN f
  BY <1>3, <1>6, ListsLen
<1>8. QED
  BY <1>2, <1>3, <1>5, <1>7 DEF CfuhashBuckets

(* A change of the table, merged into it. *)
LEMMA MergesAre ==
  ASSUME NEW h, NEW f, Counting(h, f), NEW k \in Keys
  PROVE  /\ Contents(CfuMerge(h, CfuDelete(h, k).h)) = Contents(h)
         /\ \A d \in CfuData : Contents(CfuMerge(h, CfuPut(h, k, d).h)) = Contents(CfuPut(h, k, d).h)
<1>1. Holding(h, f) /\ CountsAll(h, f) /\ IsData(f) /\ Contents(h) = f
  BY CountedIs, ContentsIs DEF Counting, Holding
<1>2. Contents(CfuMerge(h, CfuDelete(h, k).h)) = f
  <2> DEFINE p == CfuDelete(h, k).h
             g == Lacking(f, {k})
  <2>1. Holding(p, g) /\ CountsAll(p, g)
    BY DeleteCounts, CountedIs DEF Counting
  <2>2. Over(g, DOMAIN g, f) = f
    BY <1>1, OverPart
  <2> HIDE DEF p, g
  <2>3. Contents(CfuMerge(h, p)) = Over(g, DOMAIN g, f)
    BY <1>1, <2>1, MergeIs
  <2>4. QED
    BY <2>2, <2>3 DEF p
<1>3. ASSUME NEW d \in CfuData
      PROVE  Contents(CfuMerge(h, CfuPut(h, k, d).h)) = Contents(CfuPut(h, k, d).h)
  <2> DEFINE p == CfuPut(h, k, d).h
             g == PutIn(f, k, d)
  <2>1. Holding(p, g) /\ CountsAll(p, g)
    BY PutCounts, CountedIs DEF Counting
  <2>2. Over(g, DOMAIN g, f) = g
    BY <1>1, OverLater
  <2> HIDE DEF p, g
  <2>3. Contents(CfuMerge(h, p)) = Over(g, DOMAIN g, f) /\ Contents(p) = g
    BY <1>1, <2>1, MergeIs, ContentsIs
  <2>4. QED
    BY <2>2, <2>3 DEF p
<1>4. QED
  BY <1>1, <1>2, <1>3

LEMMA CallsHold == CfuInv => CfuhashCalls
<1> SUFFICES ASSUME CfuInv PROVE CfuhashCalls
  OBVIOUS
<1>1. PICK f : Counting(cfu, f)
  BY DEF CfuInv
<1>2. Holding(cfu, f) /\ CountsAll(cfu, f)
  BY <1>1, CountedIs DEF Counting
<1>3. Stored(cfu) = DOMAIN f /\ Contents(cfu) = f
  BY <1>2, ContentsIs
<1>4. ASSUME NEW k \in Keys
      PROVE  /\ Contents(CfuDelete(cfu, k).h) = [j \in Stored(cfu) \ {k} |-> CfuGet(cfu, j)]
             /\ (CfuDelete(cfu, k).ret = NoKey) <=> k \notin Stored(cfu)
  <2>1. k \in DOMAIN f => cfu.entries # 0
    BY <1>1, CountedIs
  <2>2. /\ Holding(CfuDelete(cfu, k).h, Lacking(f, {k}))
        /\ (CfuDelete(cfu, k).ret = NoKey) <=> k \notin Stored(cfu)
    BY <1>2, <1>3, <2>1, DeleteIs
  <2>3. Contents(CfuDelete(cfu, k).h) = Rest(cfu, {k})
    BY <1>2, <2>2, WithoutGives
  <2>4. QED
    BY <2>2, <2>3 DEF Rest
<1>5. ASSUME NEW k \in Keys, NEW d \in CfuData
      PROVE  /\ Contents(CfuPut(cfu, k, d).h) =
                  [j \in Stored(cfu) \cup {k} |-> IF j = k THEN d ELSE CfuGet(cfu, j)]
             /\ CfuPut(cfu, k, d).old = CfuGet(cfu, k)
             /\ CfuPut(cfu, k, d).ret = 1 /\ ~cfu.frozen =>
                  4 * CfuPut(cfu, k, d).h.entries <= 3 * CfuPut(cfu, k, d).h.num_buckets
  BY <1>2, PutIs, PutGives
<1>6. Contents(CfuCopy(cfu, CfuTable(CfuSize))) = Contents(cfu)
  <2>1. CfuSize \in Nat
    BY CfuAssumption
  <2>2. Holding(CfuCopy(cfu, CfuTable(CfuSize)), f)
    BY <1>2, <2>1, CopyHolds
  <2>3. QED
    BY <1>3, <2>2, ContentsIs
<1>7. QED
  BY <1>1, <1>4, <1>5, <1>6, MergesAre DEF CfuhashCalls

(* cfuhash.c: entries are where lookups look and as many as `entries` says, *)
(* an iteration and cfuhash_keys() return every key once, and every call    *)
(* does what it returns.                                                    *)
THEOREM CfuhashSoundHolds == CfuSpec => []CfuhashSound
<1>1. CfuInv => CfuhashSound
  BY BucketsHold, CallsHold DEF CfuhashSound
<1>2. QED
  BY <1>1, CfuInvariance, PTL
=============================================================================
