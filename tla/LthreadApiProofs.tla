-------------------------- MODULE LthreadApiProofs --------------------------
(***************************************************************************)
(* Proofs about LthreadApi, for any number of lthreads: that each lthread  *)
(* alive is in exactly one place from which it will be resumed, and that   *)
(* nothing remembers a freed one.  ApiInv says, place by place, which      *)
(* lthreads may be there.                                                  *)
(***************************************************************************)
EXTENDS LthreadApi, TLAPS

Flags == {"SLEEPING", "EXPIRED", "BUSY", "CANCELLED", "DETACH", "EXITED"}

Calling == {"sleep", "fd", "cond", "join"}

ApiTypeOK ==
  /\ at \in [Lthreads -> {"unborn", "new", "run", "dead", "freed"} \cup Calling]
  /\ flags \in [Lthreads -> SUBSET Flags]
  /\ ltJoin \in [Lthreads -> Lthreads \cup {None}]
  /\ target \in [Lthreads -> Lthreads \cup {None}]
  /\ ready \in Seq(Lthreads)
  /\ blocked \in Seq(Lthreads)
  /\ waiting \in SUBSET Lthreads
  /\ events \in SUBSET Lthreads
  /\ current \in Lthreads \cup {None}
  /\ phase \in {"top", "expire", "ready", "buried", "events", "done", "broken"}

InSeq(x, q) == \E i \in 1..Len(q) : q[i] = x
Distinct(q) == \A i, j \in 1..Len(q) : q[i] = q[j] => i = j

(* The lthread that runs, and when none can. *)
RunOK ==
  /\ \A x \in Lthreads : at[x] = "run" <=> current = x
  /\ phase \in {"top", "buried", "done", "broken"} => current = None
  /\ phase = "done" => \A x \in Lthreads : ~Alive(x)

(* Who is ready waits for nothing else. *)
ReadyOK ==
  /\ Distinct(ready)
  /\ \A x \in Lthreads : InSeq(x, ready) => at[x] \in {"new"} \cup Calling

BlockedOK ==
  /\ Distinct(blocked)
  /\ \A x \in Lthreads : InSeq(x, blocked) => at[x] = "cond" /\ ~InSeq(x, ready)

WaitingOK == \A x \in waiting : at[x] = "fd" /\ ~InSeq(x, ready)

(* The two trees and the two marks of a timeout. *)
SleepOK == \A x \in Lthreads :
  /\ "SLEEPING" \in flags[x] => at[x] \in Calling /\ ~InSeq(x, ready)
  /\ "EXPIRED" \in flags[x] /\ Alive(x) => current = x /\ phase = "expire"

(* A target that is alive names its joiner, one that has ended has made it  *)
(* ready; it is the target of nobody else, and nobody can have detached it. *)
JoinOK == \A x \in Lthreads :
  /\ target[x] # None <=> at[x] = "join"
  /\ target[x] # None =>
       /\ target[x] # x /\ at[target[x]] \notin {"unborn", "freed"}
       /\ Alive(target[x]) => ltJoin[target[x]] = x
       /\ at[target[x]] = "dead" => InSeq(x, ready)
       /\ \A y \in Lthreads \ {x} : target[y] # target[x]
  /\ Alive(x) /\ ltJoin[x] # None =>
       /\ target[ltJoin[x]] = x
       /\ ~InSeq(ltJoin[x], ready)
       /\ "DETACH" \notin flags[x]

(* Everyone who is not ready waits where its call says. *)
KeptOK == \A x \in Lthreads :
  /\ ~InSeq(x, ready) =>
       /\ at[x] # "new"
       /\ at[x] = "sleep" => "SLEEPING" \in flags[x]
       /\ at[x] = "fd" => x \in waiting
       /\ at[x] = "cond" => InSeq(x, blocked)
  /\ at[x] \in {"cond", "join"} => "BUSY" \in flags[x]

(* Nobody has exited and goes on, a cancelled one is ready to be buried,    *)
(* and who was not born has no history.                                     *)
EndOK == \A x \in Lthreads :
  /\ Alive(x) => "EXITED" \notin flags[x]
  /\ Alive(x) /\ "CANCELLED" \in flags[x] => at[x] \in {"sleep", "fd"} /\ InSeq(x, ready)
  /\ at[x] = "dead" =>
       {"EXITED", "CANCELLED"} \cap flags[x] # {} /\ "DETACH" \notin flags[x]
  /\ at[x] = "unborn" => flags[x] = {} /\ ltJoin[x] = None

(* Whose state is read after its end: one that was cancelled. *)
BuriedOK ==
  /\ phase \in {"buried", "broken"} <=> buried # None
  /\ buried # None =>
       /\ buried \in Lthreads /\ at[buried] \in {"dead", "freed"}
       /\ "CANCELLED" \in flags[buried]

ApiInv ==
  /\ ApiTypeOK /\ RunOK /\ ReadyOK /\ BlockedOK /\ WaitingOK
  /\ SleepOK /\ JoinOK /\ KeptOK /\ EndOK

-----------------------------------------------------------------------------
(* Membership and distinctness through the operations on a queue.           *)

LEMMA EmptyFacts ==
  ASSUME NEW x
  PROVE  ~InSeq(x, <<>>) /\ Distinct(<<>>)
BY DEF InSeq, Distinct

LEMMA HeadFacts ==
  ASSUME NEW S, NEW q \in Seq(S), q # <<>>
  PROVE  /\ Head(q) \in S
         /\ Tail(q) \in Seq(S)
         /\ InSeq(Head(q), q)
         /\ \A x : InSeq(x, q) <=> x = Head(q) \/ InSeq(x, Tail(q))
         /\ Distinct(q) => Distinct(Tail(q)) /\ ~InSeq(Head(q), Tail(q))
BY DEF InSeq, Distinct

LEMMA AppendFacts ==
  ASSUME NEW S, NEW q \in Seq(S), NEW y \in S
  PROVE  /\ Append(q, y) \in Seq(S)
         /\ \A x : InSeq(x, Append(q, y)) <=> x = y \/ InSeq(x, q)
         /\ Distinct(q) /\ ~InSeq(y, q) => Distinct(Append(q, y))
BY DEF InSeq, Distinct

LEMMA ConcatFacts ==
  ASSUME NEW S, NEW q \in Seq(S), NEW r \in Seq(S)
  PROVE  /\ q \o r \in Seq(S)
         /\ \A x : InSeq(x, q \o r) <=> InSeq(x, q) \/ InSeq(x, r)
         /\ Distinct(q) /\ Distinct(r) /\ (\A x \in S : ~InSeq(x, q) \/ ~InSeq(x, r))
              => Distinct(q \o r)
<1>1. q \o r \in Seq(S) OBVIOUS
<1>2. \A x : InSeq(x, q \o r) <=> InSeq(x, q) \/ InSeq(x, r)
  <2> SUFFICES ASSUME NEW x PROVE InSeq(x, q \o r) <=> InSeq(x, q) \/ InSeq(x, r)
    OBVIOUS
  <2>1. InSeq(x, q \o r) => InSeq(x, q) \/ InSeq(x, r)
    <3> SUFFICES ASSUME NEW i \in 1..Len(q \o r), (q \o r)[i] = x
                 PROVE  InSeq(x, q) \/ InSeq(x, r)
      BY DEF InSeq
    <3>1. CASE i <= Len(q) BY <3>1 DEF InSeq
    <3>2. CASE i > Len(q)
      <4>1. i - Len(q) \in 1..Len(r) /\ r[i - Len(q)] = x BY <3>2
      <4> QED BY <4>1 DEF InSeq
    <3> QED BY <3>1, <3>2
  <2>2. InSeq(x, q) => InSeq(x, q \o r)
    <3> SUFFICES ASSUME NEW i \in 1..Len(q), q[i] = x PROVE InSeq(x, q \o r)
      BY DEF InSeq
    <3>1. i \in 1..Len(q \o r) /\ (q \o r)[i] = x OBVIOUS
    <3> QED BY <3>1 DEF InSeq
  <2>3. InSeq(x, r) => InSeq(x, q \o r)
    <3> SUFFICES ASSUME NEW i \in 1..Len(r), r[i] = x PROVE InSeq(x, q \o r)
      BY DEF InSeq
    <3>1. Len(q) + i \in 1..Len(q \o r) /\ (q \o r)[Len(q) + i] = x OBVIOUS
    <3> QED BY <3>1 DEF InSeq
  <2> QED BY <2>1, <2>2, <2>3
<1>3. ASSUME Distinct(q), Distinct(r), \A x \in S : ~InSeq(x, q) \/ ~InSeq(x, r)
      PROVE  Distinct(q \o r)
  <2> SUFFICES ASSUME NEW i \in 1..Len(q \o r), NEW j \in 1..Len(q \o r),
                      (q \o r)[i] = (q \o r)[j]
               PROVE  i = j
    BY DEF Distinct
  <2>1. CASE i <= Len(q) /\ j <= Len(q)
    <3>1. q[i] = q[j] BY <2>1
    <3> QED BY <1>3, <2>1, <3>1 DEF Distinct
  <2>2. CASE i > Len(q) /\ j > Len(q)
    <3>1. /\ i - Len(q) \in 1..Len(r) /\ j - Len(q) \in 1..Len(r)
          /\ r[i - Len(q)] = r[j - Len(q)]
      BY <2>2
    <3>2. i - Len(q) = j - Len(q) BY <1>3, <3>1 DEF Distinct
    <3> QED BY <3>2
  <2>3. \A m \in 1..Len(q), n \in 1..Len(r) : q[m] # r[n]
    BY <1>3 DEF InSeq
  <2>4. CASE i <= Len(q) /\ j > Len(q)
    <3>1. /\ i \in 1..Len(q) /\ j - Len(q) \in 1..Len(r)
          /\ q[i] = r[j - Len(q)]
      BY <2>4
    <3> QED BY <2>3, <3>1
  <2>5. CASE i > Len(q) /\ j <= Len(q)
    <3>1. /\ j \in 1..Len(q) /\ i - Len(q) \in 1..Len(r)
          /\ q[j] = r[i - Len(q)]
      BY <2>5
    <3> QED BY <2>3, <3>1
  <2> QED BY <2>1, <2>2, <2>4, <2>5
<1> QED BY <1>1, <1>2, <1>3

(* An element that is in the queue once leaves it, the others stay. *)
LEMMA OthersFacts ==
  ASSUME NEW S, NEW q \in Seq(S), NEW x, Distinct(q)
  PROVE  /\ Others(q, x) \in Seq(S)
         /\ Distinct(Others(q, x))
         /\ \A y : InSeq(y, Others(q, x)) <=> InSeq(y, q) /\ y # x
<1> USE DEF InSeq, Distinct
<1>1. CASE Spots(q, x) = {}
  BY <1>1 DEF Others, Spots
<1>2. CASE Spots(q, x) # {}
  <2> DEFINE k == CHOOSE i \in Spots(q, x) : TRUE
             r == [i \in 1..Len(q) - 1 |-> IF i < k THEN q[i] ELSE q[i + 1]]
  <2>1. k \in 1..Len(q) /\ q[k] = x BY <1>2 DEF Spots
  <2>2. Others(q, x) = r BY <1>2 DEF Others
  <2> HIDE DEF k
  <2>3. r \in Seq(S) /\ Len(r) = Len(q) - 1
    <3>1. Len(q) \in Nat /\ Len(q) - 1 \in Nat BY <2>1
    <3>2. r \in [1..Len(q) - 1 -> S] BY <2>1, <3>1
    <3> QED BY <3>1, <3>2
  <2>4. \A i \in 1..Len(r) : r[i] = IF i < k THEN q[i] ELSE q[i + 1] BY <2>3
  <2> HIDE DEF r
  <2>5. Distinct(r)
    <3> SUFFICES ASSUME NEW i \in 1..Len(r), NEW j \in 1..Len(r), r[i] = r[j]
                 PROVE  i = j
      OBVIOUS
    <3>1. CASE i < k /\ j < k BY <2>1, <2>3, <2>4, <3>1
    <3>2. CASE i < k /\ j >= k BY <2>1, <2>3, <2>4, <3>2
    <3>3. CASE i >= k /\ j < k BY <2>1, <2>3, <2>4, <3>3
    <3>4. CASE i >= k /\ j >= k
      <4>1. i + 1 \in 1..Len(q) /\ j + 1 \in 1..Len(q) /\ q[i + 1] = q[j + 1]
        BY <2>1, <2>3, <2>4, <3>4
      <4> QED BY <4>1
    <3> QED BY <2>1, <3>1, <3>2, <3>3, <3>4
  <2>6. ASSUME NEW y PROVE InSeq(y, r) <=> InSeq(y, q) /\ y # x
    <3>1. ASSUME NEW i \in 1..Len(r), r[i] = y PROVE InSeq(y, q) /\ y # x
      <4>1. CASE i < k BY <2>1, <2>3, <2>4, <3>1, <4>1
      <4>2. CASE i >= k
        <5>1. i + 1 \in 1..Len(q) /\ q[i + 1] = y BY <2>1, <2>3, <2>4, <3>1, <4>2
        <5>2. k # i + 1 BY <2>1, <4>2
        <5>3. y # x BY <2>1, <5>1, <5>2
        <5> QED BY <5>1, <5>3
      <4> QED BY <2>1, <4>1, <4>2
    <3>2. ASSUME NEW i \in 1..Len(q), q[i] = y, y # x PROVE InSeq(y, r)
      <4>1. CASE i < k
        <5>1. i \in 1..Len(r) /\ r[i] = y BY <2>1, <2>3, <2>4, <3>2, <4>1
        <5> QED BY <5>1
      <4>2. CASE i > k
        <5>1. i - 1 \in 1..Len(r) /\ r[i - 1] = y BY <2>1, <2>3, <2>4, <3>2, <4>2
        <5> QED BY <5>1
      <4> QED BY <2>1, <3>2, <4>1, <4>2
    <3> QED BY <3>1, <3>2
  <2> QED BY <2>2, <2>3, <2>5, <2>6
<1> QED BY <1>1, <1>2

(* _lthread_desched_sleep() takes the two marks of a timeout and no other. *)
LEMMA DeschedFacts ==
  ASSUME NEW f \in [Lthreads -> SUBSET Flags], NEW x \in Lthreads
  PROVE  /\ Desched(f, x) \in [Lthreads -> SUBSET Flags]
         /\ \A y \in Lthreads \ {x} : Desched(f, x)[y] = f[y]
         /\ "SLEEPING" \notin Desched(f, x)[x]
         /\ "EXPIRED" \in Desched(f, x)[x] => "EXPIRED" \in f[x]
         /\ "SLEEPING" \in f[x] => "EXPIRED" \notin Desched(f, x)[x]
         /\ \A g \in Flags \ {"SLEEPING", "EXPIRED"} :
              g \in Desched(f, x)[x] <=> g \in f[x]
<1>1. Desched(f, x) = [f EXCEPT ![x] = IF "SLEEPING" \in f[x]
                                       THEN f[x] \ {"SLEEPING", "EXPIRED"} ELSE f[x]]
  BY DEF Desched
<1> QED BY <1>1 DEF Flags

-----------------------------------------------------------------------------
(* The scheduler: one lemma for each action. *)

LEMMA ApiInitInv ==
  ASSUME ApiInit
  PROVE  ApiInv
<1> USE ApiAssumption DEF ApiInit, Alive
<1>1. ApiTypeOK BY DEF ApiTypeOK, Calling, Flags
<1>q. /\ Distinct(ready) /\ \A x \in Lthreads : InSeq(x, ready) <=> x = Root
      /\ Distinct(blocked) /\ \A x \in Lthreads : ~InSeq(x, blocked)
  BY EmptyFacts DEF InSeq, Distinct
<1>2. RunOK BY DEF RunOK
<1>3. ReadyOK BY <1>q DEF ReadyOK
<1>4. BlockedOK BY <1>q DEF BlockedOK
<1>5. WaitingOK BY DEF WaitingOK
<1>6. SleepOK BY DEF SleepOK
<1>7. JoinOK BY DEF JoinOK
<1>8. KeptOK BY <1>q DEF KeptOK
<1>9. EndOK BY DEF EndOK
<1> QED BY <1>1, <1>2, <1>3, <1>4, <1>5, <1>6, <1>7, <1>8, <1>9 DEF ApiInv

(* The actions that move lthread_run() alone. *)
LEMMA PhaseStep ==
  ASSUME ApiInv, UNCHANGED <<lts, ready, waiting, blocked>>, current = None,
         UNCHANGED current, events' \in SUBSET Lthreads,
         phase' \in {"top", "expire", "ready", "buried", "events", "done", "broken"},
         phase' = "done" => \A x \in Lthreads : ~Alive(x)
  PROVE  ApiInv'
<1> USE ApiAssumption DEF ApiInv, lts, Alive
<1>1. ApiTypeOK' BY DEF ApiTypeOK
<1>2. RunOK' BY DEF RunOK
<1>3. ReadyOK' BY DEF ReadyOK
<1>4. BlockedOK' BY DEF BlockedOK
<1>5. WaitingOK' BY DEF WaitingOK
<1>6. SleepOK' BY DEF SleepOK, ApiTypeOK
<1>7. JoinOK' BY DEF JoinOK
<1>8. KeptOK' BY DEF KeptOK
<1>9. EndOK' BY DEF EndOK
<1> QED BY <1>1, <1>2, <1>3, <1>4, <1>5, <1>6, <1>7, <1>8, <1>9

(* With every tree, list and mark empty nobody is left to run: a call that  *)
(* waits without a deadline is on waiting or has the mark BUSY.             *)
LEMMA NobodyLeft ==
  ASSUME ApiInv, current = None, IsDone
  PROVE  \A x \in Lthreads : ~Alive(x)
<1> SUFFICES ASSUME NEW x \in Lthreads, Alive(x) PROVE FALSE
  OBVIOUS
<1> USE ApiAssumption DEF ApiInv
<1>1. ~InSeq(x, ready) BY EmptyFacts DEF IsDone
<1>2. /\ "SLEEPING" \notin flags[x] /\ "BUSY" \notin flags[x] /\ x \notin waiting
  BY DEF IsDone, Sleeping, Is
<1>3. at[x] \notin {"new", "run", "sleep", "fd"}
  BY <1>1, <1>2 DEF KeptOK, RunOK
<1>4. at[x] \notin {"cond", "join"} BY <1>2 DEF KeptOK
<1> QED BY <1>3, <1>4 DEF ApiTypeOK, Alive, Calling

LEMMA TopStep ==
  ASSUME ApiInv, Top
  PROVE  ApiInv'
<1>1. current = None BY DEF Top, ApiInv, RunOK
<1>2. IsDone => \A x \in Lthreads : ~Alive(x) BY <1>1, NobodyLeft
<1> QED BY <1>1, <1>2, PhaseStep DEF Top, ApiInv, ApiTypeOK

LEMMA ExpireDoneStep ==
  ASSUME ApiInv, ExpireDone
  PROVE  ApiInv'
BY PhaseStep DEF ExpireDone, ApiInv, ApiTypeOK

LEMMA PollStep ==
  ASSUME ApiInv, Poll
  PROVE  ApiInv'
BY PhaseStep DEF Poll, ApiInv, ApiTypeOK

LEMMA EventsDoneStep ==
  ASSUME ApiInv, EventsDone
  PROVE  ApiInv'
BY PhaseStep DEF EventsDone, ApiInv, ApiTypeOK

(* An lthread goes on: from ready, late from the sleeping tree, or because  *)
(* of its descriptor.  It leaves every other place it waited in.            *)
LEMMA GoOnStep ==
  ASSUME ApiInv, current = None, phase \in {"expire", "ready", "events"},
         UNCHANGED phase, events' \in SUBSET Lthreads,
         NEW x \in Lthreads, NEW f \in [Lthreads -> SUBSET Flags], GoOn(x, f),
         \A y \in Lthreads \ {x} : f[y] = flags[y],
         "SLEEPING" \notin f[x], "CANCELLED" \notin flags[x],
         \A g \in Flags \ {"SLEEPING", "EXPIRED"} : g \in f[x] <=> g \in flags[x],
         waiting' = waiting \ {x},
         ready' \in Seq(Lthreads), Distinct(ready'),
         \A y \in Lthreads : InSeq(y, ready') <=> InSeq(y, ready) /\ y # x,
         \/ InSeq(x, ready) /\ "EXPIRED" \notin f[x]
         \/ /\ ~InSeq(x, ready) /\ "SLEEPING" \in flags[x]
            /\ "EXPIRED" \in f[x] /\ phase = "expire"
         \/ ~InSeq(x, ready) /\ x \in waiting /\ "EXPIRED" \notin f[x]
  PROVE  ApiInv'
<1> USE ApiAssumption DEF ApiInv
<1> DEFINE t == target[x]
           late == TimedOut(x, "join", f)
<1>a. /\ at[x] \in {"new"} \cup Calling
      /\ at[x] = "join" => (late <=> ~InSeq(x, ready))
      /\ ~(at[x] = "join") => ~late
      /\ at[x] = "cond" => (TimedOut(x, "cond", f) <=> ~InSeq(x, ready))
  BY DEF ReadyOK, SleepOK, WaitingOK, TimedOut, Calling
<1>t. /\ t \in Lthreads \cup {None}
      /\ t # None <=> at[x] = "join"
      /\ t # None => /\ t # x
                     /\ \A y \in Lthreads \ {x} : target[y] # t
                     /\ late => Alive(t) /\ ltJoin[t] = x
                     /\ ~late => at[t] = "dead"
  <2>1. t # None => t # x BY DEF JoinOK, Alive, ApiTypeOK, Calling
  <2>2. t # None /\ late => Alive(t) /\ ltJoin[t] = x
    BY <1>a DEF JoinOK, Alive, ApiTypeOK
  <2>3. t # None /\ ~late => at[t] = "dead"
    BY <1>a DEF JoinOK, Alive, ApiTypeOK
  <2> QED BY <2>1, <2>2, <2>3 DEF JoinOK, ApiTypeOK
<1>b. /\ blocked' \in Seq(Lthreads) /\ Distinct(blocked')
      /\ \A y \in Lthreads : InSeq(y, blocked') <=> InSeq(y, blocked) /\ y # x
  <2>1. /\ Others(blocked, x) \in Seq(Lthreads) /\ Distinct(Others(blocked, x))
        /\ \A y \in Lthreads : InSeq(y, Others(blocked, x)) <=> InSeq(y, blocked) /\ y # x
    BY OthersFacts DEF ApiTypeOK, BlockedOK
  <2>2. ~TimedOut(x, "cond", f) => ~InSeq(x, blocked)
    BY <1>a DEF BlockedOK
  <2> QED BY <2>1, <2>2 DEF GoOn, ApiTypeOK, BlockedOK
<1>c. /\ flags' \in [Lthreads -> SUBSET Flags]
      /\ \A y \in Lthreads \ {x} : flags'[y] = flags[y]
      /\ "SLEEPING" \notin flags'[x]
      /\ "EXPIRED" \in flags'[x] => phase = "expire"
      /\ \A g \in {"CANCELLED", "DETACH", "EXITED"} : g \in flags'[x] => g \in flags[x]
  <2>1. /\ flags' = [f EXCEPT ![x] = IF at[x] = "new" THEN {} ELSE f[x] \ {"BUSY"}]
        /\ f \in [Lthreads -> SUBSET Flags]
    BY DEF GoOn
  <2>2. flags'[x] \subseteq f[x] /\ flags'[x] \in SUBSET Flags
    BY <2>1
  <2> QED BY <2>1, <2>2 DEF Flags
<1>d. /\ at' \in [Lthreads -> {"unborn", "new", "run", "dead", "freed"} \cup Calling]
      /\ at'[x] = "run"
      /\ \A y \in Lthreads \ {x} : at'[y] = IF y = t /\ ~late THEN "freed" ELSE at[y]
  BY DEF GoOn, ApiTypeOK
<1>e. /\ ltJoin' \in [Lthreads -> Lthreads \cup {None}]
      /\ \A y \in Lthreads : ltJoin'[y] = IF y = t /\ late THEN None ELSE ltJoin[y]
  BY <1>t, <1>a DEF GoOn, Unjoin, ApiTypeOK
<1>f. /\ target' \in [Lthreads -> Lthreads \cup {None}]
      /\ target'[x] = None
      /\ \A y \in Lthreads \ {x} : target'[y] = target[y]
      /\ current' = x
  BY DEF GoOn, ApiTypeOK
<1> HIDE DEF late, t
<1>1. ApiTypeOK' BY <1>b, <1>c, <1>d, <1>e, <1>f DEF ApiTypeOK
<1>2. RunOK' BY <1>d, <1>f DEF RunOK, ApiTypeOK
<1>3. ReadyOK'
  BY <1>d, <1>t DEF ReadyOK, Calling
<1>4. BlockedOK'
  BY <1>b, <1>d, <1>t DEF BlockedOK
<1>5. WaitingOK'
  BY <1>d, <1>t DEF WaitingOK, ApiTypeOK
<1>6. SleepOK'
  <2> SUFFICES ASSUME NEW y \in Lthreads
               PROVE  /\ "SLEEPING" \in flags'[y] => at'[y] \in Calling /\ ~InSeq(y, ready')
                      /\ "EXPIRED" \in flags'[y] /\ Alive(y)' => current' = y /\ phase' = "expire"
    BY DEF SleepOK
  <2>1. CASE y = x BY <2>1, <1>c, <1>f
  <2>2. CASE y # x
    <3>1. flags'[y] = flags[y] BY <1>c, <2>2
    <3>2. at'[y] = at[y] \/ (at'[y] = "freed" /\ at[y] = "dead") BY <1>d, <1>t, <2>2
    <3>3. Alive(y)' => Alive(y) BY <3>2 DEF Alive
    <3>4. "EXPIRED" \notin flags[y] \/ ~Alive(y) BY DEF SleepOK
    <3>5. "SLEEPING" \in flags[y] => at[y] \in Calling /\ ~InSeq(y, ready) BY DEF SleepOK
    <3>6. "dead" \notin Calling BY DEF Calling
    <3> QED BY <3>1, <3>2, <3>3, <3>4, <3>5, <3>6
  <2> QED BY <2>1, <2>2
<1>7. JoinOK'
  <2> SUFFICES ASSUME NEW y \in Lthreads PROVE
        /\ target'[y] # None <=> at'[y] = "join"
        /\ target'[y] # None =>
             /\ target'[y] # y /\ at'[target'[y]] \notin {"unborn", "freed"}
             /\ Alive(target[y])' => ltJoin'[target'[y]] = y
             /\ at'[target'[y]] = "dead" => InSeq(y, ready')
             /\ \A z \in Lthreads \ {y} : target'[z] # target'[y]
        /\ Alive(y)' /\ ltJoin'[y] # None =>
             /\ target'[ltJoin'[y]] = y
             /\ ~InSeq(ltJoin'[y], ready')
             /\ "DETACH" \notin flags'[y]
    BY DEF JoinOK, Alive
  <2>1. target'[y] # None <=> at'[y] = "join"
    BY <1>d, <1>f, <1>t DEF JoinOK
  <2>2. ASSUME target'[y] # None
        PROVE  /\ target'[y] # y /\ at'[target'[y]] \notin {"unborn", "freed"}
               /\ Alive(target[y])' => ltJoin'[target'[y]] = y
               /\ at'[target'[y]] = "dead" => InSeq(y, ready')
               /\ \A z \in Lthreads \ {y} : target'[z] # target'[y]
    <3>1. /\ y # x /\ target'[y] = target[y] /\ target[y] # None /\ target[y] \in Lthreads
      BY <2>2, <1>f DEF ApiTypeOK
    <3>2. target[y] # t BY <3>1, <1>t DEF t
    <3>3. target[y] # x => at'[target[y]] = at[target[y]] BY <3>1, <3>2, <1>d
    <3>4. ltJoin'[target[y]] = ltJoin[target[y]] BY <3>1, <3>2, <1>e
    <3>5. /\ target[y] # y /\ at[target[y]] \notin {"unborn", "freed"}
          /\ Alive(target[y]) => ltJoin[target[y]] = y
          /\ at[target[y]] = "dead" => InSeq(y, ready)
          /\ \A z \in Lthreads \ {y} : target[z] # target[y]
      BY <3>1 DEF JoinOK
    <3>6. Alive(x) BY <1>a DEF Alive, Calling
    <3>7. Alive(target[y])' => Alive(target[y])
      BY <3>1, <3>3, <3>6 DEF Alive
    <3>8. InSeq(y, ready) => InSeq(y, ready') BY <3>1
    <3>9. \A z \in Lthreads \ {y} : target'[z] # target[y]
      BY <3>1, <3>5, <1>f
    <3> QED BY <3>1, <3>3, <3>4, <3>5, <3>7, <3>8, <3>9, <1>d
  <2>3. ASSUME Alive(y)', ltJoin'[y] # None
        PROVE  /\ target'[ltJoin'[y]] = y
               /\ ~InSeq(ltJoin'[y], ready')
               /\ "DETACH" \notin flags'[y]
    <3>1. Alive(y) /\ ltJoin'[y] = ltJoin[y] /\ ltJoin[y] # None /\ ltJoin[y] \in Lthreads
          /\ ~(y = t /\ late)
      <4>1. Alive(x) BY <1>a DEF Alive, Calling
      <4>2. Alive(y) BY <4>1, <2>3, <1>d DEF Alive
      <4> QED BY <4>2, <2>3, <1>e DEF ApiTypeOK
    <3>2. /\ target[ltJoin[y]] = y /\ ~InSeq(ltJoin[y], ready) /\ "DETACH" \notin flags[y]
      BY <3>1 DEF JoinOK
    <3>3. ltJoin[y] # x
      BY <3>1, <3>2, <1>t, <1>a DEF t, Alive
    <3>4. "DETACH" \notin flags'[y] BY <3>2, <1>c
    <3> QED BY <3>1, <3>2, <3>3, <3>4, <1>f
  <2> QED BY <2>1, <2>2, <2>3
<1>8. KeptOK'
  <2> SUFFICES ASSUME NEW y \in Lthreads
               PROVE  /\ ~InSeq(y, ready') =>
                           /\ at'[y] # "new"
                           /\ at'[y] = "sleep" => "SLEEPING" \in flags'[y]
                           /\ at'[y] = "fd" => y \in waiting'
                           /\ at'[y] = "cond" => InSeq(y, blocked')
                      /\ at'[y] \in {"cond", "join"} => "BUSY" \in flags'[y]
    BY DEF KeptOK
  <2>1. CASE y = x BY <2>1, <1>d
  <2>2. CASE y # x
    <3>1. flags'[y] = flags[y] BY <1>c, <2>2
    <3>2. at'[y] = at[y] \/ at'[y] = "freed" BY <1>d, <2>2
    <3>3. /\ InSeq(y, ready') <=> InSeq(y, ready)
          /\ InSeq(y, blocked') <=> InSeq(y, blocked)
          /\ y \in waiting => y \in waiting'
      BY <2>2, <1>b
    <3> QED BY <3>1, <3>2, <3>3 DEF KeptOK
  <2> QED BY <2>1, <2>2
<1>9. EndOK'
  <2> SUFFICES ASSUME NEW y \in Lthreads
               PROVE  /\ Alive(y)' => "EXITED" \notin flags'[y]
                      /\ Alive(y)' /\ "CANCELLED" \in flags'[y] =>
                           at'[y] \in {"sleep", "fd"} /\ InSeq(y, ready')
                      /\ at'[y] = "dead" =>
                           {"EXITED", "CANCELLED"} \cap flags'[y] # {} /\ "DETACH" \notin flags'[y]
                      /\ at'[y] = "unborn" => flags'[y] = {} /\ ltJoin'[y] = None
    BY DEF EndOK
  <2>1. CASE y = x
    <3>1. Alive(x) BY <1>a DEF Alive, Calling
    <3>2. "EXITED" \notin flags[x] BY <3>1 DEF EndOK
    <3> QED BY <2>1, <3>2, <1>c, <1>d
  <2>2. CASE y # x
    <3>1. flags'[y] = flags[y] BY <1>c, <2>2
    <3>2. at'[y] = at[y] \/ at'[y] = "freed" BY <1>d, <2>2
    <3>3. Alive(y)' => Alive(y) BY <3>2 DEF Alive
    <3>4. ltJoin[y] = None => ltJoin'[y] = None BY <1>e
    <3>5. InSeq(y, ready) => InSeq(y, ready') BY <2>2
    <3>6. Alive(y)' => at'[y] = at[y] BY <3>2 DEF Alive
    <3> QED BY <3>1, <3>2, <3>3, <3>4, <3>5, <3>6 DEF EndOK
  <2> QED BY <2>1, <2>2
<1> QED BY <1>1, <1>2, <1>3, <1>4, <1>5, <1>6, <1>7, <1>8, <1>9

(* What a timeout leaves of the marks of x, for GoOnStep. *)
LEMMA ExpireStep ==
  ASSUME ApiInv, Expire
  PROVE  ApiInv'
<1> USE DEF ApiInv
<1>1. PICK x \in Sleeping :
        waiting' = waiting \ {x} /\ GoOn(x, [Desched(flags, x) EXCEPT ![x] = @ \cup {"EXPIRED"}])
  BY DEF Expire
<1> DEFINE d == Desched(flags, x)
           f == [d EXCEPT ![x] = @ \cup {"EXPIRED"}]
<1>2. x \in Lthreads /\ "SLEEPING" \in flags[x] BY DEF Sleeping, Is
<1>3. /\ d \in [Lthreads -> SUBSET Flags]
      /\ \A y \in Lthreads \ {x} : d[y] = flags[y]
      /\ "SLEEPING" \notin d[x]
      /\ \A g \in Flags \ {"SLEEPING", "EXPIRED"} : g \in d[x] <=> g \in flags[x]
  BY <1>2, DeschedFacts DEF ApiTypeOK
<1> HIDE DEF d
<1>4. f \in [Lthreads -> SUBSET Flags] BY <1>3 DEF Flags
<1>5. /\ \A y \in Lthreads \ {x} : f[y] = flags[y]
      /\ "SLEEPING" \notin f[x] /\ "EXPIRED" \in f[x]
      /\ \A g \in Flags \ {"SLEEPING", "EXPIRED"} : g \in f[x] <=> g \in flags[x]
  BY <1>2, <1>3
<1>6. GoOn(x, f) BY <1>1 DEF d
<1> HIDE DEF f
<1>7. ~InSeq(x, ready) /\ "CANCELLED" \notin flags[x]
  BY <1>2 DEF SleepOK, EndOK, Alive, Calling
<1>8. /\ ready' \in Seq(Lthreads) /\ Distinct(ready')
      /\ \A y \in Lthreads : InSeq(y, ready') <=> InSeq(y, ready) /\ y # x
  BY <1>7 DEF Expire, ApiTypeOK, ReadyOK
<1>9. /\ current = None /\ phase = "expire" /\ UNCHANGED phase
      /\ events' \in SUBSET Lthreads
  BY DEF Expire, ApiTypeOK
<1> QED BY <1>1, <1>2, <1>4, <1>5, <1>6, <1>7, <1>8, <1>9, GoOnStep

LEMMA ReadyResumeStep ==
  ASSUME ApiInv, ReadyResume
  PROVE  ApiInv'
<1> USE DEF ApiInv
<1> DEFINE x == Head(ready)
<1>1. /\ x \in Lthreads /\ InSeq(x, ready)
      /\ ready' \in Seq(Lthreads) /\ Distinct(ready')
      /\ \A y \in Lthreads : InSeq(y, ready') <=> InSeq(y, ready) /\ y # x
  BY HeadFacts DEF ReadyResume, ApiTypeOK, ReadyOK
<1>2. /\ current = None /\ phase = "ready" /\ UNCHANGED phase
      /\ events' \in SUBSET Lthreads /\ GoOn(x, flags)
      /\ UNCHANGED waiting /\ "CANCELLED" \notin flags[x]
  BY DEF ReadyResume, ApiTypeOK
<1> HIDE DEF x
<1>3. waiting' = waiting \ {x} BY <1>1, <1>2 DEF WaitingOK, ApiTypeOK
<1>4. "SLEEPING" \notin flags[x] BY <1>1 DEF SleepOK
<1>5. Alive(x) BY <1>1 DEF ReadyOK, Alive, Calling
<1>6. "EXPIRED" \notin flags[x] BY <1>1, <1>2, <1>5 DEF SleepOK
<1> QED BY <1>1, <1>2, <1>3, <1>4, <1>6, GoOnStep DEF ApiTypeOK

LEMMA EventStep ==
  ASSUME ApiInv, Event
  PROVE  ApiInv'
<1> USE DEF ApiInv
<1>1. PICK x \in events :
       /\ events' = events \ {x}
       /\ IF x \in waiting
          THEN waiting' = waiting \ {x} /\ GoOn(x, Desched(flags, x))
          ELSE UNCHANGED <<lts, waiting, blocked, current>>
  BY DEF Event
<1>2. x \in Lthreads /\ events' \in SUBSET Lthreads BY <1>1 DEF ApiTypeOK
<1>3. /\ current = None /\ phase = "events" /\ UNCHANGED phase /\ UNCHANGED ready
  BY DEF Event
<1>4. CASE x \notin waiting
  BY <1>1, <1>2, <1>3, <1>4, PhaseStep
<1>5. CASE x \in waiting
  <2> DEFINE f == Desched(flags, x)
  <2>1. /\ f \in [Lthreads -> SUBSET Flags]
        /\ \A y \in Lthreads \ {x} : f[y] = flags[y]
        /\ "SLEEPING" \notin f[x]
        /\ "EXPIRED" \in f[x] => "EXPIRED" \in flags[x]
        /\ \A g \in Flags \ {"SLEEPING", "EXPIRED"} : g \in f[x] <=> g \in flags[x]
    BY <1>2, DeschedFacts DEF ApiTypeOK
  <2>2. waiting' = waiting \ {x} /\ GoOn(x, f) BY <1>1, <1>5
  <2> HIDE DEF f
  <2>3. at[x] = "fd" /\ ~InSeq(x, ready) BY <1>5 DEF WaitingOK
  <2>4. "EXPIRED" \notin flags[x] /\ "CANCELLED" \notin flags[x]
    BY <1>2, <1>3, <2>3 DEF SleepOK, EndOK, Alive
  <2>5. /\ ready' \in Seq(Lthreads) /\ Distinct(ready')
        /\ \A y \in Lthreads : InSeq(y, ready') <=> InSeq(y, ready) /\ y # x
    BY <1>3, <2>3 DEF ApiTypeOK, ReadyOK
  <2> QED BY <1>2, <1>3, <1>5, <2>1, <2>2, <2>3, <2>4, <2>5, GoOnStep
<1> QED BY <1>4, <1>5

(* The end of x, which ran or was cancelled: it was in r no more, and its   *)
(* joiner, which waited for nothing else, is ready.                         *)
LEMMA BuryStep ==
  ASSUME ApiInv, phase \in {"expire", "ready", "events"},
         phase' \in {"expire", "ready", "buried", "events"},
         UNCHANGED <<target, waiting, blocked, events>>, current' = None,
         NEW x \in Lthreads, NEW f \in [Lthreads -> SUBSET Flags],
         NEW r \in Seq(Lthreads), Bury(x, f, r),
         current = x \/ (current = None /\ at[x] \in {"new", "sleep", "fd", "cond"}),
         x \notin waiting, ~InSeq(x, blocked), target[x] = None, "SLEEPING" \notin flags[x],
         {"EXITED", "CANCELLED"} \cap f[x] # {},
         \A y \in Lthreads \ {x} : f[y] = flags[y],
         "SLEEPING" \notin f[x], "DETACH" \in f[x] <=> "DETACH" \in flags[x],
         Distinct(r),
         \A y \in Lthreads : InSeq(y, r) <=> InSeq(y, ready) /\ y # x
  PROVE  ApiInv'
<1> USE ApiAssumption DEF ApiInv
<1> DEFINE j == ltJoin[x]
<1>a. Alive(x) /\ current \in {x, None} BY DEF Alive, RunOK
<1>j. /\ j \in Lthreads \cup {None}
      /\ j # None => /\ j # x /\ target[j] = x /\ at[j] = "join"
                     /\ ~InSeq(j, ready) /\ ~InSeq(j, blocked)
                     /\ j \notin waiting /\ "DETACH" \notin f[x]
  <2>1. j \in Lthreads \cup {None} BY DEF ApiTypeOK
  <2>2. ASSUME j # None
        PROVE  /\ j # x /\ target[j] = x /\ at[j] = "join"
               /\ ~InSeq(j, ready) /\ "DETACH" \notin f[x]
    <3>1. target[j] = x /\ ~InSeq(j, ready) /\ "DETACH" \notin flags[x]
      BY <1>a, <2>2 DEF JoinOK
    <3>2. at[j] = "join" BY <2>1, <2>2, <3>1 DEF JoinOK
    <3> QED BY <3>1, <3>2
  <2>3. j # None => ~InSeq(j, blocked) /\ j \notin waiting
    BY <2>1, <2>2 DEF BlockedOK, WaitingOK
  <2> QED BY <2>1, <2>2, <2>3
<1>b. /\ ready' \in Seq(Lthreads) /\ Distinct(ready')
      /\ \A y \in Lthreads : InSeq(y, ready') <=> (InSeq(y, ready) /\ y # x) \/ y = j
  <2>1. CASE j = None BY <2>1 DEF Bury
  <2>2. CASE j # None
    <3>1. j \in Lthreads /\ ~InSeq(j, r) /\ ready' = Append(r, j) BY <1>j, <2>2 DEF Bury
    <3> QED BY <3>1, AppendFacts
  <2> QED BY <2>1, <2>2
<1>c. /\ flags' \in [Lthreads -> SUBSET Flags]
      /\ \A y \in Lthreads \ {x, j} : flags'[y] = flags[y]
      /\ flags'[x] = f[x]
      /\ j # None => /\ "SLEEPING" \notin flags'[j]
                     /\ "EXPIRED" \in flags'[j] => "EXPIRED" \in flags[j]
                     /\ \A g \in Flags \ {"SLEEPING", "EXPIRED"} :
                          g \in flags'[j] <=> g \in flags[j]
  <2>1. CASE j = None BY <2>1 DEF Bury
  <2>2. CASE j # None
    <3>1. j \in Lthreads /\ j # x /\ f[j] = flags[j] /\ flags' = Desched(f, j)
      BY <1>j, <2>2 DEF Bury
    <3> HIDE DEF j
    <3>2. /\ Desched(f, j) \in [Lthreads -> SUBSET Flags]
          /\ \A y \in Lthreads \ {j} : Desched(f, j)[y] = f[y]
          /\ "SLEEPING" \notin Desched(f, j)[j]
          /\ "EXPIRED" \in Desched(f, j)[j] => "EXPIRED" \in f[j]
          /\ \A g \in Flags \ {"SLEEPING", "EXPIRED"} : g \in Desched(f, j)[j] <=> g \in f[j]
      BY <3>1, DeschedFacts
    <3> QED BY <3>1, <3>2
  <2> QED BY <2>1, <2>2
<1>d. /\ at' \in [Lthreads -> {"unborn", "new", "run", "dead", "freed"} \cup Calling]
      /\ \A y \in Lthreads \ {x} : at'[y] = at[y]
      /\ at'[x] \in {"dead", "freed"}
      /\ at'[x] = "freed" <=> "DETACH" \in f[x]
  BY DEF Bury, ApiTypeOK
<1>e. /\ ltJoin' \in [Lthreads -> Lthreads \cup {None}]
      /\ \A y \in Lthreads \ {x} : ltJoin'[y] = ltJoin[y]
  BY DEF Bury, ApiTypeOK
<1> HIDE DEF j
<1>f. ~Alive(x)' BY <1>d DEF Alive
<1>g. \A y \in Lthreads \ {x} : Alive(y)' <=> Alive(y) BY <1>d DEF Alive
<1>1. ApiTypeOK' BY <1>b, <1>c, <1>d, <1>e DEF ApiTypeOK
<1>2. RunOK'
  BY <1>a, <1>d DEF RunOK
<1>3. ReadyOK'
  BY <1>b, <1>d, <1>j DEF ReadyOK, Calling
<1>4. BlockedOK'
  BY <1>b, <1>d, <1>j DEF BlockedOK
<1>5. WaitingOK'
  BY <1>b, <1>d, <1>j DEF WaitingOK, ApiTypeOK
<1>6. SleepOK'
  <2> SUFFICES ASSUME NEW y \in Lthreads
               PROVE  /\ "SLEEPING" \in flags'[y] => at'[y] \in Calling /\ ~InSeq(y, ready')
                      /\ "EXPIRED" \in flags'[y] /\ Alive(y)' => current' = y /\ phase' = "expire"
    BY DEF SleepOK
  <2>1. CASE y = x BY <2>1, <1>c, <1>f
  <2>2. CASE y = j /\ y # x
    <3>1. "EXPIRED" \notin flags[y]
      BY <2>2, <1>j, <1>a DEF SleepOK, Alive
    <3> QED BY <2>2, <3>1, <1>c, <1>j
  <2>3. CASE y # j /\ y # x
    <3>1. "EXPIRED" \in flags[y] /\ Alive(y) => current = y BY DEF SleepOK
    <3>2. "EXPIRED" \notin flags[y] \/ ~Alive(y) BY <3>1, <2>3, <1>a
    <3> QED BY <2>3, <3>2, <1>b, <1>c, <1>d, <1>g DEF SleepOK
  <2> QED BY <2>1, <2>2, <2>3
<1>7. JoinOK'
  <2> SUFFICES ASSUME NEW y \in Lthreads PROVE
        /\ target[y] # None <=> at'[y] = "join"
        /\ target[y] # None =>
             /\ target[y] # y /\ at'[target[y]] \notin {"unborn", "freed"}
             /\ Alive(target[y])' => ltJoin'[target[y]] = y
             /\ at'[target[y]] = "dead" => InSeq(y, ready')
             /\ \A z \in Lthreads \ {y} : target[z] # target[y]
        /\ Alive(y)' /\ ltJoin'[y] # None =>
             /\ target[ltJoin'[y]] = y
             /\ ~InSeq(ltJoin'[y], ready')
             /\ "DETACH" \notin flags'[y]
    BY DEF JoinOK, Alive
  <2>1. target[y] # None <=> at'[y] = "join"
    BY <1>d DEF JoinOK
  <2>2. ASSUME target[y] # None
        PROVE  /\ target[y] # y /\ at'[target[y]] \notin {"unborn", "freed"}
               /\ Alive(target[y])' => ltJoin'[target[y]] = y
               /\ at'[target[y]] = "dead" => InSeq(y, ready')
               /\ \A z \in Lthreads \ {y} : target[z] # target[y]
    <3>1. /\ target[y] \in Lthreads /\ y # x BY <2>2 DEF ApiTypeOK
    <3>2. /\ target[y] # y /\ at[target[y]] \notin {"unborn", "freed"}
          /\ Alive(target[y]) => ltJoin[target[y]] = y
          /\ at[target[y]] = "dead" => InSeq(y, ready)
          /\ \A z \in Lthreads \ {y} : target[z] # target[y]
      BY <2>2 DEF JoinOK
    <3>3. CASE target[y] = x
      <4>1. j = y BY <3>2, <3>3, <1>a DEF j
      <4>2. j # None BY <4>1, <3>1
      <4>3. at'[x] = "dead" /\ InSeq(y, ready') BY <4>1, <4>2, <1>j, <1>d, <1>b
      <4> QED BY <3>2, <3>3, <4>3, <1>f
    <3>4. CASE target[y] # x
      BY <3>1, <3>2, <3>4, <1>b, <1>d, <1>e, <1>g
    <3> QED BY <3>3, <3>4
  <2>3. ASSUME Alive(y)', ltJoin'[y] # None
        PROVE  /\ target[ltJoin'[y]] = y
               /\ ~InSeq(ltJoin'[y], ready')
               /\ "DETACH" \notin flags'[y]
    <3>1. y # x /\ Alive(y) /\ ltJoin'[y] = ltJoin[y] BY <2>3, <1>f, <1>g, <1>e
    <3>2. /\ ltJoin[y] \in Lthreads /\ target[ltJoin[y]] = y
          /\ ~InSeq(ltJoin[y], ready) /\ "DETACH" \notin flags[y]
      BY <2>3, <3>1 DEF JoinOK, ApiTypeOK
    <3>3. ltJoin[y] # j BY <3>1, <3>2, <1>j
    <3>4. "DETACH" \notin flags'[y] BY <3>1, <3>2, <1>c, <1>j DEF Flags
    <3> QED BY <3>1, <3>2, <3>3, <3>4, <1>b
  <2> QED BY <2>1, <2>2, <2>3
<1>8. KeptOK'
  <2> SUFFICES ASSUME NEW y \in Lthreads
               PROVE  /\ ~InSeq(y, ready') =>
                           /\ at'[y] # "new"
                           /\ at'[y] = "sleep" => "SLEEPING" \in flags'[y]
                           /\ at'[y] = "fd" => y \in waiting
                           /\ at'[y] = "cond" => InSeq(y, blocked)
                      /\ at'[y] \in {"cond", "join"} => "BUSY" \in flags'[y]
    BY DEF KeptOK
  <2>1. CASE y = x BY <2>1, <1>d
  <2>2. CASE y # x /\ y = j
    <3>1. at[y] = "join" /\ "BUSY" \in flags[y] BY <2>2, <1>j DEF KeptOK
    <3>2. "BUSY" \in flags'[y] BY <2>2, <3>1, <1>c DEF Flags
    <3> QED BY <2>2, <3>1, <3>2, <1>b, <1>d
  <2>3. CASE y # x /\ y # j
    BY <2>3, <1>b, <1>c, <1>d DEF KeptOK
  <2> QED BY <2>1, <2>2, <2>3
<1>9. EndOK'
  <2> SUFFICES ASSUME NEW y \in Lthreads
               PROVE  /\ Alive(y)' => "EXITED" \notin flags'[y]
                      /\ Alive(y)' /\ "CANCELLED" \in flags'[y] =>
                           at'[y] \in {"sleep", "fd"} /\ InSeq(y, ready')
                      /\ at'[y] = "dead" =>
                           {"EXITED", "CANCELLED"} \cap flags'[y] # {} /\ "DETACH" \notin flags'[y]
                      /\ at'[y] = "unborn" => flags'[y] = {} /\ ltJoin'[y] = None
    BY DEF EndOK
  <2>1. CASE y = x BY <2>1, <1>c, <1>d, <1>f
  <2>2. CASE y # x /\ y = j
    <3>1. at'[y] = "join" /\ Alive(y) /\ "EXITED" \notin flags[y]
      BY <2>2, <1>j, <1>d DEF EndOK, Alive
    <3>2. "CANCELLED" \notin flags[y] BY <2>2, <3>1, <1>j DEF EndOK
    <3>3. "EXITED" \notin flags'[y] /\ "CANCELLED" \notin flags'[y]
      BY <2>2, <3>1, <3>2, <1>c DEF Flags
    <3> QED BY <3>1, <3>3
  <2>3. CASE y # x /\ y # j
    BY <2>3, <1>b, <1>c, <1>d, <1>e, <1>g DEF EndOK
  <2> QED BY <2>1, <2>2, <2>3
<1> QED BY <1>1, <1>2, <1>3, <1>4, <1>5, <1>6, <1>7, <1>8, <1>9

LEMMA ReadyCancelledStep ==
  ASSUME ApiInv, ReadyCancelled
  PROVE  ApiInv'
<1> USE ApiAssumption DEF ApiInv
<1> DEFINE x == Head(ready)
           r == Tail(ready)
<1>1. /\ x \in Lthreads /\ InSeq(x, ready)
      /\ r \in Seq(Lthreads) /\ Distinct(r)
      /\ \A y \in Lthreads : InSeq(y, r) <=> InSeq(y, ready) /\ y # x
  BY HeadFacts DEF ReadyCancelled, ApiTypeOK, ReadyOK
<1>2. /\ current = None /\ phase = "ready" /\ "CANCELLED" \in flags[x]
      /\ UNCHANGED <<target, waiting, blocked, current, events>> /\ phase' = "buried"
      /\ Bury(x, flags, r)
  BY DEF ReadyCancelled
<1> HIDE DEF x, r
<1>3. x \notin waiting /\ ~InSeq(x, blocked) /\ "SLEEPING" \notin flags[x]
  BY <1>1 DEF WaitingOK, BlockedOK, SleepOK
<1>4. at[x] \in {"sleep", "fd"} /\ target[x] = None
  BY <1>1, <1>2 DEF ReadyOK, Calling, Alive, EndOK, JoinOK
<1> QED BY <1>1, <1>2, <1>3, <1>4, BuryStep DEF ApiTypeOK

LEMMA ExitStep ==
  ASSUME ApiInv, Exit
  PROVE  ApiInv'
<1> USE ApiAssumption DEF ApiInv
<1> DEFINE f == [flags EXCEPT ![current] = @ \cup {"EXITED"}]
<1>1. current \in Lthreads /\ at[current] = "run" /\ phase \in {"expire", "ready", "events"}
  BY DEF Exit, ApiTypeOK, RunOK
<1>2. /\ f \in [Lthreads -> SUBSET Flags] /\ f[current] = flags[current] \cup {"EXITED"}
      /\ \A y \in Lthreads \ {current} : f[y] = flags[y]
  BY <1>1 DEF ApiTypeOK, Flags
<1>3. Bury(current, f, ready) /\ UNCHANGED <<target, waiting, blocked, phase, events>>
      /\ current' = None
  BY DEF Exit
<1> HIDE DEF f
<1>4. /\ current \notin waiting /\ ~InSeq(current, blocked) /\ ~InSeq(current, ready)
      /\ "SLEEPING" \notin flags[current] /\ target[current] = None
  BY <1>1 DEF WaitingOK, BlockedOK, SleepOK, ReadyOK, Calling, JoinOK
<1>5. \A y \in Lthreads : InSeq(y, ready) <=> InSeq(y, ready) /\ y # current BY <1>4
<1> QED BY <1>1, <1>2, <1>3, <1>4, <1>5, BuryStep DEF ApiTypeOK, ReadyOK

-----------------------------------------------------------------------------
(* The calls of the lthread that runs. *)

(* The one that runs is in no place, and lthread_run() is in a loop. *)
LEMMA RunningFacts ==
  ASSUME ApiInv, current # None
  PROVE  /\ current \in Lthreads /\ at[current] = "run" /\ Alive(current)
         /\ phase \in {"expire", "ready", "events"}
         /\ current \notin waiting /\ ~InSeq(current, blocked) /\ ~InSeq(current, ready)
         /\ "SLEEPING" \notin flags[current] /\ target[current] = None
<1>1. current \in Lthreads /\ at[current] = "run" /\ phase \in {"expire", "ready", "events"}
  BY DEF ApiInv, ApiTypeOK, RunOK
<1> QED BY <1>1 DEF ApiInv, Alive, WaitingOK, BlockedOK, SleepOK, ReadyOK, Calling, JoinOK

(* The current lthread yields in a call and is put where the call waits:    *)
(* everything but what concerns joins.                                      *)
LEMMA YieldStep ==
  ASSUME ApiInv, current # None, UNCHANGED <<phase, events>>,
         NEW call \in Calling, NEW set \in SUBSET {"SLEEPING", "BUSY"}, Yield(call, set),
         call \in {"cond", "join"} => "BUSY" \in set,
         ready' \in Seq(Lthreads), Distinct(ready'),
         \A y \in Lthreads : InSeq(y, ready') <=>
           InSeq(y, ready) \/ (y = current /\ call = "sleep" /\ "SLEEPING" \notin set),
         blocked' \in Seq(Lthreads), Distinct(blocked'),
         \A y \in Lthreads : InSeq(y, blocked') <=>
           InSeq(y, blocked) \/ (y = current /\ call = "cond"),
         waiting' = waiting \cup {y \in {current} : call = "fd"},
         ltJoin' \in [Lthreads -> Lthreads \cup {None}],
         target' \in [Lthreads -> Lthreads \cup {None}],
         \A y \in Lthreads : at[y] = "unborn" => ltJoin'[y] = ltJoin[y]
  PROVE  /\ JoinOK' => ApiInv'
         /\ at'[current] = call
         /\ \A y \in Lthreads \ {current} : at'[y] = at[y] /\ flags'[y] = flags[y]
         /\ "DETACH" \in flags'[current] <=> "DETACH" \in flags[current]
         /\ current' = None
<1> USE ApiAssumption DEF ApiInv
<1> DEFINE x == current
<1>r. /\ x \in Lthreads /\ at[x] = "run" /\ Alive(x)
      /\ phase \in {"expire", "ready", "events"}
      /\ x \notin waiting /\ ~InSeq(x, blocked) /\ ~InSeq(x, ready)
      /\ "SLEEPING" \notin flags[x] /\ target[x] = None
  BY RunningFacts
<1>a. /\ at' \in [Lthreads -> {"unborn", "new", "run", "dead", "freed"} \cup Calling]
      /\ at'[x] = call
      /\ \A y \in Lthreads \ {x} : at'[y] = at[y]
      /\ current' = None
  BY <1>r DEF Yield, ApiTypeOK
<1>f. /\ flags' \in [Lthreads -> SUBSET Flags]
      /\ \A y \in Lthreads \ {x} : flags'[y] = flags[y]
      /\ \A g \in set : g \in flags'[x]
      /\ "SLEEPING" \in flags'[x] => "SLEEPING" \in set
      /\ "EXPIRED" \notin flags'[x]
      /\ \A g \in {"CANCELLED", "DETACH", "EXITED"} : g \in flags'[x] <=> g \in flags[x]
  <2>1. /\ flags \in [Lthreads -> SUBSET Flags]
        /\ flags'[x] = IF phase = "expire" THEN (flags[x] \cup set) \ {"EXPIRED"}
                       ELSE flags[x] \cup set
        /\ flags' = [flags EXCEPT ![x] = flags'[x]]
    BY <1>r DEF Yield, ApiTypeOK
  <2>2. "EXPIRED" \in flags[x] => phase = "expire" BY <1>r DEF SleepOK
  <2>3. set \subseteq Flags BY DEF Flags
  <2>4. flags'[x] \in SUBSET Flags BY <2>1, <2>3, <1>r
  <2>5. flags' \in [Lthreads -> SUBSET Flags] BY <2>1, <2>4
  <2> QED BY <2>1, <2>2, <2>5, <1>r
<1>g. \A y \in Lthreads : Alive(y)' <=> Alive(y) BY <1>a, <1>r DEF Alive, Calling
<1> HIDE DEF x
<1>1. ApiTypeOK'
  BY <1>a, <1>f, <1>r DEF ApiTypeOK
<1>2. RunOK'
  <2>1. \A y \in Lthreads : at'[y] = "run" <=> current' = y
    BY <1>a, <1>r DEF RunOK, Calling, x
  <2> QED BY <2>1, <1>a, <1>r
       DEF RunOK
<1>3. ReadyOK'
  BY <1>a DEF ReadyOK, Calling, x
<1>4. BlockedOK'
  <2> SUFFICES ASSUME NEW y \in Lthreads, InSeq(y, blocked')
               PROVE  at'[y] = "cond" /\ ~InSeq(y, ready')
    BY DEF BlockedOK
  <2>1. CASE y = x BY <2>1, <1>a, <1>r DEF x
  <2>2. CASE y # x BY <2>2, <1>a DEF BlockedOK, x
  <2> QED BY <2>1, <2>2
<1>5. WaitingOK'
  <2> SUFFICES ASSUME NEW y \in waiting' PROVE at'[y] = "fd" /\ ~InSeq(y, ready')
    BY DEF WaitingOK
  <2>1. y \in Lthreads BY <1>r DEF ApiTypeOK, x
  <2>2. CASE y = x BY <2>2, <1>a, <1>r DEF x
  <2>3. CASE y # x BY <2>1, <2>3, <1>a DEF WaitingOK, x
  <2> QED BY <2>2, <2>3
<1>6. SleepOK'
  <2> SUFFICES ASSUME NEW y \in Lthreads
               PROVE  /\ "SLEEPING" \in flags'[y] => at'[y] \in Calling /\ ~InSeq(y, ready')
                      /\ "EXPIRED" \in flags'[y] => ~Alive(y)'
    BY DEF SleepOK
  <2>1. CASE y = x BY <2>1, <1>a, <1>f, <1>r DEF x
  <2>2. CASE y # x
    <3>1. "EXPIRED" \in flags[y] => ~Alive(y) BY <2>2 DEF SleepOK, x
    <3> QED BY <2>2, <3>1, <1>a, <1>f, <1>g DEF SleepOK, x
  <2> QED BY <2>1, <2>2
<1>8. KeptOK'
  <2> SUFFICES ASSUME NEW y \in Lthreads
               PROVE  /\ ~InSeq(y, ready') =>
                           /\ at'[y] # "new"
                           /\ at'[y] = "sleep" => "SLEEPING" \in flags'[y]
                           /\ at'[y] = "fd" => y \in waiting'
                           /\ at'[y] = "cond" => InSeq(y, blocked')
                      /\ at'[y] \in {"cond", "join"} => "BUSY" \in flags'[y]
    BY DEF KeptOK
  <2>1. CASE y = x BY <2>1, <1>a, <1>f DEF x, Calling
  <2>2. CASE y # x
    BY <2>2, <1>a, <1>f DEF KeptOK, x
  <2> QED BY <2>1, <2>2
<1>9. EndOK'
  <2> SUFFICES ASSUME NEW y \in Lthreads
               PROVE  /\ Alive(y)' => "EXITED" \notin flags'[y]
                      /\ Alive(y)' /\ "CANCELLED" \in flags'[y] =>
                           at'[y] \in {"sleep", "fd"} /\ InSeq(y, ready')
                      /\ at'[y] = "dead" =>
                           {"EXITED", "CANCELLED"} \cap flags'[y] # {} /\ "DETACH" \notin flags'[y]
                      /\ at'[y] = "unborn" => flags'[y] = {} /\ ltJoin'[y] = None
    BY DEF EndOK
  <2>1. CASE y = x
    <3>1. "EXITED" \notin flags[x] /\ "CANCELLED" \notin flags[x] BY <1>r DEF EndOK
    <3> QED BY <2>1, <3>1, <1>a, <1>f DEF Calling
  <2>2. CASE y # x
    BY <2>2, <1>a, <1>f, <1>g DEF EndOK, x
  <2> QED BY <2>1, <2>2
<1> QED BY <1>1, <1>2, <1>3, <1>4, <1>5, <1>6, <1>8, <1>9, <1>a, <1>f DEF x

(* lthread_sleep(), _lthread_sched_event() and lthread_cond_wait() leave    *)
(* the joins alone.                                                         *)
LEMMA YieldKeepsJoins ==
  ASSUME ApiInv, current # None, UNCHANGED <<ltJoin, target>>,
         NEW call \in Calling \ {"join"}, at'[current] = call,
         \A y \in Lthreads \ {current} : at'[y] = at[y] /\ flags'[y] = flags[y],
         "DETACH" \in flags'[current] <=> "DETACH" \in flags[current],
         \A y \in Lthreads : InSeq(y, ready') <=>
           InSeq(y, ready) \/ (y = current /\ call = "sleep" /\ InSeq(y, ready'))
  PROVE  JoinOK'
<1> USE ApiAssumption DEF ApiInv
<1>1. /\ current \in Lthreads /\ at[current] = "run" /\ target[current] = None
  BY RunningFacts
<1>2. \A y \in Lthreads : /\ Alive(y)' <=> Alive(y)
                          /\ at'[y] = "join" <=> at[y] = "join"
                          /\ at'[y] = "dead" <=> at[y] = "dead"
                          /\ at'[y] \in {"unborn", "freed"} <=> at[y] \in {"unborn", "freed"}
                          /\ "DETACH" \in flags'[y] <=> "DETACH" \in flags[y]
  BY <1>1 DEF Alive, Calling
<1> SUFFICES ASSUME NEW y \in Lthreads PROVE
        /\ target[y] # None <=> at'[y] = "join"
        /\ target[y] # None =>
             /\ target[y] # y /\ at'[target[y]] \notin {"unborn", "freed"}
             /\ Alive(target[y])' => ltJoin[target[y]] = y
             /\ at'[target[y]] = "dead" => InSeq(y, ready')
             /\ \A z \in Lthreads \ {y} : target[z] # target[y]
        /\ Alive(y)' /\ ltJoin[y] # None =>
             /\ target[ltJoin[y]] = y
             /\ ~InSeq(ltJoin[y], ready')
             /\ "DETACH" \notin flags'[y]
  BY DEF JoinOK, Alive
<1>3. target[y] # None <=> at'[y] = "join" BY <1>2 DEF JoinOK
<1>4. ASSUME target[y] # None
      PROVE  /\ target[y] # y /\ at'[target[y]] \notin {"unborn", "freed"}
             /\ Alive(target[y])' => ltJoin[target[y]] = y
             /\ at'[target[y]] = "dead" => InSeq(y, ready')
             /\ \A z \in Lthreads \ {y} : target[z] # target[y]
  <2>1. target[y] \in Lthreads BY <1>4 DEF ApiTypeOK
  <2> QED BY <1>2, <1>4, <2>1 DEF JoinOK
<1>5. ASSUME Alive(y)', ltJoin[y] # None
      PROVE  /\ target[ltJoin[y]] = y
             /\ ~InSeq(ltJoin[y], ready')
             /\ "DETACH" \notin flags'[y]
  <2>1. /\ ltJoin[y] \in Lthreads /\ target[ltJoin[y]] = y
        /\ ~InSeq(ltJoin[y], ready) /\ "DETACH" \notin flags[y]
    BY <1>2, <1>5 DEF JoinOK, ApiTypeOK
  <2>2. ltJoin[y] # current BY <2>1, <1>1
  <2> QED BY <1>2, <2>1, <2>2
<1> QED BY <1>3, <1>4, <1>5

LEMMA SleepStep ==
  ASSUME ApiInv, Sleep
  PROVE  ApiInv'
<1> USE DEF ApiInv
<1>1. PICK timeout \in BOOLEAN :
        /\ ready' = IF timeout THEN ready ELSE Append(ready, current)
        /\ Yield("sleep", Timed(timeout))
  BY DEF Sleep
<1>2. /\ current # None /\ UNCHANGED <<ltJoin, target, waiting, blocked, phase, events>>
  BY DEF Sleep
<1>3. current \in Lthreads /\ ~InSeq(current, ready) BY <1>2, RunningFacts
<1>4. Timed(timeout) \in SUBSET {"SLEEPING", "BUSY"} /\ ("SLEEPING" \in Timed(timeout) <=> timeout)
  BY DEF Timed
<1>5. /\ ready' \in Seq(Lthreads) /\ Distinct(ready')
      /\ \A y \in Lthreads : InSeq(y, ready') <=>
           InSeq(y, ready) \/ (y = current /\ "SLEEPING" \notin Timed(timeout))
  <2>1. CASE timeout BY <2>1, <1>1, <1>4 DEF ApiTypeOK, ReadyOK
  <2>2. CASE ~timeout BY <2>2, <1>1, <1>3, <1>4, AppendFacts DEF ApiTypeOK, ReadyOK
  <2> QED BY <2>1, <2>2
<1>6. /\ JoinOK' => ApiInv'
      /\ at'[current] = "sleep"
      /\ \A y \in Lthreads \ {current} : at'[y] = at[y] /\ flags'[y] = flags[y]
      /\ "DETACH" \in flags'[current] <=> "DETACH" \in flags[current]
  BY <1>1, <1>2, <1>4, <1>5, YieldStep DEF ApiTypeOK, BlockedOK, Calling
<1>7. JoinOK' BY <1>2, <1>5, <1>6, YieldKeepsJoins DEF Calling
<1> QED BY <1>6, <1>7

LEMMA WaitFdStep ==
  ASSUME ApiInv, WaitFd
  PROVE  ApiInv'
<1> USE DEF ApiInv
<1>1. PICK timeout \in BOOLEAN : Yield("fd", Timed(timeout))
  BY DEF WaitFd
<1>2. /\ current # None /\ UNCHANGED <<ltJoin, target, ready, blocked, phase, events>>
      /\ waiting' = waiting \cup {current}
  BY DEF WaitFd
<1>3. Timed(timeout) \in SUBSET {"SLEEPING", "BUSY"} BY DEF Timed
<1>4. /\ JoinOK' => ApiInv'
      /\ at'[current] = "fd"
      /\ \A y \in Lthreads \ {current} : at'[y] = at[y] /\ flags'[y] = flags[y]
      /\ "DETACH" \in flags'[current] <=> "DETACH" \in flags[current]
  BY <1>1, <1>2, <1>3, YieldStep DEF ApiTypeOK, BlockedOK, ReadyOK, Calling
<1>5. JoinOK' BY <1>2, <1>4, YieldKeepsJoins DEF Calling
<1> QED BY <1>4, <1>5

LEMMA CondWaitStep ==
  ASSUME ApiInv, CondWait
  PROVE  ApiInv'
<1> USE DEF ApiInv
<1>1. PICK timeout \in BOOLEAN : Yield("cond", {"BUSY"} \cup Timed(timeout))
  BY DEF CondWait
<1> DEFINE set == {"BUSY"} \cup Timed(timeout)
<1>2. /\ current # None /\ UNCHANGED <<ltJoin, target, ready, waiting, phase, events>>
      /\ blocked' = Append(blocked, current)
  BY DEF CondWait
<1>3. set \in SUBSET {"SLEEPING", "BUSY"} /\ "BUSY" \in set BY DEF Timed
<1> HIDE DEF set
<1>4. current \in Lthreads /\ ~InSeq(current, blocked) BY <1>2, RunningFacts
<1>5. /\ blocked' \in Seq(Lthreads) /\ Distinct(blocked')
      /\ \A y \in Lthreads : InSeq(y, blocked') <=> InSeq(y, blocked) \/ y = current
  BY <1>2, <1>4, AppendFacts DEF ApiTypeOK, BlockedOK
<1>6. /\ JoinOK' => ApiInv'
      /\ at'[current] = "cond"
      /\ \A y \in Lthreads \ {current} : at'[y] = at[y] /\ flags'[y] = flags[y]
      /\ "DETACH" \in flags'[current] <=> "DETACH" \in flags[current]
  <2>1. Yield("cond", set) BY <1>1 DEF set
  <2> QED BY <2>1, <1>2, <1>3, <1>5, YieldStep DEF ApiTypeOK, ReadyOK, Calling
<1>7. JoinOK' BY <1>2, <1>6, YieldKeepsJoins DEF Calling
<1> QED BY <1>6, <1>7

(* The lthreads of W, each waiting in a call other than lthread_join(),     *)
(* are made ready and taken from every other place.                         *)
LEMMA MadeReadyStep ==
  ASSUME ApiInv, UNCHANGED <<at, ltJoin, target, current, phase, events>>,
         NEW W \in SUBSET Lthreads,
         \A x \in W : ~InSeq(x, ready) /\ at[x] \in {"sleep", "fd", "cond"},
         flags' \in [Lthreads -> SUBSET Flags],
         \A y \in Lthreads \ W : flags'[y] = flags[y],
         \A x \in W : /\ "SLEEPING" \notin flags'[x]
                      /\ "EXPIRED" \in flags'[x] => "EXPIRED" \in flags[x]
                      /\ \A g \in {"BUSY", "DETACH", "EXITED"} :
                           g \in flags'[x] <=> g \in flags[x]
                      /\ "CANCELLED" \in flags[x] => "CANCELLED" \in flags'[x]
                      /\ "CANCELLED" \in flags'[x] /\ "CANCELLED" \notin flags[x] =>
                           at[x] \in {"sleep", "fd"},
         ready' \in Seq(Lthreads), Distinct(ready'),
         \A y \in Lthreads : InSeq(y, ready') <=> InSeq(y, ready) \/ y \in W,
         blocked' \in Seq(Lthreads), Distinct(blocked'),
         \A y \in Lthreads : InSeq(y, blocked') <=> InSeq(y, blocked) /\ y \notin W,
         waiting' = waiting \ W
  PROVE  ApiInv'
<1> USE ApiAssumption DEF ApiInv
<1>g. \A y \in Lthreads : Alive(y)' <=> Alive(y) BY DEF Alive
<1>1. ApiTypeOK' BY DEF ApiTypeOK
<1>2. RunOK' BY <1>g DEF RunOK
<1>3. ReadyOK' BY DEF ReadyOK, Calling
<1>4. BlockedOK' BY DEF BlockedOK
<1>5. WaitingOK' BY DEF WaitingOK, ApiTypeOK
<1>6. SleepOK'
  <2> SUFFICES ASSUME NEW y \in Lthreads
               PROVE  /\ "SLEEPING" \in flags'[y] => at[y] \in Calling /\ ~InSeq(y, ready')
                      /\ "EXPIRED" \in flags'[y] /\ Alive(y) => current = y /\ phase = "expire"
    BY <1>g DEF SleepOK
  <2>1. CASE y \in W BY <2>1 DEF SleepOK
  <2>2. CASE y \notin W BY <2>2 DEF SleepOK
  <2> QED BY <2>1, <2>2
<1>7. JoinOK'
  <2> SUFFICES ASSUME NEW y \in Lthreads PROVE
        /\ target[y] # None <=> at[y] = "join"
        /\ target[y] # None =>
             /\ target[y] # y /\ at[target[y]] \notin {"unborn", "freed"}
             /\ Alive(target[y]) => ltJoin[target[y]] = y
             /\ at[target[y]] = "dead" => InSeq(y, ready')
             /\ \A z \in Lthreads \ {y} : target[z] # target[y]
        /\ Alive(y) /\ ltJoin[y] # None =>
             /\ target[ltJoin[y]] = y
             /\ ~InSeq(ltJoin[y], ready')
             /\ "DETACH" \notin flags'[y]
    BY <1>g DEF JoinOK, Alive
  <2>1. ASSUME Alive(y), ltJoin[y] # None
        PROVE  /\ target[ltJoin[y]] = y
               /\ ~InSeq(ltJoin[y], ready')
               /\ "DETACH" \notin flags'[y]
    <3>1. /\ ltJoin[y] \in Lthreads /\ target[ltJoin[y]] = y
          /\ ~InSeq(ltJoin[y], ready) /\ "DETACH" \notin flags[y]
      BY <2>1 DEF JoinOK, ApiTypeOK
    <3>2. at[ltJoin[y]] = "join" BY <3>1 DEF JoinOK
    <3>3. ltJoin[y] \notin W BY <3>2
    <3> QED BY <3>1, <3>3
  <2> QED BY <2>1 DEF JoinOK
<1>8. KeptOK'
  <2> SUFFICES ASSUME NEW y \in Lthreads
               PROVE  /\ ~InSeq(y, ready') =>
                           /\ at[y] # "new"
                           /\ at[y] = "sleep" => "SLEEPING" \in flags'[y]
                           /\ at[y] = "fd" => y \in waiting'
                           /\ at[y] = "cond" => InSeq(y, blocked')
                      /\ at[y] \in {"cond", "join"} => "BUSY" \in flags'[y]
    BY DEF KeptOK
  <2>1. CASE y \in W BY <2>1 DEF KeptOK
  <2>2. CASE y \notin W BY <2>2 DEF KeptOK
  <2> QED BY <2>1, <2>2
<1>9. EndOK'
  <2> SUFFICES ASSUME NEW y \in Lthreads
               PROVE  /\ Alive(y) => "EXITED" \notin flags'[y]
                      /\ Alive(y) /\ "CANCELLED" \in flags'[y] =>
                           at[y] \in {"sleep", "fd"} /\ InSeq(y, ready')
                      /\ at[y] = "dead" =>
                           {"EXITED", "CANCELLED"} \cap flags'[y] # {} /\ "DETACH" \notin flags'[y]
                      /\ at[y] = "unborn" => flags'[y] = {} /\ ltJoin[y] = None
    BY <1>g DEF EndOK
  <2>1. CASE y \in W BY <2>1 DEF EndOK
  <2>2. CASE y \notin W BY <2>2 DEF EndOK
  <2> QED BY <2>1, <2>2
<1> QED BY <1>1, <1>2, <1>3, <1>4, <1>5, <1>6, <1>7, <1>8, <1>9

LEMMA CondSignalStep ==
  ASSUME ApiInv, CondSignal
  PROVE  ApiInv'
<1> USE DEF ApiInv
<1> DEFINE x == Head(blocked)
<1>1. /\ x \in Lthreads /\ InSeq(x, blocked)
      /\ blocked' \in Seq(Lthreads) /\ Distinct(blocked')
      /\ \A y \in Lthreads : InSeq(y, blocked') <=> InSeq(y, blocked) /\ y # x
  BY HeadFacts DEF CondSignal, ApiTypeOK, BlockedOK
<1>2. /\ UNCHANGED <<at, ltJoin, target, waiting, current, phase, events>>
      /\ flags' = Desched(flags, x) /\ ready' = Append(ready, x)
  BY DEF CondSignal
<1> HIDE DEF x
<1>3. at[x] = "cond" /\ ~InSeq(x, ready) BY <1>1 DEF BlockedOK
<1>4. /\ ready' \in Seq(Lthreads) /\ Distinct(ready')
      /\ \A y \in Lthreads : InSeq(y, ready') <=> InSeq(y, ready) \/ y = x
  BY <1>1, <1>2, <1>3, AppendFacts DEF ApiTypeOK, ReadyOK
<1>5. /\ flags' \in [Lthreads -> SUBSET Flags]
      /\ \A y \in Lthreads \ {x} : flags'[y] = flags[y]
      /\ "SLEEPING" \notin flags'[x]
      /\ "EXPIRED" \in flags'[x] => "EXPIRED" \in flags[x]
      /\ \A g \in Flags \ {"SLEEPING", "EXPIRED"} : g \in flags'[x] <=> g \in flags[x]
  <2>1. flags \in [Lthreads -> SUBSET Flags] BY DEF ApiTypeOK
  <2> QED BY <2>1, <1>1, <1>2, DeschedFacts
<1>6. /\ \A g \in {"BUSY", "DETACH", "EXITED"} : g \in flags'[x] <=> g \in flags[x]
      /\ "CANCELLED" \in flags'[x] <=> "CANCELLED" \in flags[x]
  BY <1>5 DEF Flags
<1>7. waiting' = waiting \ {x} BY <1>2, <1>3 DEF WaitingOK
<1> DEFINE W == {x}
<1>8. W \in SUBSET Lthreads BY <1>1
<1> QED BY <1>1, <1>2, <1>3, <1>4, <1>5, <1>6, <1>7, <1>8, MadeReadyStep

LEMMA CondBroadcastStep ==
  ASSUME ApiInv, CondBroadcast
  PROVE  ApiInv'
<1> USE DEF ApiInv
<1> DEFINE W == {y \in Lthreads : InSeq(y, blocked)}
<1>1. /\ UNCHANGED <<at, ltJoin, target, waiting, current, phase, events>>
      /\ blocked' = <<>> /\ ready' = ready \o blocked
  BY DEF CondBroadcast
<1>2. \A y \in W : ~InSeq(y, ready) /\ at[y] = "cond" BY DEF BlockedOK
<1>3. /\ ready' \in Seq(Lthreads) /\ Distinct(ready')
      /\ \A y \in Lthreads : InSeq(y, ready') <=> InSeq(y, ready) \/ y \in W
  BY <1>1, <1>2, ConcatFacts DEF ApiTypeOK, ReadyOK, BlockedOK
<1>4. /\ blocked' \in Seq(Lthreads) /\ Distinct(blocked')
      /\ \A y \in Lthreads : InSeq(y, blocked') <=> InSeq(y, blocked) /\ y \notin W
  BY <1>1, EmptyFacts
<1>5. waiting' = waiting \ W BY <1>1, <1>2 DEF WaitingOK, ApiTypeOK
<1>6. flags' = [y \in Lthreads |-> IF y \in W THEN Desched(flags, y)[y] ELSE flags[y]]
  BY DEF CondBroadcast, InSeq, ApiTypeOK
<1>7. \A y \in Lthreads :
        /\ Desched(flags, y)[y] \in SUBSET Flags
        /\ "SLEEPING" \notin Desched(flags, y)[y]
        /\ "EXPIRED" \in Desched(flags, y)[y] => "EXPIRED" \in flags[y]
        /\ \A g \in Flags \ {"SLEEPING", "EXPIRED"} :
             g \in Desched(flags, y)[y] <=> g \in flags[y]
  BY DeschedFacts DEF ApiTypeOK
<1>8. W \in SUBSET Lthreads OBVIOUS
<1> HIDE DEF W
<1>9. /\ flags' \in [Lthreads -> SUBSET Flags]
      /\ \A y \in Lthreads \ W : flags'[y] = flags[y]
  BY <1>6, <1>7 DEF ApiTypeOK
<1>10. \A y \in W : flags'[y] = Desched(flags, y)[y] BY <1>6, <1>8
<1>11. \A y \in W : /\ "SLEEPING" \notin flags'[y]
                    /\ "EXPIRED" \in flags'[y] => "EXPIRED" \in flags[y]
                    /\ \A g \in {"BUSY", "DETACH", "EXITED"} :
                         g \in flags'[y] <=> g \in flags[y]
                    /\ "CANCELLED" \in flags'[y] <=> "CANCELLED" \in flags[y]
  BY <1>7, <1>8, <1>10 DEF Flags
<1> QED BY <1>1, <1>2, <1>3, <1>4, <1>5, <1>8, <1>9, <1>11, MadeReadyStep

LEMMA WakeupStep ==
  ASSUME ApiInv, Wakeup
  PROVE  ApiInv'
<1> USE DEF ApiInv
<1>1. PICK x \in Sleeping :
        /\ at[x] = "sleep" /\ ready' = Append(ready, x) /\ flags' = Desched(flags, x)
        /\ UNCHANGED <<at, ltJoin, target, waiting, blocked, current, phase, events>>
  BY DEF Wakeup
<1>2. x \in Lthreads /\ "SLEEPING" \in flags[x] BY DEF Sleeping, Is
<1>3. ~InSeq(x, ready) /\ ~InSeq(x, blocked) /\ x \notin waiting
  BY <1>1, <1>2 DEF SleepOK, BlockedOK, WaitingOK
<1>4. /\ ready' \in Seq(Lthreads) /\ Distinct(ready')
      /\ \A y \in Lthreads : InSeq(y, ready') <=> InSeq(y, ready) \/ y = x
  BY <1>1, <1>2, <1>3, AppendFacts DEF ApiTypeOK, ReadyOK
<1>5. /\ flags' \in [Lthreads -> SUBSET Flags]
      /\ \A y \in Lthreads \ {x} : flags'[y] = flags[y]
      /\ "SLEEPING" \notin flags'[x]
      /\ "EXPIRED" \in flags'[x] => "EXPIRED" \in flags[x]
      /\ \A g \in Flags \ {"SLEEPING", "EXPIRED"} : g \in flags'[x] <=> g \in flags[x]
  BY <1>1, <1>2, DeschedFacts DEF ApiTypeOK
<1>6. /\ \A g \in {"BUSY", "DETACH", "EXITED"} : g \in flags'[x] <=> g \in flags[x]
      /\ "CANCELLED" \in flags'[x] <=> "CANCELLED" \in flags[x]
  BY <1>5 DEF Flags
<1> DEFINE W == {x}
<1>7. waiting' = waiting \ W BY <1>1, <1>3
<1>8. /\ W \in SUBSET Lthreads
      /\ \A y \in Lthreads : InSeq(y, blocked') <=> InSeq(y, blocked) /\ y \notin W
  BY <1>1, <1>2, <1>3
<1> QED BY <1>1, <1>2, <1>3, <1>4, <1>5, <1>6, <1>7, <1>8, MadeReadyStep
     DEF ApiTypeOK, BlockedOK

LEMMA CancelStep ==
  ASSUME ApiInv, Cancel
  PROVE  ApiInv'
<1> USE DEF ApiInv
<1>1. PICK x \in Lthreads :
        /\ (at[x] = "sleep" /\ x \in Sleeping) \/ x \in waiting
        /\ flags' = [Desched(flags, x) EXCEPT ![x] = @ \cup {"CANCELLED"}]
        /\ waiting' = waiting \ {x}
        /\ ready' = Append(ready, x)
        /\ UNCHANGED <<at, ltJoin, target, blocked, current, phase, events>>
  BY DEF Cancel
<1>2. at[x] \in {"sleep", "fd"} /\ ~InSeq(x, ready)
  BY <1>1 DEF Sleeping, Is, SleepOK, WaitingOK
<1>3. ~InSeq(x, blocked) BY <1>2 DEF BlockedOK
<1>4. /\ ready' \in Seq(Lthreads) /\ Distinct(ready')
      /\ \A y \in Lthreads : InSeq(y, ready') <=> InSeq(y, ready) \/ y = x
  BY <1>1, <1>2, AppendFacts DEF ApiTypeOK, ReadyOK
<1> DEFINE d == Desched(flags, x)
<1>5. /\ d \in [Lthreads -> SUBSET Flags]
      /\ \A y \in Lthreads \ {x} : d[y] = flags[y]
      /\ "SLEEPING" \notin d[x]
      /\ "EXPIRED" \in d[x] => "EXPIRED" \in flags[x]
      /\ \A g \in Flags \ {"SLEEPING", "EXPIRED"} : g \in d[x] <=> g \in flags[x]
  BY DeschedFacts DEF ApiTypeOK
<1>6. flags' = [d EXCEPT ![x] = d[x] \cup {"CANCELLED"}] BY <1>1
<1> HIDE DEF d
<1>7. /\ flags' \in [Lthreads -> SUBSET Flags]
      /\ flags'[x] = d[x] \cup {"CANCELLED"}
      /\ \A y \in Lthreads \ {x} : flags'[y] = flags[y]
  BY <1>5, <1>6 DEF Flags
<1>8. /\ "SLEEPING" \notin flags'[x]
      /\ "EXPIRED" \in flags'[x] => "EXPIRED" \in flags[x]
      /\ \A g \in {"BUSY", "DETACH", "EXITED"} : g \in flags'[x] <=> g \in flags[x]
      /\ "CANCELLED" \in flags'[x]
  BY <1>5, <1>7 DEF Flags
<1> DEFINE W == {x}
<1>9. /\ W \in SUBSET Lthreads /\ waiting' = waiting \ W
      /\ \A y \in Lthreads : InSeq(y, blocked') <=> InSeq(y, blocked) /\ y \notin W
  BY <1>1, <1>3
<1>10. \A y \in W : /\ ~InSeq(y, ready) /\ at[y] \in {"sleep", "fd", "cond"}
                    /\ "SLEEPING" \notin flags'[y]
                    /\ "EXPIRED" \in flags'[y] => "EXPIRED" \in flags[y]
                    /\ \A g \in {"BUSY", "DETACH", "EXITED"} :
                         g \in flags'[y] <=> g \in flags[y]
                    /\ "CANCELLED" \in flags'[y] /\ at[y] \in {"sleep", "fd"}
  BY <1>2, <1>8
<1>11. /\ blocked' \in Seq(Lthreads) /\ Distinct(blocked')
       /\ \A y \in Lthreads \ W : flags'[y] = flags[y]
       /\ \A y \in Lthreads : InSeq(y, ready') <=> InSeq(y, ready) \/ y \in W
       /\ UNCHANGED <<at, ltJoin, target, current, phase, events>>
  BY <1>1, <1>4, <1>7 DEF ApiTypeOK, BlockedOK
<1> HIDE DEF W
<1> QED BY <1>4, <1>7, <1>9, <1>10, <1>11, MadeReadyStep

LEMMA CreateStep ==
  ASSUME ApiInv, Create
  PROVE  ApiInv'
<1> USE ApiAssumption DEF ApiInv
<1>1. PICK x \in Unborn : at' = [at EXCEPT ![x] = "new"] /\ ready' = Append(ready, x)
  BY DEF Create
<1>2. /\ current # None
      /\ UNCHANGED <<flags, ltJoin, target, waiting, blocked, current, phase, events>>
  BY DEF Create
<1>3. /\ x \in Lthreads /\ at[x] = "unborn" BY DEF Unborn
<1>4. /\ ~InSeq(x, ready) /\ ~InSeq(x, blocked) /\ x \notin waiting
      /\ flags[x] = {} /\ ltJoin[x] = None /\ target[x] = None /\ current # x
      /\ phase \in {"expire", "ready", "events"}
  BY <1>2, <1>3, RunningFacts
     DEF ReadyOK, BlockedOK, WaitingOK, EndOK, JoinOK, RunOK, Calling
<1>5. /\ ready' \in Seq(Lthreads) /\ Distinct(ready')
      /\ \A y \in Lthreads : InSeq(y, ready') <=> InSeq(y, ready) \/ y = x
  BY <1>1, <1>3, <1>4, AppendFacts DEF ApiTypeOK, ReadyOK
<1>6. /\ at' \in [Lthreads -> {"unborn", "new", "run", "dead", "freed"} \cup Calling]
      /\ at'[x] = "new"
      /\ \A y \in Lthreads \ {x} : at'[y] = at[y]
  BY <1>1, <1>3 DEF ApiTypeOK
<1>7. \A y \in Lthreads \ {x} : Alive(y)' <=> Alive(y) BY <1>6 DEF Alive
<1>a. ApiTypeOK' BY <1>2, <1>5, <1>6 DEF ApiTypeOK
<1>b. RunOK' BY <1>2, <1>3, <1>4, <1>6 DEF RunOK
<1>c. ReadyOK' BY <1>5, <1>6 DEF ReadyOK
<1>d. BlockedOK' BY <1>2, <1>4, <1>5, <1>6 DEF BlockedOK
<1>e. WaitingOK' BY <1>2, <1>4, <1>5, <1>6 DEF WaitingOK, ApiTypeOK
<1>f. SleepOK' BY <1>2, <1>4, <1>5, <1>6, <1>7 DEF SleepOK
<1>g. JoinOK'
  <2> SUFFICES ASSUME NEW y \in Lthreads PROVE
        /\ target[y] # None <=> at'[y] = "join"
        /\ target[y] # None =>
             /\ target[y] # y /\ at'[target[y]] \notin {"unborn", "freed"}
             /\ Alive(target[y])' => ltJoin[target[y]] = y
             /\ at'[target[y]] = "dead" => InSeq(y, ready')
             /\ \A z \in Lthreads \ {y} : target[z] # target[y]
        /\ Alive(y)' /\ ltJoin[y] # None =>
             /\ target[ltJoin[y]] = y
             /\ ~InSeq(ltJoin[y], ready')
             /\ "DETACH" \notin flags[y]
    BY <1>2 DEF JoinOK, Alive
  <2>1. target[y] # None <=> at'[y] = "join" BY <1>4, <1>6 DEF JoinOK
  <2>2. ASSUME target[y] # None
        PROVE  /\ target[y] # y /\ at'[target[y]] \notin {"unborn", "freed"}
               /\ Alive(target[y])' => ltJoin[target[y]] = y
               /\ at'[target[y]] = "dead" => InSeq(y, ready')
               /\ \A z \in Lthreads \ {y} : target[z] # target[y]
    <3>1. target[y] \in Lthreads /\ target[y] # x
      BY <2>2, <1>3 DEF JoinOK, ApiTypeOK
    <3>2. /\ at'[target[y]] = at[target[y]]
          /\ Alive(target[y])' => Alive(target[y])
      BY <3>1, <1>2, <1>6 DEF Alive
    <3>3. /\ target[y] # y /\ at[target[y]] \notin {"unborn", "freed"}
          /\ Alive(target[y]) => ltJoin[target[y]] = y
          /\ at[target[y]] = "dead" => InSeq(y, ready)
          /\ \A z \in Lthreads \ {y} : target[z] # target[y]
      BY <2>2 DEF JoinOK
    <3> QED BY <3>2, <3>3, <1>5
  <2>3. ASSUME Alive(y)', ltJoin[y] # None
        PROVE  /\ target[ltJoin[y]] = y
               /\ ~InSeq(ltJoin[y], ready')
               /\ "DETACH" \notin flags[y]
    <3>1. y # x /\ Alive(y) BY <2>3, <1>4, <1>7
    <3>2. /\ ltJoin[y] \in Lthreads /\ target[ltJoin[y]] = y
          /\ ~InSeq(ltJoin[y], ready) /\ "DETACH" \notin flags[y]
      BY <2>3, <3>1 DEF JoinOK, ApiTypeOK
    <3>3. ltJoin[y] # x BY <3>2, <1>3, <1>4
    <3> QED BY <3>2, <3>3, <1>5
  <2> QED BY <2>1, <2>2, <2>3
<1>h. KeptOK' BY <1>2, <1>5, <1>6 DEF KeptOK
<1>i. EndOK' BY <1>2, <1>4, <1>5, <1>6, <1>7 DEF EndOK
<1> QED BY <1>a, <1>b, <1>c, <1>d, <1>e, <1>f, <1>g, <1>h, <1>i

LEMMA DetachStep ==
  ASSUME ApiInv, Detach
  PROVE  ApiInv'
<1> USE ApiAssumption DEF ApiInv
<1>1. PICK x \in Lthreads :
        /\ at[x] \notin {"unborn", "dead", "freed"} /\ ltJoin[x] = None
        /\ flags' = [flags EXCEPT ![x] = @ \cup {"DETACH"}]
  BY DEF Detach
<1>2. UNCHANGED <<at, ltJoin, target, ready, waiting, blocked, current, phase, events>>
  BY DEF Detach
<1>3. /\ flags' \in [Lthreads -> SUBSET Flags]
      /\ \A y \in Lthreads, g \in Flags \ {"DETACH"} : g \in flags'[y] <=> g \in flags[y]
      /\ \A y \in Lthreads \ {x} : flags'[y] = flags[y]
  BY <1>1 DEF ApiTypeOK, Flags
<1>4. \A y \in Lthreads :
        /\ "SLEEPING" \in flags'[y] <=> "SLEEPING" \in flags[y]
        /\ "EXPIRED" \in flags'[y] <=> "EXPIRED" \in flags[y]
        /\ "BUSY" \in flags'[y] <=> "BUSY" \in flags[y]
        /\ "CANCELLED" \in flags'[y] <=> "CANCELLED" \in flags[y]
        /\ "EXITED" \in flags'[y] <=> "EXITED" \in flags[y]
  BY <1>3 DEF Flags
<1>g. \A y \in Lthreads : Alive(y)' <=> Alive(y) BY <1>2 DEF Alive
<1>a. ApiTypeOK' BY <1>2, <1>3 DEF ApiTypeOK
<1>b. RunOK' BY <1>2, <1>g DEF RunOK
<1>c. ReadyOK' BY <1>2 DEF ReadyOK
<1>d. BlockedOK' BY <1>2 DEF BlockedOK
<1>e. WaitingOK' BY <1>2 DEF WaitingOK
<1>f. SleepOK' BY <1>2, <1>4, <1>g DEF SleepOK
<1>j. JoinOK'
  <2>1. \A y \in Lthreads : ltJoin[y] # None => flags'[y] = flags[y] BY <1>1, <1>3
  <2> QED BY <2>1, <1>2 DEF JoinOK, Alive
<1>h. KeptOK' BY <1>2, <1>4 DEF KeptOK
<1>i. EndOK'
  <2>1. \A y \in Lthreads : at[y] \in {"unborn", "dead"} => flags'[y] = flags[y]
    BY <1>1, <1>3
  <2> QED BY <2>1, <1>2, <1>4, <1>g DEF EndOK
<1> QED BY <1>a, <1>b, <1>c, <1>d, <1>e, <1>f, <1>h, <1>i, <1>j

(* A mark on one that has exited says nothing to anybody. *)
LEMMA JoinEndedStep ==
  ASSUME ApiInv, NEW x \in Lthreads, "EXITED" \in flags[x], at[x] # "unborn",
         ltJoin' = [ltJoin EXCEPT ![x] = current], current # None,
         UNCHANGED <<at, flags, target, ready, waiting, blocked, current, phase, events>>
  PROVE  ApiInv'
<1> USE ApiAssumption DEF ApiInv
<1>1. ~Alive(x) BY DEF EndOK
<1>2. /\ ltJoin' \in [Lthreads -> Lthreads \cup {None}]
      /\ \A y \in Lthreads : Alive(y) \/ at[y] = "unborn" => ltJoin'[y] = ltJoin[y]
  BY <1>1 DEF ApiTypeOK
<1>g. \A y \in Lthreads : Alive(y)' <=> Alive(y) BY DEF Alive
<1>a. ApiTypeOK' BY <1>2 DEF ApiTypeOK
<1>b. RunOK' BY <1>g DEF RunOK
<1>c. ReadyOK' BY DEF ReadyOK
<1>d. BlockedOK' BY DEF BlockedOK
<1>e. WaitingOK' BY DEF WaitingOK
<1>f. SleepOK' BY <1>g DEF SleepOK
<1>j. JoinOK'
  <2>1. \A y \in Lthreads : target[y] # None => target[y] \in Lthreads BY DEF ApiTypeOK
  <2> QED BY <2>1, <1>2 DEF JoinOK, Alive
<1>h. KeptOK' BY DEF KeptOK
<1>i. EndOK' BY <1>2, <1>g DEF EndOK
<1> QED BY <1>a, <1>b, <1>c, <1>d, <1>e, <1>f, <1>h, <1>i, <1>j

LEMMA JoinStep ==
  ASSUME ApiInv, Join
  PROVE  ApiInv'
<1> USE ApiAssumption DEF ApiInv
<1>1. PICK x \in Lthreads \ {current}, timeout \in BOOLEAN :
        /\ current # None
        /\ at[x] \notin {"unborn", "freed"} /\ ltJoin[x] = None
        /\ {"DETACH", "CANCELLED"} \cap flags[x] = {}
        /\ ltJoin' = [ltJoin EXCEPT ![x] = current]
        /\ IF "EXITED" \in flags[x] THEN UNCHANGED <<at, flags, target, current>>
           ELSE /\ target' = [target EXCEPT ![current] = x]
                /\ Yield("join", {"BUSY"} \cup Timed(timeout))
        /\ UNCHANGED <<ready, waiting, blocked, phase, events>>
  BY DEF Join
<1>2. CASE "EXITED" \in flags[x]
  BY <1>1, <1>2, JoinEndedStep
<1>3. CASE "EXITED" \notin flags[x]
  <2> DEFINE set == {"BUSY"} \cup Timed(timeout)
             c == current
  <2>1. Alive(x) BY <1>1, <1>3 DEF EndOK, Alive
  <2>2. /\ c \in Lthreads /\ c # x /\ at[c] = "run" /\ target[c] = None
        /\ ~InSeq(c, ready)
    BY <1>1, RunningFacts
  <2>3. set \in SUBSET {"SLEEPING", "BUSY"} /\ "BUSY" \in set BY DEF Timed
  <2>4. Yield("join", set) BY <1>1, <1>3
  <2> HIDE DEF set
  <2>5. /\ ltJoin' \in [Lthreads -> Lthreads \cup {None}]
        /\ target' \in [Lthreads -> Lthreads \cup {None}]
        /\ ltJoin'[x] = c /\ target'[c] = x
        /\ \A y \in Lthreads \ {x} : ltJoin'[y] = ltJoin[y]
        /\ \A y \in Lthreads \ {c} : target'[y] = target[y]
    BY <1>1, <1>3, <2>2 DEF ApiTypeOK
  <2>6. /\ JoinOK' => ApiInv'
        /\ at'[c] = "join"
        /\ \A y \in Lthreads \ {c} : at'[y] = at[y] /\ flags'[y] = flags[y]
        /\ "DETACH" \in flags'[c] <=> "DETACH" \in flags[c]
    <3>1. \A y \in Lthreads : at[y] = "unborn" => ltJoin'[y] = ltJoin[y]
      BY <1>1, <2>5
    <3>2. ApiTypeOK /\ ReadyOK /\ BlockedOK OBVIOUS
    <3> QED BY <3>1, <3>2, <1>1, <2>3, <2>4, <2>5, YieldStep
         DEF ApiTypeOK, ReadyOK, BlockedOK, Calling
  <2> HIDE DEF c
  <2>7. /\ \A y \in Lthreads : target[y] # x
        /\ \A y \in Lthreads : Alive(y) => ltJoin[y] # c
    <3>1. \A y \in Lthreads : target[y] # x BY <1>1, <2>1 DEF JoinOK, ApiTypeOK
    <3>2. \A y \in Lthreads : Alive(y) => ltJoin[y] # c
      BY <2>2 DEF JoinOK
    <3> QED BY <3>1, <3>2
  <2>8. JoinOK'
    <3> SUFFICES ASSUME NEW y \in Lthreads PROVE
          /\ target'[y] # None <=> at'[y] = "join"
          /\ target'[y] # None =>
               /\ target'[y] # y /\ at'[target'[y]] \notin {"unborn", "freed"}
               /\ Alive(target[y])' => ltJoin'[target'[y]] = y
               /\ at'[target'[y]] = "dead" => InSeq(y, ready)
               /\ \A z \in Lthreads \ {y} : target'[z] # target'[y]
          /\ Alive(y)' /\ ltJoin'[y] # None =>
               /\ target'[ltJoin'[y]] = y
               /\ ~InSeq(ltJoin'[y], ready)
               /\ "DETACH" \notin flags'[y]
      BY <1>1 DEF JoinOK, Alive
    <3>1. target'[y] # None <=> at'[y] = "join"
      BY <2>2, <2>5, <2>6 DEF JoinOK
    <3>2. ASSUME target'[y] # None
          PROVE  /\ target'[y] # y /\ at'[target'[y]] \notin {"unborn", "freed"}
                 /\ Alive(target[y])' => ltJoin'[target'[y]] = y
                 /\ at'[target'[y]] = "dead" => InSeq(y, ready)
                 /\ \A z \in Lthreads \ {y} : target'[z] # target'[y]
      <4>1. CASE y = c
        <5>1. target'[y] = x /\ at'[x] = at[x] BY <4>1, <2>2, <2>5, <2>6
        <5>2. at[x] # "dead" BY <2>1 DEF Alive
        <5> QED BY <4>1, <5>1, <5>2, <1>1, <2>2, <2>5, <2>7
      <4>2. CASE y # c
        <5>1. /\ target'[y] = target[y] /\ target[y] \in Lthreads /\ target[y] # x
          BY <3>2, <4>2, <2>5, <2>7 DEF ApiTypeOK
        <5>2. /\ target[y] # y /\ at[target[y]] \notin {"unborn", "freed"}
              /\ Alive(target[y]) => ltJoin[target[y]] = y
              /\ at[target[y]] = "dead" => InSeq(y, ready)
              /\ \A z \in Lthreads \ {y} : target[z] # target[y]
          BY <3>2, <5>1 DEF JoinOK
        <5>3. /\ at'[target[y]] = at[target[y]] \/ (target[y] = c /\ at'[target[y]] = "join")
              /\ ltJoin'[target[y]] = ltJoin[target[y]]
          BY <5>1, <2>5, <2>6
        <5>4. target[y] = c => Alive(target[y]) BY <2>2 DEF Alive
        <5>5. Alive(target[y])' => Alive(target[y])
          BY <5>1, <5>3, <5>4, <4>2, <2>5 DEF Alive
        <5>6. \A z \in Lthreads \ {y} : target'[z] # target[y]
          BY <5>1, <5>2, <2>5
        <5> QED BY <5>1, <5>2, <5>3, <5>5, <5>6
      <4> QED BY <4>1, <4>2
    <3>3. ASSUME Alive(y)', ltJoin'[y] # None
          PROVE  /\ target'[ltJoin'[y]] = y
                 /\ ~InSeq(ltJoin'[y], ready)
                 /\ "DETACH" \notin flags'[y]
      <4>1. CASE y = x
        BY <4>1, <1>1, <2>2, <2>5, <2>6
      <4>2. CASE y # x
        <5>1. Alive(y) BY <3>3, <2>2, <2>6 DEF Alive
        <5>2. /\ ltJoin'[y] = ltJoin[y] /\ ltJoin[y] \in Lthreads
              /\ target[ltJoin[y]] = y
              /\ ~InSeq(ltJoin[y], ready) /\ "DETACH" \notin flags[y]
          BY <3>3, <4>2, <5>1, <2>5 DEF JoinOK, ApiTypeOK
        <5>3. ltJoin[y] # c BY <5>1, <2>7
        <5> QED BY <5>2, <5>3, <2>5, <2>6
      <4> QED BY <4>1, <4>2
    <3> QED BY <3>1, <3>2, <3>3
  <2> QED BY <2>6, <2>8
<1> QED BY <1>2, <1>3

-----------------------------------------------------------------------------
(* The cancelled lthread that is buried. *)

(* Its BUSY is read and taken: it waits for nothing. *)
LEMMA ReadBuriedStep ==
  ASSUME ApiInv, BuriedOK, ReadBuried
  PROVE  ApiInv' /\ BuriedOK'
<1> USE ApiAssumption DEF ApiInv
<1>1. /\ phase = "buried" /\ current = None /\ buried \in Lthreads
      /\ at[buried] \in {"dead", "freed"} /\ "CANCELLED" \in flags[buried]
  BY DEF ReadBuried, BuriedOK, RunOK
<1>2. /\ UNCHANGED <<at, ltJoin, target, ready, waiting, blocked, current, events>>
      /\ phase' \in {"ready", "broken"}
      /\ phase' = "ready" <=> buried' = None
      /\ phase' = "broken" => buried' = buried
      /\ flags' = [flags EXCEPT ![buried] = flags[buried] \ {"BUSY"}] \/ flags' = flags
  BY <1>1 DEF ReadBuried
<1>3. /\ flags' \in [Lthreads -> SUBSET Flags]
      /\ \A y \in Lthreads \ {buried} : flags'[y] = flags[y]
      /\ \A g \in Flags \ {"BUSY"} : g \in flags'[buried] <=> g \in flags[buried]
  BY <1>1, <1>2 DEF ApiTypeOK
<1>4. \A y \in Lthreads :
        /\ "SLEEPING" \in flags'[y] <=> "SLEEPING" \in flags[y]
        /\ "EXPIRED" \in flags'[y] <=> "EXPIRED" \in flags[y]
        /\ "CANCELLED" \in flags'[y] <=> "CANCELLED" \in flags[y]
        /\ "DETACH" \in flags'[y] <=> "DETACH" \in flags[y]
        /\ "EXITED" \in flags'[y] <=> "EXITED" \in flags[y]
        /\ Alive(y) \/ at[y] = "unborn" => flags'[y] = flags[y]
  BY <1>1, <1>3 DEF Flags, Alive
<1>g. \A y \in Lthreads : Alive(y)' <=> Alive(y) BY <1>2 DEF Alive
<1>a. ApiTypeOK' BY <1>2, <1>3 DEF ApiTypeOK
<1>b. RunOK' BY <1>1, <1>2 DEF RunOK
<1>c. ReadyOK' BY <1>2 DEF ReadyOK
<1>d. BlockedOK' BY <1>2 DEF BlockedOK
<1>e. WaitingOK' BY <1>2 DEF WaitingOK
<1>f. SleepOK' BY <1>1, <1>2, <1>4, <1>g DEF SleepOK
<1>j. JoinOK' BY <1>2, <1>4 DEF JoinOK, Alive
<1>h. KeptOK'
  <2>1. \A y \in Lthreads : at[y] \in {"cond", "join"} => Alive(y) BY DEF Alive
  <2> QED BY <2>1, <1>2, <1>4 DEF KeptOK
<1>i. EndOK' BY <1>2, <1>4, <1>g DEF EndOK
<1>k. BuriedOK' BY <1>1, <1>2, <1>3 DEF BuriedOK, Flags
<1> QED BY <1>a, <1>b, <1>c, <1>d, <1>e, <1>f, <1>h, <1>i, <1>j, <1>k

(* It is set for the time of a look at its state. *)
LEMMA BuriedKept ==
  ASSUME ApiInv, BuriedOK, ApiNext
  PROVE  BuriedOK'
<1> USE ApiAssumption
<1>1. CASE ReadyCancelled
  <2> DEFINE x == Head(ready)
  <2>1. /\ x \in Lthreads /\ "CANCELLED" \in flags[x] /\ Bury(x, flags, Tail(ready))
        /\ phase' = "buried" /\ buried' = x
    BY <1>1, HeadFacts DEF ReadyCancelled, ApiInv, ApiTypeOK
  <2> HIDE DEF x
  <2>2. at'[x] \in {"dead", "freed"} BY <2>1 DEF Bury, ApiInv, ApiTypeOK
  <2>3. "CANCELLED" \in flags'[x]
    <3>1. CASE ltJoin[x] = None BY <2>1, <3>1 DEF Bury
    <3>2. CASE ltJoin[x] # None
      <4> DEFINE j == ltJoin[x]
      <4>1. j \in Lthreads /\ flags' = Desched(flags, j)
        BY <2>1, <3>2 DEF Bury, ApiInv, ApiTypeOK
      <4> HIDE DEF j
      <4>2. flags \in [Lthreads -> SUBSET Flags] BY DEF ApiInv, ApiTypeOK
      <4> QED BY <4>1, <4>2, <2>1, DeschedFacts DEF Flags
    <3> QED BY <3>1, <3>2
  <2> QED BY <2>1, <2>2, <2>3 DEF BuriedOK
<1>2. CASE ReadBuried BY <1>2, ReadBuriedStep
<1>3. ASSUME ~ReadyCancelled, ~ReadBuried
      PROVE  UNCHANGED buried /\ {phase, phase'} \cap {"buried", "broken"} = {}
  <2>1. CASE Scheduler
    BY <1>3, <2>1 DEF Scheduler, Top, Expire, ExpireDone, ReadyResume, Poll, Event, EventsDone
  <2>2. CASE Calls
    <3>1. current # None /\ UNCHANGED <<phase, buried>>
      BY <2>2 DEF Calls, Create, Sleep, WaitFd, CondWait, CondSignal, CondBroadcast,
                  Wakeup, Cancel, Detach, Exit, Join
    <3> QED BY <3>1 DEF ApiInv, RunOK
  <2> QED BY <2>1, <2>2 DEF ApiNext
<1> QED BY <1>1, <1>2, <1>3 DEF BuriedOK

-----------------------------------------------------------------------------
(* lthread_run() and the calls of lthread.c: in every reachable state the   *)
(* lists, trees, marks and places agree, as ApiInv says.                    *)
THEOREM ApiInvariance == ApiSpec => [](ApiInv /\ BuriedOK)
<1>1. ApiInit => ApiInv /\ BuriedOK BY ApiInitInv DEF ApiInit, BuriedOK
<1>2. ApiInv /\ BuriedOK /\ [ApiNext]_apiVars => (ApiInv /\ BuriedOK)'
  <2> SUFFICES ASSUME ApiInv, BuriedOK, [ApiNext]_apiVars PROVE ApiInv' /\ BuriedOK'
    OBVIOUS
  <2>1. CASE UNCHANGED apiVars
    BY <2>1 DEF apiVars, lts, ApiInv, ApiTypeOK, RunOK, ReadyOK, BlockedOK, WaitingOK,
                SleepOK, JoinOK, KeptOK, EndOK, Alive, BuriedOK
  <2>0. Scheduler \/ Calls => BuriedOK' BY BuriedKept DEF ApiNext
  <2>2. CASE Scheduler
    BY <2>2, TopStep, ExpireStep, ExpireDoneStep, ReadyResumeStep, ReadyCancelledStep,
       ReadBuriedStep, PollStep, EventStep, EventsDoneStep, <2>0 DEF Scheduler
  <2>3. CASE Calls
    BY <2>3, CreateStep, SleepStep, WaitFdStep, CondWaitStep, CondSignalStep,
       CondBroadcastStep, WakeupStep, CancelStep, DetachStep, ExitStep, JoinStep, <2>0 DEF Calls
  <2> QED BY <2>1, <2>2, <2>3 DEF ApiNext
<1> QED BY <1>1, <1>2, PTL DEF ApiSpec

(* One place is one element of Spots. *)
LEMMA SpotsFacts ==
  ASSUME NEW S, NEW q \in Seq(S), NEW x, Distinct(q)
  PROVE  /\ ~InSeq(x, q) => Spots(q, x) = {}
         /\ InSeq(x, q) => \E i : Spots(q, x) = {i}
<1>1. ~InSeq(x, q) => Spots(q, x) = {} BY DEF InSeq, Spots
<1>2. ASSUME InSeq(x, q) PROVE \E i : Spots(q, x) = {i}
  <2>1. PICK i \in 1..Len(q) : q[i] = x BY <1>2 DEF InSeq
  <2>2. Spots(q, x) = {i} BY <2>1 DEF Spots, Distinct
  <2> QED BY <2>2
<1> QED BY <1>1, <1>2

LEMMA SourcesFromInv ==
  ASSUME ApiInv, NEW x \in Lthreads
  PROVE  /\ Alive(x) /\ x # current => \E p \in Sources(x) : Sources(x) = {p}
         /\ ~Alive(x) \/ x = current => Sources(x) = {}
<1> USE ApiAssumption DEF ApiInv
<1> DEFINE R == {<<"ready", i>> : i \in Spots(ready, x)}
           C == {<<"cond", i>> : i \in Spots(blocked, x)}
           F == {<<"fd", y>> : y \in waiting \cap {x}}
           S == {<<"sleep", y>> : y \in {z \in Sleeping \cap {x} : at[z] = "sleep"}}
           J == {<<"join", y>> : y \in {z \in Lthreads : Alive(z) /\ ltJoin[z] = x}}
<1>0. Sources(x) = R \cup C \cup F \cup S \cup J BY DEF Sources
<1>1. ~InSeq(x, ready) => R = {} BY SpotsFacts DEF ApiTypeOK, ReadyOK
<1>2. ~InSeq(x, blocked) => C = {} BY SpotsFacts DEF ApiTypeOK, BlockedOK
<1>3. x \notin waiting => F = {} OBVIOUS
<1>4. ~(at[x] = "sleep" /\ "SLEEPING" \in flags[x]) => S = {} BY DEF Sleeping, Is
<1>5. ~(at[x] = "join" /\ ~InSeq(x, ready)) => J = {}
  BY DEF JoinOK
<1>6. ASSUME InSeq(x, ready) PROVE \E p : R = {p}
  <2>1. PICK i : Spots(ready, x) = {i} BY <1>6, SpotsFacts DEF ApiTypeOK, ReadyOK
  <2>2. R = {<<"ready", i>>} BY <2>1
  <2> QED BY <2>2
<1>7. ASSUME InSeq(x, blocked) PROVE \E p : C = {p}
  <2>1. PICK i : Spots(blocked, x) = {i} BY <1>7, SpotsFacts DEF ApiTypeOK, BlockedOK
  <2>2. C = {<<"cond", i>>} BY <2>1
  <2> QED BY <2>2
<1>8. ASSUME x \in waiting PROVE \E p : F = {p}
  <2>1. F = {<<"fd", x>>} BY <1>8
  <2> QED BY <2>1
<1>9. ASSUME at[x] = "sleep", "SLEEPING" \in flags[x] PROVE \E p : S = {p}
  <2>1. S = {<<"sleep", x>>} BY <1>9 DEF Sleeping, Is
  <2> QED BY <2>1
<1>10. ASSUME at[x] = "join", ~InSeq(x, ready) PROVE \E p : J = {p}
  <2> DEFINE t == target[x]
  <2>1. /\ t \in Lthreads /\ Alive(t) /\ ltJoin[t] = x
    BY <1>10 DEF JoinOK, ApiTypeOK, Alive
  <2>2. \A z \in Lthreads : Alive(z) /\ ltJoin[z] = x => z = t
    BY DEF JoinOK
  <2>3. J = {<<"join", t>>} BY <2>1, <2>2
  <2> QED BY <2>3
<1> HIDE DEF R, C, F, S, J
<1>11. ASSUME ~Alive(x) \/ x = current PROVE Sources(x) = {}
  <2>1. at[x] \in {"unborn", "dead", "freed", "run"} BY <1>11 DEF Alive, RunOK
  <2>2. ~InSeq(x, ready) /\ ~InSeq(x, blocked) /\ x \notin waiting
    BY <2>1 DEF ReadyOK, BlockedOK, WaitingOK, Calling
  <2> QED BY <2>1, <2>2, <1>0, <1>1, <1>2, <1>3, <1>4, <1>5
<1>12. ASSUME Alive(x), x # current PROVE \E p : Sources(x) = {p}
  <2>1. at[x] \in {"new"} \cup Calling BY <1>12 DEF Alive, RunOK, ApiTypeOK
  <2>2. CASE InSeq(x, ready)
    <3>1. ~InSeq(x, blocked) /\ x \notin waiting /\ "SLEEPING" \notin flags[x]
      BY <2>2 DEF BlockedOK, WaitingOK, SleepOK
    <3>2. Sources(x) = R BY <3>1, <2>2, <1>0, <1>2, <1>3, <1>4, <1>5
    <3> QED BY <3>2, <2>2, <1>6
  <2>3. CASE ~InSeq(x, ready)
    <3>1. CASE at[x] = "sleep"
      <4>1. "SLEEPING" \in flags[x] /\ ~InSeq(x, blocked) /\ x \notin waiting
        BY <2>3, <3>1 DEF KeptOK, BlockedOK, WaitingOK
      <4>2. Sources(x) = S BY <4>1, <2>3, <3>1, <1>0, <1>1, <1>2, <1>3, <1>5
      <4> QED BY <4>1, <4>2, <3>1, <1>9
    <3>2. CASE at[x] = "fd"
      <4>1. x \in waiting /\ ~InSeq(x, blocked) BY <2>3, <3>2 DEF KeptOK, BlockedOK
      <4>2. Sources(x) = F BY <4>1, <2>3, <3>2, <1>0, <1>1, <1>2, <1>4, <1>5
      <4> QED BY <4>1, <4>2, <1>8
    <3>3. CASE at[x] = "cond"
      <4>1. InSeq(x, blocked) /\ x \notin waiting BY <2>3, <3>3 DEF KeptOK, WaitingOK
      <4>2. Sources(x) = C BY <4>1, <2>3, <3>3, <1>0, <1>1, <1>3, <1>4, <1>5
      <4> QED BY <4>1, <4>2, <1>7
    <3>4. CASE at[x] = "join"
      <4>1. ~InSeq(x, blocked) /\ x \notin waiting BY <3>4 DEF BlockedOK, WaitingOK
      <4>2. Sources(x) = J BY <4>1, <2>3, <3>4, <1>0, <1>1, <1>2, <1>3, <1>4
      <4> QED BY <4>2, <2>3, <3>4, <1>10
    <3>5. at[x] # "new" BY <2>3 DEF KeptOK
    <3> QED BY <2>1, <3>1, <3>2, <3>3, <3>4, <3>5 DEF Calling
  <2> QED BY <2>2, <2>3
<1> QED BY <1>11, <1>12

(* lthread.c: an lthread alive that does not run is in exactly one place    *)
(* from which it will be resumed, and the scheduler ends when none is left. *)
THEOREM NobodyLostHolds == ApiSpec => []NobodyLost
<1>1. ApiInv => NobodyLost
  <2> SUFFICES ASSUME ApiInv PROVE NobodyLost
    OBVIOUS
  <2>1. ASSUME NEW x \in Lthreads, Alive(x)
        PROVE  IF x = current THEN Sources(x) = {}
               ELSE \E p \in Sources(x) : Sources(x) = {p}
    BY <2>1, SourcesFromInv
  <2>2. ASSUME NEW x \in Sleeping
        PROVE  at[x] \in {"sleep", "fd", "cond", "join"} /\ Spots(ready, x) = {}
    <3>1. x \in Lthreads /\ "SLEEPING" \in flags[x] BY <2>2 DEF Sleeping, Is
    <3>2. at[x] \in Calling /\ ~InSeq(x, ready) BY <3>1 DEF ApiInv, SleepOK
    <3>3. Spots(ready, x) = {} BY <3>2, SpotsFacts DEF ApiInv, ApiTypeOK, ReadyOK
    <3> QED BY <3>2, <3>3 DEF Calling
  <2>3. phase = "done" => \A x \in Lthreads : ~Alive(x) BY DEF ApiInv, RunOK
  <2> QED BY <2>1, <2>2, <2>3 DEF NobodyLost
<1> QED BY <1>1, ApiInvariance, PTL

(* lthread.c: no list, tree, call or joiner remembers a freed lthread, the  *)
(* scheduler looks at one again only where it buries a cancelled one, and   *)
(* one that has the mark of lthread_detach() when it ends is freed.         *)
THEOREM FreedForgottenHolds == ApiSpec => []FreedForgotten
<1>1. ApiInv /\ BuriedOK => FreedForgotten
  <2> SUFFICES ASSUME ApiInv, BuriedOK PROVE FreedForgotten
    OBVIOUS
  <2>1. ASSUME NEW x \in Freed
        PROVE  /\ Sources(x) = {}
               /\ x # current
               /\ x \notin Sleeping
               /\ \A y \in Lthreads : target[y] # x
               /\ x = buried => "CANCELLED" \in flags[x]
    <3>1. x \in Lthreads /\ at[x] = "freed" /\ ~Alive(x) BY <2>1 DEF Freed, Alive
    <3>2. Sources(x) = {} BY <3>1, SourcesFromInv
    <3>3. x # current BY <3>1 DEF ApiInv, RunOK
    <3>4. x \notin Sleeping BY <3>1 DEF ApiInv, SleepOK, Sleeping, Is, Calling
    <3>5. \A y \in Lthreads : target[y] # x
      BY <3>1, ApiAssumption DEF ApiInv, JoinOK
    <3>6. x = buried => "CANCELLED" \in flags[x]
      BY <3>1, ApiAssumption DEF BuriedOK
    <3> QED BY <3>2, <3>3, <3>4, <3>5, <3>6
  <2>2. \A x \in Is("DETACH") : at[x] # "dead" BY DEF ApiInv, EndOK, Is
  <2> QED BY <2>1, <2>2 DEF FreedForgotten
<1> QED BY <1>1, ApiInvariance, PTL
=============================================================================
