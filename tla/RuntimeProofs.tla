---------------------------- MODULE RuntimeProofs ---------------------------
(***************************************************************************)
(* Proofs about three parts of the lthread runtime whose models share      *)
(* nothing: lthread_poll(), the times of sleeps, and the socket calls.     *)
(* Each part has its inductive invariant, a lemma for each action that     *)
(* keeps it, and its property as a consequence.                            *)
(***************************************************************************)
EXTENDS LthreadPoll, LthreadTimer, LthreadSocket, FiniteSetTheorems,
  SequenceTheorems, NaturalsInduction, WellFoundedInduction, TLAPS

----------------------------------------------------------------------------
(* lthread_poll(): the table of who waits for what, the arrays of the      *)
(* callers, and sched->ready.                                              *)

RevNames == {"IN", "OUT", "HUP"}

(* An array of the user: a value for each of its descriptors. *)
ArraysOf(V) == UNION {[S -> V] : S \in SUBSET Nat}

PollerRecords ==
  [at : {"run", "poll", "ready"}, fds : ArraysOf(Wants), revents : ArraysOf(SUBSET RevNames),
   ready : Nat, timed : BOOLEAN, ret : Nat]

PollTypeOK ==
  /\ pollers \in [Pollers -> PollerRecords]
  /\ armed \subseteq registered
  /\ eventlist \in Seq([fd : Int, events : SUBSET RevNames])
  /\ pollReady \in Seq(Pollers)
  /\ pollPhase \in {"expire", "ready", "events"}

PollingKeys ==
  UNION {{FdKey(x, fd) : fd \in DOMAIN pollers[x].fds} : x \in {y \in Pollers : pollers[y].at = "poll"}}

(* waiting_multi and epoll hold the arrays of those that wait. *)
TableOK ==
  /\ DOMAIN multi = PollingKeys
  /\ \A k \in DOMAIN multi :
       multi[k] \in Pollers /\ pollers[multi[k]].at = "poll" /\ k[1] \in DOMAIN pollers[multi[k]].fds
  /\ registered = {k[1] : k \in DOMAIN multi}

FiredFds(rev) == {fd \in DOMAIN rev : rev[fd] \cap {"IN", "OUT"} # {}}

(* The array of an lthread and the count beside it. *)
ArrayOK(x) ==
  LET p == pollers[x]
  IN /\ DOMAIN p.fds \subseteq FdsOf[x] /\ DOMAIN p.revents \subseteq FdsOf[x]
     /\ p.timed => p.at = "poll"
     /\ p.at = "poll" => FiredFds(p.revents) = {}
     /\ p.at # "ready" => p.ready = 0
     /\ p.at = "ready" => p.ready = Cardinality(FiredFds(p.revents))
     /\ p.at = "run" => p.ret = Cardinality(FiredFds(p.revents))

(* The woken ones are in sched->ready, once. *)
ReadyOK ==
  /\ \A x \in Pollers : pollers[x].at = "ready" <=> \E i \in DOMAIN pollReady : pollReady[i] = x
  /\ \A i, j \in DOMAIN pollReady : pollReady[i] = pollReady[j] => i = j

PollInv == PollTypeOK /\ TableOK /\ (\A x \in Pollers : ArrayOK(x)) /\ ReadyOK

(* The descriptors that fired can be counted: an array has finitely many.  *)
LEMMA FiredCount ==
  ASSUME NEW x \in Pollers, NEW rev, DOMAIN rev \subseteq FdsOf[x]
  PROVE  /\ Cardinality(FiredFds(rev)) \in Nat
         /\ FiredFds(rev) = {} => Cardinality(FiredFds(rev)) = 0
<1>1. IsFiniteSet(FdsOf[x])
  BY PollAssumption
<1>2. FiredFds(rev) \in SUBSET FdsOf[x]
  BY DEF FiredFds
<1>3. IsFiniteSet(FiredFds(rev))
  BY <1>1, <1>2, FS_Subset
<1>4. QED
  BY <1>3, FS_CardinalityType, FS_EmptySet

(* The empty array is one of a user.                                       *)
LEMMA EmptyArray == \A V : <<>> \in ArraysOf(V) /\ DOMAIN <<>> = {}
<1>1. DOMAIN <<>> = {}
  OBVIOUS
<1>2. ASSUME NEW V
      PROVE  <<>> \in ArraysOf(V)
  <2>1. <<>> \in [{} -> V]
    OBVIOUS
  <2>2. {} \in SUBSET Nat
    OBVIOUS
  <2>3. QED
    BY <2>1, <2>2 DEF ArraysOf
<1>3. QED
  BY <1>1, <1>2

(* The invariant says more than PollSound: one place in sched->ready is    *)
(* what the count 1 stands for.                                            *)
LEMMA PollInvSound == PollInv => PollSound
<1> SUFFICES ASSUME PollInv
             PROVE  PollSound
  OBVIOUS
<1>1. DOMAIN multi = PollingKeys
  BY DEF PollInv, TableOK
<1>2. \A k \in DOMAIN multi :
        multi[k] \in Pollers /\ pollers[multi[k]].at = "poll" /\ k[1] \in FdsOf[multi[k]]
  BY DEF PollInv, TableOK, ArrayOK
<1>3. registered = {k[1] : k \in DOMAIN multi}
  BY DEF PollInv, TableOK
<1>4. ASSUME NEW x \in Pollers
      PROVE  Cardinality({i \in DOMAIN pollReady : pollReady[i] = x})
               = IF pollers[x].at = "ready" THEN 1 ELSE 0
  <2>1. CASE pollers[x].at = "ready"
    <3>1. PICK i \in DOMAIN pollReady : pollReady[i] = x
      BY <2>1 DEF PollInv, ReadyOK
    <3>2. {j \in DOMAIN pollReady : pollReady[j] = x} = {i}
      BY <3>1 DEF PollInv, ReadyOK
    <3>3. QED
      BY <2>1, <3>2, FS_Singleton
  <2>2. CASE pollers[x].at # "ready"
    <3>1. {j \in DOMAIN pollReady : pollReady[j] = x} = {}
      BY <2>2 DEF PollInv, ReadyOK
    <3>2. QED
      BY <2>2, <3>1, FS_EmptySet
  <2>3. QED
    BY <2>1, <2>2
<1>5. ASSUME NEW x \in Pollers
      PROVE  /\ pollers[x].timed => pollers[x].at = "poll"
             /\ pollers[x].at = "ready" => pollers[x].ready = Cardinality(FiredFds(pollers[x].revents))
             /\ pollers[x].at = "run" => pollers[x].ret = Cardinality(FiredFds(pollers[x].revents))
  BY DEF PollInv, ArrayOK
<1>6. QED
  BY <1>1, <1>2, <1>3, <1>4, <1>5 DEF PollSound, PollingKeys, FiredFds

LEMMA PollInitInv == PollInit => PollInv
<1> SUFFICES ASSUME PollInit
             PROVE  PollInv
  OBVIOUS
<1> USE DEF PollInit
<1>1. PollTypeOK
  BY EmptyArray DEF PollTypeOK, PollerRecords
<1>2. TableOK
  <2>1. PollingKeys = {}
    BY DEF PollingKeys
  <2>2. DOMAIN multi = {}
    BY EmptyArray
  <2>3. QED
    BY <2>1, <2>2 DEF TableOK
<1>3. \A x \in Pollers : ArrayOK(x)
  <2> TAKE x \in Pollers
  <2>1. DOMAIN pollers[x].revents = {} /\ DOMAIN pollers[x].fds = {}
    BY EmptyArray
  <2>2. FiredFds(pollers[x].revents) = {}
    BY <2>1 DEF FiredFds
  <2>3. Cardinality(FiredFds(pollers[x].revents)) = 0
    BY <2>2, FS_EmptySet
  <2>4. QED
    BY <2>1, <2>2, <2>3 DEF ArrayOK
<1>4. ReadyOK
  <2>1. DOMAIN pollReady = {}
    BY EmptyArray
  <2>2. QED
    BY <2>1 DEF ReadyOK
<1>5. QED
  BY <1>1, <1>2, <1>3, <1>4 DEF PollInv

(* A key is one of a descriptor of an lthread that waits.                  *)
LEMMA KeyOfPolling ==
  \A k : k \in PollingKeys <=>
           \E x \in Pollers : /\ pollers[x].at = "poll"
                              /\ \E fd \in DOMAIN pollers[x].fds : k = FdKey(x, fd)
BY DEF PollingKeys

(* Once x, who waited, is withdrawn and no longer waits, the table holds the *)
(* others.                                                                   *)
LEMMA WithdrawTable ==
  ASSUME PollInv, NEW x \in Pollers, pollers[x].at = "poll", Withdraw(x),
         pollers'[x].at # "poll",
         \A y \in Pollers \ {x} : pollers'[y] = pollers[y]
  PROVE  TableOK' /\ armed' \subseteq registered'
<1> DEFINE fds == DOMAIN pollers[x].fds
           keys == {FdKey(x, fd) : fd \in fds}
<1>1. DOMAIN multi' = DOMAIN multi \ keys /\ \A k \in DOMAIN multi' : multi'[k] = multi[k]
  BY DEF Withdraw
<1>2. armed' = armed \ fds /\ registered' = registered \ fds
  BY DEF Withdraw
<1>3. armed' \subseteq registered'
  BY <1>2 DEF PollInv, PollTypeOK
<1>4. DOMAIN multi = PollingKeys
  BY DEF PollInv, TableOK
<1>5. \A y \in Pollers : \A fd \in DOMAIN pollers[y].fds :
        /\ y = x <=> fd \in fds
        /\ FdKey(y, fd)[1] = fd
  <2> TAKE y \in Pollers
  <2> TAKE fd \in DOMAIN pollers[y].fds
  <2>1. fd \in FdsOf[y] /\ fds \subseteq FdsOf[x]
    BY DEF PollInv, ArrayOK
  <2>2. y # x => FdsOf[x] \cap FdsOf[y] = {}
    BY PollAssumption
  <2>3. QED
    BY <2>1, <2>2 DEF FdKey
<1>6. \A k \in DOMAIN multi : k \in keys <=> k[1] \in fds
  <2> TAKE k \in DOMAIN multi
  <2>1. PICK y \in Pollers : \E fd \in DOMAIN pollers[y].fds : k = FdKey(y, fd)
    BY <1>4, KeyOfPolling
  <2>2. PICK fd \in DOMAIN pollers[y].fds : k = FdKey(y, fd)
    BY <2>1
  <2>3. k[1] = fd /\ (y = x <=> fd \in fds)
    BY <1>5, <2>2
  <2>4. k \in keys => k[1] \in fds
    BY <1>5
  <2>5. QED
    BY <2>2, <2>3, <2>4
<1>7. DOMAIN multi' = PollingKeys'
  <2>1. \A k : k \in PollingKeys' <=>
           \E y \in Pollers : /\ pollers'[y].at = "poll"
                              /\ \E fd \in DOMAIN pollers'[y].fds : k = <<fd, EventOf(pollers'[y].fds[fd])>>
    BY DEF PollingKeys, FdKey
  <2>2. ASSUME NEW k \in PollingKeys'
        PROVE  k \in DOMAIN multi \ keys
    <3>1. PICK y \in Pollers : /\ pollers'[y].at = "poll"
                               /\ \E fd \in DOMAIN pollers'[y].fds : k = <<fd, EventOf(pollers'[y].fds[fd])>>
      BY <2>1, <2>2
    <3>2. y # x /\ pollers'[y] = pollers[y]
      BY <3>1
    <3>3. PICK fd \in DOMAIN pollers[y].fds : k = FdKey(y, fd)
      BY <3>1, <3>2 DEF FdKey
    <3>4. k \in DOMAIN multi
      BY <1>4, <3>1, <3>2, <3>3, KeyOfPolling
    <3>5. k[1] = fd /\ fd \notin fds
      BY <1>5, <3>2, <3>3
    <3>6. QED
      BY <1>6, <3>4, <3>5
  <2>3. ASSUME NEW k \in DOMAIN multi \ keys
        PROVE  k \in PollingKeys'
    <3>1. PICK y \in Pollers : /\ pollers[y].at = "poll"
                               /\ \E fd \in DOMAIN pollers[y].fds : k = FdKey(y, fd)
      BY <1>4, KeyOfPolling
    <3>2. y # x
      BY <2>3, <3>1
    <3>3. QED
      BY <2>1, <3>1, <3>2 DEF FdKey
  <2>4. QED
    BY <1>1, <2>2, <2>3
<1>8. ASSUME NEW k \in DOMAIN multi'
      PROVE  multi'[k] \in Pollers /\ pollers'[multi'[k]].at = "poll"
               /\ k[1] \in DOMAIN pollers'[multi'[k]].fds
  <2>1. k \in DOMAIN multi \ keys /\ multi'[k] = multi[k]
    BY <1>1
  <2>2. multi[k] \in Pollers /\ pollers[multi[k]].at = "poll" /\ k[1] \in DOMAIN pollers[multi[k]].fds
    BY <2>1 DEF PollInv, TableOK
  <2>3. multi[k] # x
    BY <1>6, <2>1, <2>2
  <2>4. QED
    BY <2>1, <2>2, <2>3
<1>9. registered' = {k[1] : k \in DOMAIN multi'}
  <2>1. registered = {k[1] : k \in DOMAIN multi}
    BY DEF PollInv, TableOK
  <2>2. QED
    BY <1>1, <1>2, <1>6, <2>1
<1>10. QED
  BY <1>3, <1>7, <1>8, <1>9 DEF TableOK

(* The table stays when those that wait, and their arrays, do. *)
LEMMA SameTable ==
  ASSUME TableOK, UNCHANGED <<multi, registered>>,
         \A y \in Pollers : /\ pollers'[y].at = "poll" <=> pollers[y].at = "poll"
                            /\ pollers[y].at = "poll" => pollers'[y].fds = pollers[y].fds
  PROVE  TableOK'
<1>1. \A k : k \in PollingKeys' <=> k \in PollingKeys
  <2> TAKE k
  <2>1. k \in PollingKeys' <=>
           \E y \in Pollers : /\ pollers'[y].at = "poll"
                              /\ \E fd \in DOMAIN pollers'[y].fds : k = <<fd, EventOf(pollers'[y].fds[fd])>>
    BY DEF PollingKeys, FdKey
  <2>2. QED
    BY <2>1, KeyOfPolling DEF FdKey
<1>2. QED
  BY <1>1 DEF TableOK

(* lthread_poll() enters its keys, which nobody else has: FdsOf gives no   *)
(* descriptor to two lthreads.                                             *)
LEMMA PollCallInv ==
  ASSUME PollInv, NEW x \in Pollers, PollCall(x)
  PROVE  PollInv'
<1>0. PICK S \in (SUBSET FdsOf[x]) \ {{}}, timeout \in BOOLEAN : \E fds \in [S -> Wants] :
        /\ pollers' = [pollers EXCEPT ![x] =
                 [@ EXCEPT !.at = "poll", !.fds = fds, !.timed = timeout,
                           !.revents = [fd \in S |-> {}]]]
        /\ multi' = [k \in DOMAIN multi \cup DOMAIN Entries(x, fds) |->
                         IF k \in DOMAIN Entries(x, fds) THEN x ELSE multi[k]]
        /\ armed' = armed \cup S /\ registered' = registered \cup S
  BY DEF PollCall
<1>1. PICK fds \in [S -> Wants] :
        /\ pollers' = [pollers EXCEPT ![x] =
                 [@ EXCEPT !.at = "poll", !.fds = fds, !.timed = timeout,
                           !.revents = [fd \in S |-> {}]]]
        /\ multi' = [k \in DOMAIN multi \cup DOMAIN Entries(x, fds) |->
                         IF k \in DOMAIN Entries(x, fds) THEN x ELSE multi[k]]
        /\ armed' = armed \cup S /\ registered' = registered \cup S
  BY <1>0
<1>2. pollers[x].at = "run" /\ UNCHANGED <<eventlist, pollReady, pollPhase>>
  BY DEF PollCall
<1>3. S \in SUBSET Nat
  BY PollAssumption
<1>4. pollers[x] \in PollerRecords /\ pollers \in [Pollers -> PollerRecords]
  BY DEF PollInv, PollTypeOK
<1>5. /\ pollers' \in [Pollers -> PollerRecords]
      /\ pollers'[x] = [pollers[x] EXCEPT !.at = "poll", !.fds = fds, !.timed = timeout,
                           !.revents = [fd \in S |-> {}]]
      /\ \A y \in Pollers \ {x} : pollers'[y] = pollers[y]
  <2>1. fds \in ArraysOf(Wants) /\ [fd \in S |-> {}] \in ArraysOf(SUBSET RevNames)
    <3>1. [fd \in S |-> {}] \in [S -> SUBSET RevNames]
      OBVIOUS
    <3>2. QED
      BY <1>3, <3>1 DEF ArraysOf
  <2>2. QED
    BY <1>1, <1>4, <2>1 DEF PollerRecords
<1>6. /\ pollers'[x].at = "poll" /\ pollers'[x].fds = fds /\ pollers'[x].timed = timeout
      /\ pollers'[x].revents = [fd \in S |-> {}] /\ pollers'[x].ready = pollers[x].ready
  BY <1>4, <1>5 DEF PollerRecords
<1>7. PollTypeOK'
  BY <1>1, <1>2, <1>5 DEF PollInv, PollTypeOK
<1>8. TableOK'
  <2> DEFINE new == {<<fd, EventOf(fds[fd])>> : fd \in S}
  <2>1. DOMAIN Entries(x, fds) = new
    BY DEF Entries
  <2>2. DOMAIN multi' = DOMAIN multi \cup new
    BY <1>1, <2>1
  <2>3. \A k \in DOMAIN multi' : multi'[k] = IF k \in new THEN x ELSE multi[k]
    BY <1>1, <2>1
  <2>4. DOMAIN multi' = PollingKeys'
    <3>1. \A k : k \in PollingKeys' <=>
             \E y \in Pollers : /\ pollers'[y].at = "poll"
                                /\ \E fd \in DOMAIN pollers'[y].fds : k = <<fd, EventOf(pollers'[y].fds[fd])>>
      BY DEF PollingKeys, FdKey
    <3>2. \A k : k \in PollingKeys' <=> k \in new \/
             \E y \in Pollers \ {x} : /\ pollers[y].at = "poll"
                                      /\ \E fd \in DOMAIN pollers[y].fds : k = <<fd, EventOf(pollers[y].fds[fd])>>
      <4> TAKE k
      <4>1. k \in new <=> \E fd \in DOMAIN pollers'[x].fds : k = <<fd, EventOf(pollers'[x].fds[fd])>>
        BY <1>6
      <4>2. \A y \in Pollers \ {x} : pollers'[y] = pollers[y]
        BY <1>5
      <4> HIDE DEF new
      <4>3. QED
        BY <1>6, <3>1, <4>1, <4>2
    <3>3. \A k : k \in DOMAIN multi <=>
             \E y \in Pollers \ {x} : /\ pollers[y].at = "poll"
                                      /\ \E fd \in DOMAIN pollers[y].fds : k = <<fd, EventOf(pollers[y].fds[fd])>>
      BY <1>2, KeyOfPolling DEF PollInv, TableOK, FdKey
    <3>4. QED
      BY <2>2, <3>2, <3>3
  <2>5. ASSUME NEW k \in DOMAIN multi'
        PROVE  multi'[k] \in Pollers /\ pollers'[multi'[k]].at = "poll"
                 /\ k[1] \in DOMAIN pollers'[multi'[k]].fds
    <3>1. CASE k \in new
      BY <1>6, <2>3, <3>1
    <3>2. CASE k \notin new
      <4>1. multi'[k] = multi[k] /\ k \in DOMAIN multi
        BY <2>2, <2>3, <3>2
      <4>2. multi[k] \in Pollers /\ pollers[multi[k]].at = "poll" /\ k[1] \in DOMAIN pollers[multi[k]].fds
        BY <4>1 DEF PollInv, TableOK
      <4>3. multi[k] # x
        BY <1>2, <4>2
      <4>4. QED
        BY <1>5, <4>1, <4>2, <4>3
    <3>3. QED
      BY <3>1, <3>2
  <2>6. registered' = {k[1] : k \in DOMAIN multi'}
    <3>1. registered = {k[1] : k \in DOMAIN multi}
      BY DEF PollInv, TableOK
    <3>2. S = {k[1] : k \in new}
      <4>1. \A fd \in S : <<fd, EventOf(fds[fd])>> \in new /\ <<fd, EventOf(fds[fd])>>[1] = fd
        OBVIOUS
      <4>2. \A k \in new : k[1] \in S
        OBVIOUS
      <4> HIDE DEF new
      <4>3. QED
        BY <4>1, <4>2
    <3>3. QED
      BY <1>1, <2>2, <3>1, <3>2
  <2>7. QED
    BY <2>4, <2>5, <2>6 DEF TableOK
<1>9. ASSUME NEW y \in Pollers
      PROVE  ArrayOK(y)'
  <2>1. CASE y = x
    <3>1. FiredFds(pollers'[x].revents) = {}
      BY <1>6 DEF FiredFds
    <3>2. pollers[x].ready = 0
      BY <1>2 DEF PollInv, ArrayOK
    <3>3. DOMAIN pollers'[x].fds = S /\ DOMAIN pollers'[x].revents = S
      BY <1>6
    <3>4. QED
      BY <1>6, <2>1, <3>1, <3>2, <3>3 DEF ArrayOK
  <2>2. CASE y # x
    BY <1>5, <2>2 DEF PollInv, ArrayOK
  <2>3. QED
    BY <2>1, <2>2
<1>10. ReadyOK'
  <2>1. \A y \in Pollers : pollers'[y].at = "ready" <=> pollers[y].at = "ready"
    BY <1>2, <1>5, <1>6
  <2>2. QED
    BY <1>2, <2>1 DEF PollInv, ReadyOK
<1>11. QED
  BY <1>7, <1>8, <1>9, <1>10 DEF PollInv

LEMMA PollExpireInv ==
  ASSUME PollInv, NEW x \in Pollers, PollExpire(x)
  PROVE  PollInv'
<1>1. /\ pollers[x].at = "poll" /\ Withdraw(x)
      /\ pollers' = [pollers EXCEPT ![x] = PollReturn([@ EXCEPT !.timed = FALSE])]
      /\ UNCHANGED <<eventlist, pollReady, pollPhase>>
  BY DEF PollExpire
<1>2. pollers[x] \in PollerRecords /\ pollers \in [Pollers -> PollerRecords]
  BY DEF PollInv, PollTypeOK
<1>3. /\ pollers' \in [Pollers -> PollerRecords]
      /\ pollers'[x].at = "run" /\ pollers'[x].fds = <<>> /\ ~pollers'[x].timed
      /\ pollers'[x].revents = pollers[x].revents
      /\ pollers'[x].ready = 0 /\ pollers'[x].ret = pollers[x].ready
      /\ \A y \in Pollers \ {x} : pollers'[y] = pollers[y]
  BY <1>1, <1>2, EmptyArray DEF PollReturn, PollerRecords
<1>4. TableOK' /\ armed' \subseteq registered'
  BY <1>1, <1>3, WithdrawTable
<1>5. PollTypeOK'
  BY <1>1, <1>3, <1>4 DEF PollInv, PollTypeOK
<1>6. ASSUME NEW y \in Pollers
      PROVE  ArrayOK(y)'
  <2>1. CASE y = x
    <3>1. FiredFds(pollers[x].revents) = {} /\ pollers[x].ready = 0 /\ DOMAIN pollers[x].revents \subseteq FdsOf[x]
      BY <1>1 DEF PollInv, ArrayOK
    <3>2. Cardinality(FiredFds(pollers'[x].revents)) = 0
      BY <1>3, <3>1, FiredCount
    <3>3. DOMAIN pollers'[x].fds = {}
      BY <1>3, EmptyArray
    <3>4. QED
      BY <1>3, <2>1, <3>1, <3>2, <3>3 DEF ArrayOK
  <2>2. CASE y # x
    BY <1>3, <2>2 DEF PollInv, ArrayOK
  <2>3. QED
    BY <2>1, <2>2
<1>7. ReadyOK'
  <2>1. \A y \in Pollers : pollers'[y].at = "ready" <=> pollers[y].at = "ready"
    BY <1>1, <1>3
  <2>2. QED
    BY <1>1, <2>1 DEF PollInv, ReadyOK
<1>8. QED
  BY <1>4, <1>5, <1>6, <1>7 DEF PollInv

LEMMA PollResumeInv ==
  ASSUME PollInv, PollResume
  PROVE  PollInv'
<1> DEFINE x == Head(pollReady)
<1>1. /\ pollReady # <<>> /\ pollReady \in Seq(Pollers) /\ pollReady' = Tail(pollReady)
      /\ pollers' = [pollers EXCEPT ![x] = PollReturn(@)]
      /\ UNCHANGED <<multi, armed, registered, eventlist, pollPhase>>
  BY DEF PollResume, PollInv, PollTypeOK
<1>2. x \in Pollers /\ x = pollReady[1] /\ 1 \in DOMAIN pollReady
  BY <1>1
<1>3. pollers[x].at = "ready"
  BY <1>2 DEF PollInv, ReadyOK
<1>4. pollers[x] \in PollerRecords /\ pollers \in [Pollers -> PollerRecords]
  BY <1>2 DEF PollInv, PollTypeOK
<1> HIDE DEF x
<1>5. /\ pollers' \in [Pollers -> PollerRecords]
      /\ pollers'[x].at = "run" /\ pollers'[x].fds = <<>> /\ pollers'[x].timed = pollers[x].timed
      /\ pollers'[x].revents = pollers[x].revents
      /\ pollers'[x].ready = 0 /\ pollers'[x].ret = pollers[x].ready
      /\ \A y \in Pollers \ {x} : pollers'[y] = pollers[y]
  BY <1>1, <1>2, <1>4, EmptyArray DEF PollReturn, PollerRecords
<1>6. PollTypeOK'
  BY <1>1, <1>5 DEF PollInv, PollTypeOK
<1>7. TableOK'
  BY <1>1, <1>2, <1>3, <1>5, SameTable DEF PollInv
<1>8. ASSUME NEW y \in Pollers
      PROVE  ArrayOK(y)'
  <2>1. CASE y = x
    <3>1. DOMAIN pollers'[x].fds = {}
      BY <1>5, EmptyArray
    <3>2. QED
      BY <1>2, <1>3, <1>5, <2>1, <3>1 DEF PollInv, ArrayOK
  <2>2. CASE y # x
    BY <1>5, <2>2 DEF PollInv, ArrayOK
  <2>3. QED
    BY <2>1, <2>2
<1>9. ReadyOK'
  <2>1. \A i, j \in DOMAIN pollReady : pollReady[i] = pollReady[j] => i = j
    BY DEF PollInv, ReadyOK
  <2>2. /\ DOMAIN pollReady = 1..Len(pollReady) /\ Len(pollReady) \in Nat /\ Len(pollReady) > 0
        /\ DOMAIN pollReady' = 1..Len(pollReady) - 1
        /\ \A i \in DOMAIN pollReady' : i + 1 \in DOMAIN pollReady /\ pollReady'[i] = pollReady[i + 1]
    BY <1>1
  <2>3. \A i, j \in DOMAIN pollReady' : pollReady'[i] = pollReady'[j] => i = j
    BY <2>1, <2>2
  <2>4. ASSUME NEW y \in Pollers
        PROVE  pollers'[y].at = "ready" <=> \E i \in DOMAIN pollReady' : pollReady'[i] = y
    <3>1. CASE y = x
      <4>1. \A i \in DOMAIN pollReady' : i + 1 # 1
        BY <2>2
      <4>2. \A i \in DOMAIN pollReady' : pollReady'[i] # x
        BY <1>2, <2>1, <2>2, <4>1
      <4>3. QED
        BY <1>5, <3>1, <4>2
    <3>2. CASE y # x
      <4>1. pollers'[y].at = "ready" <=> \E i \in DOMAIN pollReady : pollReady[i] = y
        BY <1>5, <3>2 DEF PollInv, ReadyOK
      <4>2. ASSUME NEW i \in DOMAIN pollReady, pollReady[i] = y
            PROVE  i - 1 \in DOMAIN pollReady' /\ pollReady'[i - 1] = y
        <5>1. i # 1
          BY <1>2, <3>2, <4>2
        <5>2. i - 1 \in DOMAIN pollReady'
          BY <2>2, <5>1
        <5>3. pollReady'[i - 1] = pollReady[(i - 1) + 1] /\ (i - 1) + 1 = i
          BY <2>2, <5>2
        <5>4. QED
          BY <4>2, <5>2, <5>3
      <4>3. QED
        BY <2>2, <4>1, <4>2
    <3>3. QED
      BY <3>1, <3>2
  <2>5. QED
    BY <2>3, <2>4 DEF ReadyOK
<1>10. QED
  BY <1>6, <1>7, <1>8, <1>9 DEF PollInv

(* Steps that leave the lthreads, the table and the ready queue alone. *)
LEMMA PollSameInv ==
  ASSUME PollInv, UNCHANGED <<pollers, multi, registered, pollReady>>, PollTypeOK'
  PROVE  PollInv'
<1>1. TableOK'
  BY SameTable DEF PollInv
<1>2. ASSUME NEW y \in Pollers
      PROVE  ArrayOK(y)'
  BY DEF PollInv, ArrayOK
<1>3. ReadyOK'
  BY DEF PollInv, ReadyOK
<1>4. QED
  BY <1>1, <1>2, <1>3 DEF PollInv

(* epoll reports no descriptors but those of the table.                    *)
LEMMA ArmedFds ==
  ASSUME PollInv
  PROVE  armed \subseteq Nat
<1> SUFFICES ASSUME NEW fd \in armed
             PROVE  fd \in Nat
  OBVIOUS
<1>1. PICK k \in DOMAIN multi : fd = k[1]
  BY DEF PollInv, PollTypeOK, TableOK
<1>2. multi[k] \in Pollers /\ fd \in FdsOf[multi[k]]
  BY <1>1 DEF PollInv, TableOK, ArrayOK
<1>3. QED
  BY <1>2, PollAssumption

LEMMA PollWaitInv ==
  ASSUME PollInv, PollWait
  PROVE  PollInv'
<1> DEFINE Event == [fd : Int, events : SUBSET RevNames]
<1>1. PICK n \in 0..Cardinality(armed) :
       \E fds \in {f \in [1..n -> armed] : \A i, j \in 1..n : i # j => f[i] # f[j]} :
         /\ eventlist' \in {l \in [1..n -> UNION {Occurring(fd) : fd \in armed}] :
                              \A i \in 1..n : l[i].fd = fds[i]}
         /\ armed' = armed \ {fds[i] : i \in 1..n}
  BY DEF PollWait
<1>2. eventlist' \in [1..n -> UNION {Occurring(fd) : fd \in armed}] /\ armed' \subseteq armed
  BY <1>1
<1>3. \A fd \in armed : Occurring(fd) \subseteq Event
  BY ArmedFds DEF Occurring, RevNames
<1>4. UNION {Occurring(fd) : fd \in armed} \subseteq Event
  BY <1>3
<1>5. n \in Nat
  OBVIOUS
<1> HIDE DEF Event
<1>6. eventlist' \in [1..n -> Event]
  BY <1>2, <1>4
<1>7. eventlist' \in Seq(Event)
  BY <1>5, <1>6
<1>8. pollPhase' = "events" /\ UNCHANGED <<pollers, multi, registered, pollReady>>
  BY DEF PollWait
<1>9. PollTypeOK'
  BY <1>2, <1>7, <1>8 DEF PollInv, PollTypeOK, Event
<1>10. QED
  BY <1>8, <1>9, PollSameInv

LEMMA ReportedNames == \A fd : Reported(fd) \subseteq RevNames
BY DEF Reported, Revents, RevNames

(* The event of a lthread that is found: it is withdrawn and woken. *)
LEMMA WakesInv ==
  ASSUME PollInv, NEW x \in Pollers, pollers[x].at = "poll", eventlist # <<>>,
         Withdraw(x), Reports(x), pollPhase' = pollPhase
  PROVE  PollInv'
<1> DEFINE fds == DOMAIN pollers[x].fds
           rev == [fd \in fds |-> Reported(fd)]
<1>1. pollers[x] \in PollerRecords /\ pollers \in [Pollers -> PollerRecords]
  BY DEF PollInv, PollTypeOK
<1>2. fds \subseteq FdsOf[x] /\ fds \in SUBSET Nat
  BY PollAssumption DEF PollInv, ArrayOK
<1>3. rev \in ArraysOf(SUBSET RevNames)
  <2>1. rev \in [fds -> SUBSET RevNames]
    BY ReportedNames
  <2>2. QED
    BY <1>2, <2>1 DEF ArraysOf
<1>4. Cardinality(FiredFds(rev)) \in Nat
  BY <1>2, FiredCount
<1>5. pollers[x].ready = 0
  BY DEF PollInv, ArrayOK
<1>6. pollers' = [pollers EXCEPT ![x] =
          [pollers[x] EXCEPT !.at = "ready", !.revents = rev, !.timed = FALSE,
                    !.ready = @ + Cardinality(FiredFds(rev))]]
  BY DEF Reports, FiredFds
<1>7. /\ pollers' \in [Pollers -> PollerRecords]
      /\ pollers'[x].at = "ready" /\ pollers'[x].fds = pollers[x].fds /\ ~pollers'[x].timed
      /\ pollers'[x].revents = rev
      /\ pollers'[x].ready = Cardinality(FiredFds(rev))
      /\ \A y \in Pollers \ {x} : pollers'[y] = pollers[y]
  <2> DEFINE c == Cardinality(FiredFds(rev))
  <2>1. 0 + c = c /\ c \in Nat
    BY <1>4
  <2> HIDE DEF rev, c
  <2>2. pollers' = [pollers EXCEPT ![x] =
          [pollers[x] EXCEPT !.at = "ready", !.revents = rev, !.timed = FALSE, !.ready = c]]
    BY <1>1, <1>5, <1>6, <2>1 DEF c, PollerRecords
  <2>3. QED
    BY <1>1, <1>3, <2>1, <2>2 DEF c, PollerRecords
<1>8. TableOK' /\ armed' \subseteq registered'
  BY <1>7, WithdrawTable
<1>9. eventlist' \in Seq([fd : Int, events : SUBSET RevNames])
  <2> DEFINE Event == [fd : Int, events : SUBSET RevNames]
  <2>1. eventlist \in Seq(Event) /\ Len(eventlist) \in Nat /\ Len(eventlist) > 0
    BY DEF PollInv, PollTypeOK
  <2>2. eventlist' = [i \in 1..Len(eventlist) - 1 |->
          IF eventlist[i].fd \in fds THEN [eventlist[i] EXCEPT !.fd = -1] ELSE eventlist[i]]
    BY DEF Reports
  <2>3. ASSUME NEW i \in 1..Len(eventlist) - 1
        PROVE  /\ eventlist[i] \in Event
               /\ [eventlist[i] EXCEPT !.fd = -1] \in Event
    <3>1. i \in 1..Len(eventlist)
      BY <2>1
    <3> HIDE DEF Event
    <3>2. eventlist[i] \in Event
      BY <2>1, <3>1
    <3>3. QED
      BY <3>2 DEF Event
  <2> HIDE DEF Event
  <2>4. eventlist' \in [1..Len(eventlist) - 1 -> Event]
    BY <2>2, <2>3
  <2>5. eventlist' \in Seq(Event)
    BY <2>1, <2>4
  <2>6. QED
    BY <2>5 DEF Event
<1>10. pollReady' = Append(pollReady, x) /\ pollReady \in Seq(Pollers)
  BY DEF Reports, PollInv, PollTypeOK
<1>11. PollTypeOK'
  BY <1>7, <1>8, <1>9, <1>10 DEF PollInv, PollTypeOK
<1>12. ASSUME NEW y \in Pollers
       PROVE  ArrayOK(y)'
  <2>1. CASE y = x
    BY <1>2, <1>7, <2>1 DEF ArrayOK
  <2>2. CASE y # x
    BY <1>7, <2>2 DEF PollInv, ArrayOK
  <2>3. QED
    BY <2>1, <2>2
<1>13. ReadyOK'
  <2>1. /\ DOMAIN pollReady = 1..Len(pollReady) /\ Len(pollReady) \in Nat
        /\ DOMAIN pollReady' = 1..Len(pollReady) + 1
        /\ \A i \in DOMAIN pollReady : i \in DOMAIN pollReady' /\ pollReady'[i] = pollReady[i]
        /\ pollReady'[Len(pollReady) + 1] = x
    BY <1>10
  <2>2. \A i \in DOMAIN pollReady' : i = Len(pollReady) + 1 \/ i \in DOMAIN pollReady
    BY <2>1
  <2>3. \A i \in DOMAIN pollReady : pollReady[i] # x
    BY DEF PollInv, ReadyOK
  <2>4. \A i, j \in DOMAIN pollReady' : pollReady'[i] = pollReady'[j] => i = j
    <3>1. \A i, j \in DOMAIN pollReady : pollReady[i] = pollReady[j] => i = j
      BY DEF PollInv, ReadyOK
    <3>2. QED
      BY <2>1, <2>2, <2>3, <3>1
  <2>5. ASSUME NEW y \in Pollers
        PROVE  pollers'[y].at = "ready" <=> \E i \in DOMAIN pollReady' : pollReady'[i] = y
    <3>1. CASE y = x
      <4>1. Len(pollReady) + 1 \in DOMAIN pollReady'
        BY <2>1
      <4>2. QED
        BY <1>7, <2>1, <3>1, <4>1
    <3>2. CASE y # x
      <4>1. pollers'[y].at = "ready" <=> \E i \in DOMAIN pollReady : pollReady[i] = y
        BY <1>7, <3>2 DEF PollInv, ReadyOK
      <4>2. QED
        BY <2>1, <2>2, <3>2, <4>1
    <3>3. QED
      BY <3>1, <3>2
  <2>6. QED
    BY <2>4, <2>5 DEF ReadyOK
<1>14. QED
  BY <1>8, <1>11, <1>12, <1>13 DEF PollInv

LEMMA PollEventInv ==
  ASSUME PollInv, PollEvent
  PROVE  PollInv'
<1>1. /\ eventlist # <<>> /\ eventlist \in Seq([fd : Int, events : SUBSET RevNames])
      /\ pollPhase' = pollPhase
  BY DEF PollEvent, PollInv, PollTypeOK
<1>2. CASE /\ eventlist' = SubSeq(eventlist, 1, Len(eventlist) - 1)
           /\ UNCHANGED <<pollers, multi, armed, registered, pollReady>>
  <2> DEFINE Event == [fd : Int, events : SUBSET RevNames]
  <2> HIDE DEF Event
  <2>0. eventlist \in Seq(Event) /\ Len(eventlist) \in Nat \ {0}
    BY <1>1 DEF Event
  <2>1. eventlist' \in Seq(Event)
    <3>1. 1 \in 1..Len(eventlist) + 1 /\ Len(eventlist) - 1 \in 0..Len(eventlist)
      BY <2>0
    <3>2. QED
      BY <1>2, <2>0, <3>1, SubSeqProperties
  <2> USE DEF Event
  <2>2. PollTypeOK'
    BY <1>1, <1>2, <2>1 DEF PollInv, PollTypeOK
  <2>3. QED
    BY <1>2, <2>2, PollSameInv
<1>3. CASE \E key \in DOMAIN multi : Withdraw(multi[key]) /\ Reports(multi[key])
  <2>1. PICK key \in DOMAIN multi : Withdraw(multi[key]) /\ Reports(multi[key])
    BY <1>3
  <2>2. multi[key] \in Pollers /\ pollers[multi[key]].at = "poll"
    BY DEF PollInv, TableOK
  <2>3. QED
    BY <1>1, <2>1, <2>2, WakesInv
<1>4. QED
  BY <1>2, <1>3 DEF PollEvent

LEMMA PollNextInv ==
  ASSUME PollInv, [PollNext]_pollVars
  PROVE  PollInv'
<1>1. ASSUME NEW x \in Pollers, PollCall(x)
      PROVE  PollInv'
  BY <1>1, PollCallInv
<1>2. ASSUME NEW x \in Pollers, PollExpire(x)
      PROVE  PollInv'
  BY <1>2, PollExpireInv
<1>3. CASE PollExpireDone \/ PollEventsDone
  <2>1. UNCHANGED <<pollers, multi, armed, registered, eventlist, pollReady>>
    BY <1>3 DEF PollExpireDone, PollEventsDone
  <2>2. PollTypeOK'
    BY <1>3, <2>1 DEF PollInv, PollTypeOK, PollExpireDone, PollEventsDone
  <2>3. QED
    BY <2>1, <2>2, PollSameInv
<1>4. CASE PollResume
  BY <1>4, PollResumeInv
<1>5. CASE PollWait
  BY <1>5, PollWaitInv
<1>6. CASE PollEvent
  BY <1>6, PollEventInv
<1>7. CASE UNCHANGED pollVars
  <2>1. PollTypeOK'
    BY <1>7 DEF PollInv, PollTypeOK, pollVars
  <2>2. QED
    BY <1>7, <2>1, PollSameInv DEF pollVars
<1>8. QED
  BY <1>1, <1>2, <1>3, <1>4, <1>5, <1>6, <1>7 DEF PollNext

(* The invariant of lthread_poll.c and of the part of lthread_run that     *)
(* wakes its callers holds for any lthreads and any finite sets of         *)
(* descriptors of them.                                                    *)
THEOREM PollInvariance == PollSpec => []PollInv
<1>1. PollInit => PollInv
  BY PollInitInv
<1>2. PollInv /\ [PollNext]_pollVars => PollInv'
  BY PollNextInv
<1>3. QED
  BY <1>1, <1>2, PTL DEF PollSpec

(* lthread_poll.c: waiting_multi and epoll hold the descriptors of those   *)
(* that wait in lthread_poll() and no others, each woken lthread is in     *)
(* sched->ready once, and the number that a call returns is that of the    *)
(* descriptors that fired.                                                 *)
THEOREM PollSoundHolds == PollSpec => []PollSound
<1>1. PollInv => PollSound
  BY PollInvSound
<1>2. QED
  BY <1>1, PollInvariance, PTL

----------------------------------------------------------------------------
(* Sleeps: how far behind its end a sleeper may be in the tree, and how    *)
(* far the clock ahead of it.                                              *)

TimerTypeOK ==
  /\ clock \in Nat
  /\ wake \in [Sleepers -> Nat]
  /\ asked \in [Sleepers -> [till : Nat, msecs : Nat]]
  /\ late \in [Sleepers -> [by : Int, lost : Nat]]
  /\ poll \in [usecs : Nat, turns : Nat, lost : Nat]
  /\ runs \in Sleepers \cup {NoSleeper}
  /\ step \in {"expire", "ready", "poll", "wait", "events"}

(* What the wrong digits of a timeout cost a sleep. *)
Overshoot(x) == IF asked[x].msecs >= 1000 THEN 999000 ELSE 0

(* A sleeper is in the tree at most so many microseconds after the end of   *)
(* its sleep as there are others, and those before it are taken or past.    *)
SleeperOK(x) ==
  /\ asked[x].till <= wake[x] /\ wake[x] <= asked[x].till + Cardinality(Sleepers)
  /\ asked[x].till <= clock + 1000 * asked[x].msecs
  /\ \A k \in asked[x].till..wake[x] : k <= clock \/ \E y \in Asleep : wake[y] = k
  /\ clock <= wake[x] + Max(Work) + Overshoot(x) + poll.lost
  /\ step = "ready" => wake[x] > clock
  /\ step = "poll" => clock <= wake[x] + Max(Work)
  /\ step = "wait" => clock + poll.usecs <= wake[x] + Max(Work) + Overshoot(x) + poll.lost

TimerInv ==
  /\ TimerTypeOK
  /\ runs # NoSleeper => wake[runs] = 0 /\ step \notin {"poll", "wait"}
  /\ \A x \in Asleep : SleeperOK(x)
  /\ WakesOnTime

(* A non-empty set of natural numbers has a least one. *)
LEMMA LeastOf ==
  ASSUME NEW S \in SUBSET Nat, S # {}
  PROVE  Min(S) \in S /\ \A y \in S : Min(S) <= y
<1>1. IsWellFoundedOn(OpToRel(<, Nat), Nat)
  BY NatLessThanWellFounded
<1>2. PICK x \in S : \A y \in S : ~(<<y, x>> \in OpToRel(<, Nat))
  BY <1>1, WFMin
<1>3. \A y \in S : ~(y < x)
  BY <1>2 DEF OpToRel
<1>4. \A y \in S : x =< y
  BY <1>3
<1>5. QED
  BY <1>4 DEF Min

(* Work is finite and not empty, so that its longest one exists.           *)
LEMMA LongestWork == Max(Work) \in Work /\ Max(Work) \in Nat /\ \A w \in Work : w <= Max(Work)
<1>1. PICK longest \in Work : \A w \in Work : w <= longest
  BY TimerAssumption
<1>2. Work \subseteq Nat
  BY TimerAssumption
<1>3. \A w \in Work : longest >= w
  BY <1>1, <1>2
<1>4. Max(Work) \in Work /\ \A w \in Work : Max(Work) >= w
  BY <1>3 DEF Max
<1>5. QED
  BY <1>2, <1>4

LEMMA SleepersCount == Cardinality(Sleepers) \in Nat
BY TimerAssumption, FS_CardinalityType

(* The key of a new sleeper: one is free, and those before it are taken.    *)
LEMMA FreeKey ==
  ASSUME TimerTypeOK, NEW till \in Nat
  PROVE  LET free == (till..till + Cardinality(Asleep)) \ {wake[x] : x \in Asleep}
             key == Min(free)
         IN /\ key \in Nat /\ till <= key /\ key <= till + Cardinality(Sleepers)
            /\ \A k \in till..key - 1 : \E y \in Asleep : wake[y] = k
<1> DEFINE n == Cardinality(Asleep)
           taken == {wake[x] : x \in Asleep}
           free == (till..till + n) \ taken
           key == Min(free)
<1>1. IsFiniteSet(Asleep) /\ n \in Nat /\ n <= Cardinality(Sleepers)
  <2>1. Asleep \in SUBSET Sleepers
    BY DEF Asleep
  <2>2. QED
    BY <2>1, TimerAssumption, FS_Subset, FS_CardinalityType
<1>2. IsFiniteSet(taken) /\ Cardinality(taken) <= n
  <2> DEFINE f == [x \in Asleep |-> wake[x]]
  <2>1. f \in Surjection(Asleep, taken)
    BY DEF Surjection
  <2>2. QED
    BY <1>1, <2>1, FS_Surjection
<1>3. IsFiniteSet(till..till + n) /\ Cardinality(till..till + n) = n + 1
  BY <1>1, FS_Interval
<1>4. Cardinality(taken) \in Nat
  BY <1>2, FS_CardinalityType
<1>5. ~((till..till + n) \subseteq taken)
  <2>1. SUFFICES ASSUME (till..till + n) \subseteq taken
                 PROVE  FALSE
    OBVIOUS
  <2>2. Cardinality(till..till + n) <= Cardinality(taken)
    BY <1>2, <2>1, FS_Subset
  <2> HIDE DEF n, taken
  <2>3. QED
    BY <1>1, <1>2, <1>3, <1>4, <2>2
<1>6. free \in SUBSET Nat /\ free # {}
  BY <1>1, <1>5
<1>7. key \in free /\ \A k \in free : key <= k
  BY <1>6, LeastOf
<1>8. key \in till..till + n
  BY <1>7
<1> HIDE DEF key
<1>9. \A k \in till..key - 1 : k \in taken
  <2> TAKE k \in till..key - 1
  <2>1. k \in till..till + n /\ ~(key <= k)
    BY <1>1, <1>8
  <2>2. k \notin free
    BY <1>7, <2>1
  <2>3. QED
    BY <2>1, <2>2
<1>10. /\ key \in Nat /\ till <= key /\ key <= till + Cardinality(Sleepers)
       /\ \A k \in till..key - 1 : \E y \in Asleep : wake[y] = k
  BY <1>1, <1>8, <1>9, SleepersCount
<1>11. QED
  BY <1>10 DEF key

(* The timeout of the poll is that of a sleeper that is in the tree.       *)
LEMMA FirstIsDue ==
  ASSUME TimerTypeOK, Asleep # {}
  PROVE  FirstDue \in Nat /\ \A x \in Asleep : FirstDue <= wake[x]
<1> DEFINE keys == {wake[x] : x \in Asleep}
<1>1. keys \in SUBSET Nat /\ keys # {}
  <2>1. \A x \in Asleep : wake[x] \in Nat
    BY DEF TimerTypeOK, Asleep
  <2>2. QED
    BY <2>1
<1>2. Min(keys) \in keys /\ \A k \in keys : Min(keys) <= k
  BY <1>1, LeastOf
<1>3. QED
  BY <1>1, <1>2 DEF FirstDue

(* How far a poll may go over its timeout. *)
LEMMA PollMsecsBound ==
  ASSUME NEW u \in Nat
  PROVE  /\ PollMsecs(u) \in Nat
         /\ u < 1000000 => 1000 * PollMsecs(u) <= u
         /\ 1000 * PollMsecs(u) <= u + 999000
<1>1. CASE u < 1000000
  BY <1>1 DEF PollMsecs
<1>2. CASE u >= 1000000
  <2> DEFINE a == u \div 1000000
             b == u % 1000
  <2>1. a \in Nat /\ b \in 0..999 /\ 1000000 * a <= u
    OBVIOUS
  <2>2. PollMsecs(u) = 1000 * a + b
    BY <1>2 DEF PollMsecs
  <2> HIDE DEF a, b
  <2>3. 1000 * PollMsecs(u) = 1000000 * a + 1000 * b
    BY <2>1, <2>2
  <2>4. QED
    BY <1>2, <2>1, <2>2, <2>3
<1>3. QED
  BY <1>1, <1>2

LEMMA TimerInitInv == TimerInit => TimerInv
<1> SUFFICES ASSUME TimerInit
             PROVE  TimerInv
  OBVIOUS
<1> USE DEF TimerInit
<1>1. TimerTypeOK
  <2>1. 0 \in Nat /\ 0 \in Int
    OBVIOUS
  <2>2. late \in [Sleepers -> [by : Int, lost : Nat]] /\ poll \in [usecs : Nat, turns : Nat, lost : Nat]
    BY <2>1
  <2>3. QED
    BY <2>1, <2>2 DEF TimerTypeOK
<1>2. Asleep = {}
  BY DEF Asleep
<1>3. WakesOnTime
  BY LongestWork, SleepersCount DEF WakesOnTime
<1>4. QED
  BY <1>1, <1>2, <1>3 DEF TimerInv

(* A new sleeper gets the first free microsecond: at most as many as sleep *)
(* are taken.                                                              *)
LEMMA TimerSleepInv ==
  ASSUME TimerInv, TimerSleep
  PROVE  TimerInv'
<1>1. PICK msecs \in Msecs :
       LET till == clock + 1000 * msecs
           free == (till..till + Cardinality(Asleep)) \ {wake[x] : x \in Asleep}
       IN /\ wake' = [wake EXCEPT ![runs] = Min(free)]
          /\ asked' = [asked EXCEPT ![runs] = [till |-> till, msecs |-> msecs]]
  BY DEF TimerSleep
<1> DEFINE till == clock + 1000 * msecs
           free == (till..till + Cardinality(Asleep)) \ {wake[x] : x \in Asleep}
           key == Min(free)
<1>2. /\ runs \in Sleepers /\ wake[runs] = 0 /\ TimerTypeOK
      /\ late' = [late EXCEPT ![runs] = [by |-> 0, lost |-> 0]]
      /\ runs' = NoSleeper /\ UNCHANGED <<clock, poll, step>>
      /\ step \notin {"poll", "wait"} /\ poll.lost \in Nat
  BY DEF TimerSleep, TimerInv, TimerTypeOK
<1>3. msecs \in Nat /\ msecs > 0 /\ till \in Nat /\ till > clock
  BY TimerAssumption DEF TimerInv, TimerTypeOK
<1>4. /\ key \in Nat /\ till <= key /\ key <= till + Cardinality(Sleepers)
      /\ \A k \in till..key - 1 : \E y \in Asleep : wake[y] = k
  BY <1>2, <1>3, FreeKey
<1>5. /\ wake' = [wake EXCEPT ![runs] = key]
      /\ asked' = [asked EXCEPT ![runs] = [till |-> till, msecs |-> msecs]]
  BY <1>1
<1> HIDE DEF till, key
<1>6. TimerTypeOK'
  BY <1>2, <1>3, <1>4, <1>5 DEF TimerTypeOK
<1>7. /\ wake'[runs] = key /\ asked'[runs].till = till /\ asked'[runs].msecs = msecs
      /\ \A y \in Sleepers \ {runs} : wake'[y] = wake[y] /\ asked'[y] = asked[y] /\ late'[y] = late[y]
      /\ late'[runs] = [by |-> 0, lost |-> 0]
  BY <1>2, <1>5 DEF TimerTypeOK
<1>8. \A y \in Asleep : y \in Asleep' /\ wake'[y] = wake[y]
  BY <1>2, <1>7 DEF Asleep
<1>9. runs \in Asleep' /\ \A y \in Asleep' : y = runs \/ y \in Asleep
  BY <1>2, <1>3, <1>4, <1>7 DEF Asleep, TimerTypeOK
<1>10. ASSUME NEW x \in Asleep'
       PROVE  SleeperOK(x)'
  <2>1. CASE x = runs
    <3>1. \A k \in till..key : k <= clock' \/ \E y \in Asleep' : wake'[y] = k
      <4> TAKE k \in till..key
      <4>1. CASE k = key
        BY <1>7, <1>9, <4>1
      <4>2. CASE k # key
        <5>1. k \in till..key - 1
          BY <1>3, <1>4, <4>2
        <5>2. QED
          BY <1>4, <1>8, <5>1
      <4>3. QED
        BY <4>1, <4>2
    <3>2. /\ asked'[x].till <= wake'[x] /\ wake'[x] <= asked'[x].till + Cardinality(Sleepers)
          /\ asked'[x].till <= clock' + 1000 * asked'[x].msecs
      BY <1>2, <1>3, <1>4, <1>7, <2>1 DEF till
    <3>3. wake'[x] > clock' /\ clock' <= wake'[x] + Max(Work)
      BY <1>2, <1>3, <1>4, <1>7, <2>1, LongestWork DEF TimerTypeOK
    <3>4. clock' <= wake'[x] + Max(Work) + Overshoot(x)' + poll'.lost
      BY <1>2, <1>4, <1>7, <2>1, <3>3, LongestWork DEF Overshoot, TimerTypeOK
    <3>5. QED
      BY <1>2, <1>7, <2>1, <3>1, <3>2, <3>3, <3>4 DEF SleeperOK
  <2>2. CASE x # runs
    <3>1. x \in Asleep /\ wake'[x] = wake[x] /\ asked'[x] = asked[x]
      BY <1>7, <1>9, <2>2 DEF Asleep
    <3>2. SleeperOK(x)
      BY <3>1 DEF TimerInv
    <3>3. QED
      BY <1>2, <1>8, <3>1, <3>2 DEF SleeperOK, Overshoot
  <2>3. QED
    BY <2>1, <2>2
<1>11. WakesOnTime'
  <2> SUFFICES ASSUME NEW x \in Sleepers
               PROVE  /\ late'[x].by >= 0
                      /\ late'[x].by <= Max(Work) + Cardinality(Sleepers) + late'[x].lost
                            + IF asked'[x].msecs >= 1000 THEN 999000 ELSE 0
    BY DEF WakesOnTime
  <2>1. CASE x = runs
    BY <1>7, <2>1, LongestWork, SleepersCount
  <2>2. CASE x # runs
    BY <1>7, <2>2 DEF TimerInv, WakesOnTime
  <2>3. QED
    BY <2>1, <2>2
<1>12. QED
  BY <1>2, <1>6, <1>10, <1>11 DEF TimerInv

(* The conjuncts of an inductive step that leave the sleepers alone. *)
LEMMA SameSleepers ==
  ASSUME TimerInv, UNCHANGED <<wake, asked, late>>, TimerTypeOK',
         runs' # NoSleeper => wake[runs'] = 0 /\ step' \notin {"poll", "wait"},
         clock <= clock',
         \A x \in Asleep :
           /\ clock' <= wake[x] + Max(Work) + Overshoot(x) + poll'.lost
           /\ step' = "ready" => wake[x] > clock'
           /\ step' = "poll" => clock' <= wake[x] + Max(Work)
           /\ step' = "wait" => clock' + poll'.usecs <= wake[x] + Max(Work) + Overshoot(x) + poll'.lost
  PROVE  TimerInv'
<1>1. Asleep' = Asleep
  BY DEF Asleep
<1>2. ASSUME NEW x \in Asleep
      PROVE  SleeperOK(x)'
  <2>1. SleeperOK(x) /\ x \in Sleepers
    BY DEF TimerInv, Asleep
  <2>2. clock \in Nat /\ clock' \in Nat /\ wake[x] \in Nat /\ asked[x] \in [till : Nat, msecs : Nat]
    BY <2>1 DEF TimerInv, TimerTypeOK
  <2>3. asked[x].till \in Nat /\ asked[x].msecs \in Nat
    BY <2>2
  <2>4. asked'[x].till <= clock' + 1000 * asked'[x].msecs
    BY <2>1, <2>2, <2>3 DEF SleeperOK
  <2>5. \A k \in asked[x].till..wake[x] : k <= clock' \/ \E y \in Asleep : wake[y] = k
    BY <2>1, <2>2, <2>3 DEF SleeperOK
  <2>6. QED
    BY <1>1, <2>1, <2>4, <2>5 DEF SleeperOK, Overshoot
<1>3. WakesOnTime'
  BY DEF TimerInv, WakesOnTime
<1>4. QED
  BY <1>1, <1>2, <1>3 DEF TimerInv

(* Who is taken from the tree was in it for no longer than WakesOnTime     *)
(* allows; the others keep a taken key or a past one before them.          *)
LEMMA TimerExpireInv ==
  ASSUME TimerInv, TimerExpire
  PROVE  TimerInv'
<1>1. PICK x \in Asleep :
       /\ wake[x] <= clock
       /\ wake' = [wake EXCEPT ![x] = 0]
       /\ late' = [late EXCEPT ![x] = [by |-> clock - asked[x].till, lost |-> poll.lost]]
       /\ runs' = x
  BY DEF TimerExpire
<1>2. UNCHANGED <<clock, asked, poll, step>> /\ step = "expire" /\ TimerTypeOK /\ x \in Sleepers /\ SleeperOK(x)
  BY DEF TimerExpire, TimerInv, Asleep
<1>3. /\ clock \in Nat /\ wake[x] \in Nat /\ asked[x].till \in Nat /\ asked[x].msecs \in Nat
      /\ Max(Work) \in Nat /\ Cardinality(Sleepers) \in Nat /\ poll.lost \in Nat
  BY <1>2, LongestWork, SleepersCount DEF TimerTypeOK
<1>4. TimerTypeOK'
  BY <1>1, <1>2, <1>3 DEF TimerTypeOK
<1>5. /\ wake'[x] = 0 /\ late'[x] = [by |-> clock - asked[x].till, lost |-> poll.lost]
      /\ \A y \in Sleepers \ {x} : wake'[y] = wake[y] /\ late'[y] = late[y]
  BY <1>1, <1>2 DEF TimerTypeOK
<1>6. Asleep' = Asleep \ {x}
  BY <1>1, <1>2, <1>5 DEF Asleep
<1>7. ASSUME NEW y \in Asleep'
      PROVE  SleeperOK(y)'
  <2>1. y \in Asleep /\ y # x /\ y \in Sleepers /\ wake'[y] = wake[y]
    BY <1>5, <1>6 DEF Asleep
  <2>2. SleeperOK(y)
    BY <2>1 DEF TimerInv
  <2>3. \A k \in asked[y].till..wake[y] : k <= clock \/ \E z \in Asleep' : wake'[z] = k
    <3> TAKE k \in asked[y].till..wake[y]
    <3>1. CASE k <= clock
      BY <3>1
    <3>2. CASE \E z \in Asleep : wake[z] = k
      <4>1. PICK z \in Asleep : wake[z] = k
        BY <3>2
      <4>2. CASE z = x
        BY <1>1, <4>1, <4>2
      <4>3. CASE z # x
        BY <1>5, <1>6, <4>1, <4>3 DEF Asleep
      <4>4. QED
        BY <4>2, <4>3
    <3>3. QED
      BY <2>2, <3>1, <3>2 DEF SleeperOK
  <2>4. QED
    BY <1>2, <2>1, <2>2, <2>3 DEF SleeperOK, Overshoot
<1>8. WakesOnTime'
  <2> SUFFICES ASSUME NEW y \in Sleepers
               PROVE  /\ late'[y].by >= 0
                      /\ late'[y].by <= Max(Work) + Cardinality(Sleepers) + late'[y].lost
                            + IF asked'[y].msecs >= 1000 THEN 999000 ELSE 0
    BY DEF WakesOnTime
  <2>1. CASE y = x
    BY <1>1, <1>2, <1>3, <1>5, <2>1 DEF SleeperOK, Overshoot
  <2>2. CASE y # x
    BY <1>2, <1>5, <2>2 DEF TimerInv, WakesOnTime
  <2>3. QED
    BY <2>1, <2>2
<1>9. QED
  BY <1>1, <1>2, <1>4, <1>5, <1>7, <1>8 DEF TimerInv

(* Only a sleep of a second or more lets the poll take wrong digits: what   *)
(* lies between the end of the others and the clock is taken or past.       *)
LEMMA LongTimeout ==
  ASSUME TimerInv, NEW x \in Asleep, FirstDue - clock >= 1000000
  PROVE  Overshoot(x) = 999000
<1>1. FirstDue \in Nat /\ \A y \in Asleep : FirstDue <= wake[y]
  BY FirstIsDue DEF TimerInv
<1>2. SleeperOK(x) /\ x \in Sleepers
  BY DEF TimerInv, Asleep
<1>3. clock \in Nat /\ wake[x] \in Nat /\ asked[x].till \in Nat /\ asked[x].msecs \in Nat
  BY <1>2 DEF TimerInv, TimerTypeOK
<1>4. \A k \in asked[x].till..wake[x] : k <= clock \/ k >= FirstDue
  BY <1>1, <1>2 DEF SleeperOK
<1>5. asked[x].till > clock
  <2>1. SUFFICES ASSUME asked[x].till <= clock
                 PROVE  FALSE
    BY <1>3
  <2>2. clock + 1 \in asked[x].till..wake[x]
    BY <1>1, <1>3, <2>1
  <2>3. QED
    BY <1>1, <1>3, <1>4, <2>2
<1>6. asked[x].till \in asked[x].till..wake[x]
  BY <1>2, <1>3 DEF SleeperOK
<1>7. asked[x].till >= FirstDue
  BY <1>3, <1>4, <1>5, <1>6
<1>8. asked[x].msecs >= 1000
  BY <1>1, <1>2, <1>3, <1>7 DEF SleeperOK
<1>9. QED
  BY <1>8 DEF Overshoot

(* The timespec goes no further than the first of the tree, or over it by   *)
(* the wrong digits.                                                        *)
LEMMA TimerPollBeginsInv ==
  ASSUME TimerInv, TimerPollBegins
  PROVE  TimerInv'
<1> DEFINE timeout == 1000 * PollMsecs(MinTimeout)
<1>1. PICK usecs \in {0, timeout} : poll' = [usecs |-> usecs, turns |-> 0, lost |-> 0]
  BY DEF TimerPollBegins
<1>2. step = "poll" /\ step' = "wait" /\ UNCHANGED <<clock, wake, asked, late, runs>>
  BY DEF TimerPollBegins
<1>3. clock \in Nat /\ \A x \in Sleepers : wake[x] \in Nat
  BY DEF TimerInv, TimerTypeOK
<1>4. MinTimeout \in Nat
  BY <1>3, FirstIsDue DEF MinTimeout, TimerInv
<1>5. timeout \in Nat
  BY <1>4, PollMsecsBound
<1>6. usecs \in Nat /\ usecs <= timeout
  <2> HIDE DEF timeout
  <2>1. QED
    BY <1>5
<1>7. TimerTypeOK'
  BY <1>1, <1>2, <1>6 DEF TimerInv, TimerTypeOK
<1>8. ASSUME NEW x \in Asleep
      PROVE  clock <= wake[x] + Max(Work) + Overshoot(x) /\ clock + timeout <= wake[x] + Max(Work) + Overshoot(x)
  <2>1. FirstDue \in Nat /\ FirstDue <= wake[x] /\ x \in Sleepers /\ Asleep # {}
    BY FirstIsDue DEF TimerInv, Asleep
  <2>2. clock <= wake[x] + Max(Work) /\ Max(Work) \in Nat /\ Overshoot(x) \in {0, 999000}
    BY <1>2, LongestWork DEF TimerInv, SleeperOK, Overshoot
  <2>3. CASE FirstDue <= clock
    <3>1. MinTimeout = 0
      BY <1>3, <2>1, <2>3 DEF MinTimeout
    <3>2. timeout <= 0
      BY <3>1, PollMsecsBound
    <3> HIDE DEF timeout
    <3>3. QED
      BY <1>3, <1>5, <2>1, <2>2, <3>2
  <2>4. CASE FirstDue > clock
    <3>1. MinTimeout = FirstDue - clock
      BY <1>3, <2>1, <2>4 DEF MinTimeout
    <3>2. timeout <= FirstDue - clock + Overshoot(x)
      <4>1. CASE FirstDue - clock >= 1000000
        <5>1. Overshoot(x) = 999000
          BY <4>1, LongTimeout
        <5>2. QED
          BY <1>4, <3>1, <5>1, PollMsecsBound
      <4>2. CASE FirstDue - clock < 1000000
        <5>1. timeout <= FirstDue - clock
          BY <1>4, <3>1, <4>2, PollMsecsBound
        <5> HIDE DEF timeout
        <5>2. QED
          BY <1>3, <1>5, <2>1, <2>2, <5>1
      <4>3. QED
        BY <1>3, <2>1, <4>1, <4>2
    <3> HIDE DEF timeout
    <3>3. QED
      BY <1>3, <1>5, <2>1, <2>2, <3>2
  <2>5. QED
    BY <1>3, <2>1, <2>3, <2>4
<1>9. ASSUME NEW x \in Asleep
      PROVE  /\ clock' <= wake[x] + Max(Work) + Overshoot(x) + poll'.lost
             /\ clock' + poll'.usecs <= wake[x] + Max(Work) + Overshoot(x) + poll'.lost
  <2> HIDE DEF timeout
  <2>1. wake[x] \in Nat /\ Max(Work) \in Nat /\ Overshoot(x) \in {0, 999000}
    BY <1>3, LongestWork DEF Asleep, Overshoot
  <2>2. poll'.lost = 0 /\ poll'.usecs = usecs /\ clock' = clock
    BY <1>1, <1>2
  <2>3. QED
    BY <1>3, <1>5, <1>6, <1>8, <2>1, <2>2
<1>10. runs' = NoSleeper
  BY <1>2 DEF TimerInv
<1>11. QED
  BY <1>2, <1>3, <1>7, <1>9, <1>10, SameSleepers

(* The clock goes on by what a signal takes from the timespec, and this is  *)
(* lost.                                                                    *)
LEMMA TimerSignalInv ==
  ASSUME TimerInv, TimerSignal
  PROVE  TimerInv'
<1>1. PICK w \in Arrivals :
        /\ clock' = clock + w
        /\ poll' = [poll EXCEPT !.turns = @ + 1, !.lost = @ + w]
  BY DEF TimerSignal
<1>2. step = "wait" /\ step' \in {"expire", "wait"} /\ UNCHANGED <<wake, asked, late, runs>>
  BY DEF TimerSignal
<1>3. /\ clock \in Nat /\ \A x \in Sleepers : wake[x] \in Nat
      /\ poll \in [usecs : Nat, turns : Nat, lost : Nat]
  BY DEF TimerInv, TimerTypeOK
<1>4. w \in Nat
  BY TimerAssumption
<1>5. /\ poll' \in [usecs : Nat, turns : Nat, lost : Nat]
      /\ poll'.usecs = poll.usecs /\ poll'.lost = poll.lost + w
      /\ poll.usecs \in Nat /\ poll.lost \in Nat
  <2> DEFINE turns == poll.turns + 1
             lost == poll.lost + w
  <2>1. poll' = [poll EXCEPT !.turns = turns, !.lost = lost]
    BY <1>1
  <2>2. turns \in Nat /\ lost \in Nat
    BY <1>3, <1>4
  <2> HIDE DEF turns, lost
  <2>3. /\ poll' \in [usecs : Nat, turns : Nat, lost : Nat]
        /\ poll'.usecs = poll.usecs /\ poll'.lost = lost
    BY <1>3, <2>1, <2>2
  <2>4. QED
    BY <1>3, <2>3 DEF lost
<1>6. TimerTypeOK'
  BY <1>1, <1>2, <1>3, <1>4, <1>5 DEF TimerInv, TimerTypeOK
<1>7. ASSUME NEW x \in Asleep
      PROVE  /\ clock' <= wake[x] + Max(Work) + Overshoot(x) + poll'.lost
             /\ clock' + poll'.usecs <= wake[x] + Max(Work) + Overshoot(x) + poll'.lost
  <2>1. wake[x] \in Nat /\ Max(Work) \in Nat /\ Overshoot(x) \in {0, 999000}
    BY <1>3, LongestWork DEF Asleep, Overshoot
  <2>2. /\ clock <= wake[x] + Max(Work) + Overshoot(x) + poll.lost
        /\ clock + poll.usecs <= wake[x] + Max(Work) + Overshoot(x) + poll.lost
    BY <1>2 DEF TimerInv, SleeperOK
  <2>3. QED
    BY <1>1, <1>3, <1>4, <1>5, <2>1, <2>2
<1>8. runs' = NoSleeper /\ clock <= clock'
  BY <1>1, <1>2, <1>3, <1>4 DEF TimerInv
<1>9. QED
  BY <1>2, <1>6, <1>7, <1>8, SameSleepers

(* The clock goes on by the timespec, or up to an event before its end.     *)
LEMMA TimerPollInv ==
  ASSUME TimerInv, TimerPoll
  PROVE  TimerInv'
<1>1. /\ step = "wait" /\ UNCHANGED <<wake, asked, late, poll, runs>>
      /\ step' \in {"expire", "events"}
      /\ clock' = clock + poll.usecs \/ \E w \in Arrivals : w <= poll.usecs /\ clock' = clock + w
  BY DEF TimerPoll
<1>2. clock \in Nat /\ poll.usecs \in Nat /\ poll.lost \in Nat /\ \A x \in Sleepers : wake[x] \in Nat
  BY DEF TimerInv, TimerTypeOK
<1>3. clock' \in Nat /\ clock <= clock' /\ clock' <= clock + poll.usecs
  <2>1. \A w \in Arrivals : w \in Nat
    BY TimerAssumption
  <2>2. QED
    BY <1>1, <1>2, <2>1
<1>4. TimerTypeOK'
  BY <1>1, <1>3 DEF TimerInv, TimerTypeOK
<1>5. ASSUME NEW x \in Asleep
      PROVE  clock' <= wake[x] + Max(Work) + Overshoot(x) + poll'.lost
  <2>1. wake[x] \in Nat /\ Max(Work) \in Nat /\ Overshoot(x) \in {0, 999000}
    BY <1>2, LongestWork DEF Asleep, Overshoot
  <2>2. clock + poll.usecs <= wake[x] + Max(Work) + Overshoot(x) + poll.lost
    BY <1>1 DEF TimerInv, SleeperOK
  <2>3. QED
    BY <1>1, <1>2, <1>3, <2>1, <2>2
<1>6. runs' = NoSleeper
  BY <1>1 DEF TimerInv
<1>7. QED
  BY <1>1, <1>3, <1>4, <1>5, <1>6, SameSleepers

LEMMA TimerNextInv ==
  ASSUME TimerInv, [TimerNext]_timerVars
  PROVE  TimerInv'
<1>1. CASE TimerSleep
  BY <1>1, TimerSleepInv
<1>2. CASE TimerExpire
  BY <1>2, TimerExpireInv
<1>3. CASE TimerPoll
  BY <1>3, TimerPollInv
<1>a. CASE TimerPollBegins
  BY <1>a, TimerPollBeginsInv
<1>b. CASE TimerSignal
  BY <1>b, TimerSignalInv
<1>4. /\ clock \in Nat /\ poll.lost \in Nat
      /\ \A x \in Asleep : x \in Sleepers /\ wake[x] \in Nat /\ SleeperOK(x)
  BY DEF TimerInv, TimerTypeOK, Asleep
<1>5. CASE TimerYield
  <2>1. TimerTypeOK'
    BY <1>5 DEF TimerYield, TimerInv, TimerTypeOK
  <2>2. QED
    BY <1>4, <1>5, <2>1, SameSleepers DEF TimerYield, SleeperOK
<1>6. CASE TimerExpireDone
  <2>1. TimerTypeOK'
    BY <1>6 DEF TimerExpireDone, TimerInv, TimerTypeOK
  <2>2. \A x \in Asleep : wake[x] > clock
    BY <1>6 DEF TimerExpireDone
  <2>3. QED
    BY <1>4, <1>6, <2>1, <2>2, SameSleepers DEF TimerExpireDone, SleeperOK
<1>7. CASE TimerRun
  <2>1. TimerTypeOK'
    BY <1>7 DEF TimerRun, TimerInv, TimerTypeOK
  <2>2. wake[runs'] = 0
    BY <1>7 DEF TimerRun, Asleep
  <2>3. QED
    BY <1>4, <1>7, <2>1, <2>2, SameSleepers DEF TimerRun, SleeperOK
<1>8. CASE TimerWork
  <2>1. PICK w \in Work : clock' = clock + w
    BY <1>8 DEF TimerWork
  <2>2. w \in Nat /\ w <= Max(Work) /\ Max(Work) \in Nat
    BY LongestWork, TimerAssumption
  <2>3. /\ step = "ready" /\ step' = "poll" /\ UNCHANGED <<wake, asked, late, poll, runs>>
        /\ runs = NoSleeper
    BY <1>8 DEF TimerWork
  <2>4. TimerTypeOK'
    BY <1>4, <2>1, <2>2, <2>3 DEF TimerInv, TimerTypeOK
  <2>5. \A x \in Asleep : clock' <= wake[x] + Max(Work) /\ Overshoot(x) \in {0, 999000}
    BY <1>4, <2>1, <2>2, <2>3 DEF SleeperOK, Overshoot
  <2>6. ASSUME NEW x \in Asleep
        PROVE  clock' <= wake[x] + Max(Work) + Overshoot(x) + poll'.lost
    <3>1. wake[x] \in Nat /\ poll'.lost \in Nat /\ clock' \in Nat /\ Max(Work) \in Nat
      BY <1>4, <2>1, <2>2, <2>3
    <3>2. clock' <= wake[x] + Max(Work) /\ Overshoot(x) \in Nat
      BY <2>5
    <3>3. QED
      BY <3>1, <3>2
  <2>7. QED
    BY <1>4, <2>1, <2>2, <2>3, <2>4, <2>5, <2>6, SameSleepers
<1>9. CASE TimerEventsDone
  <2>1. TimerTypeOK'
    BY <1>9 DEF TimerEventsDone, TimerInv, TimerTypeOK
  <2>2. QED
    BY <1>4, <1>9, <2>1, SameSleepers DEF TimerEventsDone, SleeperOK
<1>10. CASE UNCHANGED timerVars
  <2>1. TimerTypeOK'
    BY <1>10 DEF timerVars, TimerInv, TimerTypeOK
  <2>2. QED
    BY <1>4, <1>10, <2>1, SameSleepers DEF timerVars, TimerInv, SleeperOK
<1>11. QED
  BY <1>1, <1>2, <1>3, <1>a, <1>b, <1>5, <1>6, <1>7, <1>8, <1>9, <1>10 DEF TimerNext

(* The invariant of the times of the sleeping tree holds for any sleepers, *)
(* lengths of sleeps, lengths of work between two polls, and signals.      *)
THEOREM TimerInvariance == TimerSpec => []TimerInv
<1>1. TimerInit => TimerInv
  BY TimerInitInv
<1>2. TimerInv /\ [TimerNext]_timerVars => TimerInv'
  BY TimerNextInv
<1>3. QED
  BY <1>1, <1>2, PTL DEF TimerSpec

(* lthread_sched.c: no sleep ends early, and none ends late by more than   *)
(* the longest work of one turn, the microseconds that collisions push it  *)
(* back, what the turns of the last poll had waited when a signal ended    *)
(* them, and, for a sleep of a second or more, the digits that the         *)
(* conversion of the timeout confuses.                                     *)
THEOREM WakesOnTimeHolds == TimerSpec => []WakesOnTime
<1>1. TimerInv => WakesOnTime
  BY DEF TimerInv
<1>2. QED
  BY <1>1, TimerInvariance, PTL

----------------------------------------------------------------------------
(* The socket calls: what the buffer, the stream, the wire and the array   *)
(* of a writev have to do with each other between two system calls.        *)

Calls == Reads \cup Sends \cup {"connect", "wait"}

IovEntries == [base : Nat, len : Nat]

SkRecords ==
  [pc : {"idle", "loop", "wait", "ret", "kernel", "written", "for"}, call : Calls,
   length : Nat, done : Nat, buf : Seq(Nat), iov : Seq(IovEntries), index : Nat \ {0},
   entry : Nat, n : Nat, timed : BOOLEAN, from : Nat, ret : Int]

SockTypeOK ==
  /\ sk \in SkRecords
  /\ eof \in BOOLEAN
  /\ stream \in [sent : Nat, taken : Nat, closed : BOOLEAN]
  /\ wire \in Seq(Nat)
  /\ sk.pc \in {"kernel", "written", "for"} => sk.call = "writev"

(* n bytes of a stream or a message, after the first k. *)
Segment(k, n) == [i \in 1..n |-> k + i]

(* What a call that reads has received. *)
ReadOK ==
  sk.call \in Reads /\ sk.pc # "idle" =>
    /\ sk.buf = Segment(sk.from, sk.done)
    /\ stream.taken = sk.from + sk.done
    /\ sk.call = "readline" /\ sk.pc \in {"loop", "wait"} =>
         \A i \in 1..sk.done : sk.buf[i] \notin Newlines
    /\ sk.call = "recv" /\ (sk.pc = "ret" => sk.ret <= 0) => sk.done = 0
    /\ sk.pc = "ret" /\ sk.ret > 0 =>
         /\ sk.ret = sk.done
         /\ sk.call = "recv_exact" => sk.ret = sk.length \/ stream.closed
         /\ sk.call = "readline" =>
              /\ sk.ret = sk.length \/ sk.buf[sk.ret] \in Newlines
              /\ \A i \in 1..sk.ret - 1 : sk.buf[i] \notin Newlines

(* What a call that sends has sent. *)
SendOK ==
  /\ wire = Segment(0, Len(wire))
  /\ sk.call \in Sends /\ sk.pc # "idle" =>
       /\ Len(wire) <= sk.length
       /\ sk.pc \in {"loop", "wait", "for"} => Len(wire) = sk.done
       /\ sk.pc \in {"kernel", "written"} => Len(wire) = sk.done + sk.n
       /\ sk.pc = "written" /\ sk.n = 0 => Len(wire) = sk.length
       /\ sk.call = "sendmsg" /\ (sk.pc = "ret" => sk.ret < 0) => Len(wire) = 0
       /\ sk.pc = "ret" /\ sk.ret > 0 =>
            sk.ret = Len(wire) /\ (sk.call # "sendmsg" => sk.ret = sk.length)
       /\ sk.pc = "ret" /\ sk.ret = 0 => Len(wire) = sk.length

(* From the entry at index on the array holds the rest of the message. *)
IovOK(iov, index, length) ==
  /\ iov # <<>> /\ Bytes(iov) = length
  /\ \A i \in index..Len(iov) - 1 : iov[i + 1].base = iov[i].base + iov[i].len
  /\ \A i \in index..Len(iov) : iov[i].base + iov[i].len <= length

WritevOK ==
  sk.call = "writev" /\ sk.pc \notin {"idle", "ret"} =>
    /\ IovOK(sk.iov, sk.index, sk.length)
    /\ sk.pc # "for" => sk.index <= Len(sk.iov) /\ sk.iov[sk.index].base = sk.done
    /\ sk.pc = "kernel" => /\ sk.entry \in sk.index..Len(sk.iov)
                           /\ sk.iov[sk.entry].base = Len(wire)
    /\ sk.pc \in {"written", "for"} => Len(wire) <= sk.length
    /\ sk.pc = "for" =>
         IF sk.index <= Len(sk.iov) THEN sk.iov[sk.index].base + sk.n = Len(wire)
         ELSE sk.length + sk.n = Len(wire)

SockInv == SockTypeOK /\ ReadOK /\ SendOK /\ WritevOK

(* The numbers, and the length, of a segment.                              *)
LEMMA SegmentOf ==
  ASSUME NEW k \in Nat, NEW n \in Nat
  PROVE  /\ Segment(k, n) \in Seq(Nat) /\ Len(Segment(k, n)) = n
         /\ \A i \in 1..n : Segment(k, n)[i] = k + i
<1>1. \A i \in 1..n : k + i \in Nat
  OBVIOUS
<1>2. Segment(k, n) \in [1..n -> Nat]
  BY <1>1 DEF Segment
<1>3. QED
  BY <1>2 DEF Segment

(* A segment and the one that begins where it ends are a segment.          *)
LEMMA SegmentsMeet ==
  ASSUME NEW k \in Nat, NEW n \in Nat, NEW m \in Nat
  PROVE  Segment(k, n) \o [i \in 1..m |-> (k + n) + i] = Segment(k, n + m)
<1> DEFINE a == Segment(k, n)
           b == Segment(k + n, m)
           c == Segment(k, n + m)
<1>1. k + n \in Nat /\ n + m \in Nat
  OBVIOUS
<1>2. /\ a \in Seq(Nat) /\ Len(a) = n /\ \A i \in 1..n : a[i] = k + i
      /\ b \in Seq(Nat) /\ Len(b) = m /\ \A i \in 1..m : b[i] = (k + n) + i
      /\ c \in Seq(Nat) /\ Len(c) = n + m /\ \A i \in 1..n + m : c[i] = k + i
  BY <1>1, SegmentOf
<1>3. b = [i \in 1..m |-> (k + n) + i]
  BY DEF Segment
<1> HIDE DEF a, b, c
<1>4. a \o b \in Seq(Nat) /\ Len(a \o b) = n + m
      /\ \A i \in 1..n + m : (a \o b)[i] = IF i <= n THEN a[i] ELSE b[i - n]
  BY <1>2, ConcatProperties, ZenonT(60)
<1>5. \A i \in 1..n + m : (a \o b)[i] = c[i]
  <2> TAKE i \in 1..n + m
  <2>1. CASE i <= n
    <3>1. i \in 1..n
      BY <2>1
    <3>2. QED
      BY <1>2, <1>4, <2>1, <3>1
  <2>2. CASE ~(i <= n)
    <3>1. i - n \in 1..m /\ (k + n) + (i - n) = k + i
      BY <2>2
    <3>2. b[i - n] = k + i
      BY <1>2, <3>1
    <3>3. QED
      BY <1>2, <1>4, <2>2, <3>2
  <2>3. QED
    BY <2>1, <2>2
<1>6. a \o b = c
  BY <1>2, <1>4, <1>5, SeqEqual
<1>7. QED
  BY <1>3, <1>6 DEF a, c

(* The entries of a caller's array end within the message. *)
LEMMA CallersArray ==
  ASSUME NEW iov \in Iovs
  PROVE  /\ iov \in Seq(IovEntries) /\ Len(iov) \in Nat \ {0} /\ Bytes(iov) \in Nat
         /\ iov[1].base = 0 /\ IovOK(iov, 1, Bytes(iov))
<1>1. /\ iov \in Seq(IovEntries) /\ iov # <<>> /\ iov[1].base = 0
      /\ \A i \in 1..Len(iov) - 1 : iov[i + 1].base = iov[i].base + iov[i].len
  BY SocketAssumption DEF IovEntries
<1>2. Len(iov) \in Nat \ {0}
  BY <1>1
<1>3. \A i \in 1..Len(iov) : iov[i] \in IovEntries /\ iov[i].base \in Nat /\ iov[i].len \in Nat
  <2>1. \A i \in 1..Len(iov) : iov[i] \in IovEntries
    BY <1>1, ElementOfSeq
  <2>2. QED
    BY <2>1 DEF IovEntries
<1>4. Bytes(iov) \in Nat /\ Bytes(iov) = iov[Len(iov)].base + iov[Len(iov)].len
  BY <1>2, <1>3 DEF Bytes
<1> DEFINE L == Len(iov)
           beyond == {k \in 0..L - 1 : ~(iov[L - k].base + iov[L - k].len <= Bytes(iov))}
<1>5. beyond = {}
  <2> SUFFICES ASSUME beyond # {}
               PROVE  FALSE
    OBVIOUS
  <2>1. IsWellFoundedOn(OpToRel(<, Nat), Nat)
    BY NatLessThanWellFounded
  <2>2. beyond \in SUBSET Nat
    BY <1>2
  <2> HIDE DEF beyond
  <2>3. PICK m \in beyond : \A k \in beyond : ~(<<k, m>> \in OpToRel(<, Nat))
    BY <2>1, <2>2, WFMin
  <2>4. m \in Nat /\ \A k \in beyond : ~(k < m)
    BY <2>2, <2>3 DEF OpToRel
  <2>5. m \in 0..L - 1 /\ ~(iov[L - m].base + iov[L - m].len <= Bytes(iov))
    BY DEF beyond
  <2>6. m # 0
    BY <1>2, <1>3, <1>4, <2>5
  <2>7. m - 1 \in 0..L - 1 /\ m - 1 < m /\ L - (m - 1) = L - m + 1 /\ L - m \in 1..L - 1 /\ L - m + 1 \in 1..L
    BY <1>2, <2>5, <2>6
  <2>8. iov[L - m + 1].base + iov[L - m + 1].len <= Bytes(iov)
    BY <2>4, <2>7 DEF beyond
  <2>9. iov[L - m + 1].base = iov[L - m].base + iov[L - m].len
    BY <1>1, <2>7
  <2>10. iov[L - m].base \in Nat /\ iov[L - m].len \in Nat /\ iov[L - m + 1].base \in Nat /\ iov[L - m + 1].len \in Nat
    BY <1>2, <1>3, <2>7
  <2>11. QED
    BY <1>4, <2>5, <2>8, <2>9, <2>10
<1>6. \A i \in 1..L : iov[i].base + iov[i].len <= Bytes(iov)
  <2> TAKE i \in 1..L
  <2>1. L - i \in 0..L - 1 /\ L - (L - i) = i
    BY <1>2
  <2>2. QED
    BY <1>5, <2>1
<1>7. QED
  BY <1>1, <1>2, <1>4, <1>6 DEF IovOK

LEMMA SockInvProperty == SockInv => StreamsInOrder
<1> SUFFICES ASSUME SockInv
             PROVE  StreamsInOrder
  OBVIOUS
<1>1. FirstOf(Len(wire)) = Segment(0, Len(wire))
  <2>1. Len(wire) \in Nat
    BY DEF SockInv, SockTypeOK
  <2>2. QED
    BY <2>1 DEF FirstOf, Segment
<1>2. wire = FirstOf(Len(wire))
  BY <1>1 DEF SockInv, SendOK
<1>3. QED
  BY <1>2 DEF SockInv, SendOK, ReadOK, StreamsInOrder, Segment

(* When the rest of an array is empty, it begins where the message ends.    *)
LEMMA EmptyRest ==
  ASSUME NEW iov \in Seq(IovEntries), NEW index \in Nat \ {0}, NEW length \in Nat,
         IovOK(iov, index, length), NEW entry \in index..Len(iov),
         \A e \in entry..Len(iov) : iov[e].len = 0
  PROVE  iov[entry].base = length
<1> DEFINE L == Len(iov)
           before == {k \in 0..L - entry : iov[L - k].base # length}
<1>1. L \in Nat /\ entry \in Nat \ {0} /\ entry <= L
  OBVIOUS
<1>2. \A i \in entry..L : iov[i].base \in Nat
  <2>1. \A i \in 1..L : iov[i] \in IovEntries
    BY ElementOfSeq
  <2>2. QED
    BY <1>1, <2>1 DEF IovEntries
<1>3. iov[L].base + iov[L].len = length /\ iov[L].len = 0
  BY <1>1 DEF IovOK, Bytes
<1>4. \A i \in entry..L - 1 : iov[i + 1].base = iov[i].base + iov[i].len /\ iov[i].len = 0
  <2>1. \A i \in entry..L - 1 : i \in index..L - 1 /\ i \in entry..L
    BY <1>1
  <2>2. QED
    BY <2>1 DEF IovOK
<1>5. before = {}
  <2> SUFFICES ASSUME before # {}
               PROVE  FALSE
    OBVIOUS
  <2>1. IsWellFoundedOn(OpToRel(<, Nat), Nat)
    BY NatLessThanWellFounded
  <2>2. before \in SUBSET Nat
    BY <1>1
  <2> HIDE DEF before
  <2>3. PICK m \in before : \A k \in before : ~(<<k, m>> \in OpToRel(<, Nat))
    BY <2>1, <2>2, WFMin
  <2>4. m \in Nat /\ \A k \in before : ~(k < m)
    BY <2>2, <2>3 DEF OpToRel
  <2>5. m \in 0..L - entry /\ iov[L - m].base # length
    BY DEF before
  <2>6. m # 0
    BY <1>1, <1>2, <1>3, <2>5
  <2>7. m - 1 \in 0..L - entry /\ m - 1 < m /\ L - (m - 1) = L - m + 1 /\ L - m \in entry..L - 1 /\ L - m \in entry..L
    BY <1>1, <2>5, <2>6
  <2>8. iov[L - m + 1].base = length
    BY <2>4, <2>7 DEF before
  <2>9. iov[L - m + 1].base = iov[L - m].base + iov[L - m].len /\ iov[L - m].len = 0
    BY <1>4, <2>7
  <2>10. iov[L - m].base \in Nat
    BY <1>2, <2>7
  <2>11. QED
    BY <2>5, <2>8, <2>9, <2>10
<1>6. L - entry \in 0..L - entry /\ L - (L - entry) = entry
  BY <1>1
<1>7. QED
  BY <1>5, <1>6

(* A call ends without a number of bytes.                                   *)
LEMMA ReturnsNothing ==
  ASSUME SockInv, sk.pc \notin {"idle", "ret"}, NEW r \in Int, r <= 0, Returns(r),
         UNCHANGED <<stream, wire>>, eof' \in BOOLEAN,
         sk.call \in Sends /\ r = 0 => Len(wire) = sk.length
  PROVE  SockInv'
<1>1. sk \in SkRecords
  BY DEF SockInv, SockTypeOK
<1>2. /\ sk' \in SkRecords /\ sk'.pc = "ret" /\ sk'.ret = r
      /\ sk'.call = sk.call /\ sk'.done = sk.done /\ sk'.buf = sk.buf /\ sk'.from = sk.from
      /\ sk'.length = sk.length
  BY <1>1 DEF Returns, SkRecords
<1>3. SockTypeOK'
  BY <1>2 DEF SockInv, SockTypeOK
<1>4. ~(sk'.ret > 0)
  BY <1>2
<1>5. ReadOK'
  BY <1>2, <1>4 DEF SockInv, ReadOK, Segment
<1>6. SendOK'
  <2>1. sk'.call \in Sends =>
          /\ Len(wire') <= sk'.length
          /\ sk'.call = "sendmsg" => Len(wire') = 0
    BY <1>2 DEF SockInv, SendOK
  <2>2. sk'.call \in Sends /\ sk'.ret = 0 => Len(wire') = sk'.length
    BY <1>2
  <2>3. wire' = Segment(0, Len(wire'))
    BY DEF SockInv, SendOK, Segment
  <2>4. QED
    BY <1>2, <1>4, <2>1, <2>2, <2>3 DEF SendOK, Segment
<1>a. WritevOK'
  BY <1>2 DEF WritevOK
<1>7. QED
  BY <1>3, <1>5, <1>6, <1>a DEF SockInv

LEMMA CallStep == SockInv /\ Call => SockInv'
<1> SUFFICES ASSUME SockInv, Call
             PROVE  SockInv'
  OBVIOUS
<1>1. PICK call \in Calls, length \in Lengths, iov \in Iovs, timed \in BOOLEAN :
        sk' = Started(call, length, iov, timed)
  BY DEF Call, Calls
<1>2. /\ iov \in Seq(IovEntries) /\ Len(iov) \in Nat \ {0} /\ Bytes(iov) \in Nat
      /\ iov[1].base = 0 /\ IovOK(iov, 1, Bytes(iov))
  BY CallersArray
<1>3. length \in Nat /\ stream.taken \in Nat /\ stream \in [sent : Nat, taken : Nat, closed : BOOLEAN]
      /\ eof \in BOOLEAN
  BY SocketAssumption DEF SockInv, SockTypeOK
<1>4. wire' = <<>> /\ stream' = stream /\ eof' = eof
  BY DEF Call
<1> DEFINE pc == IF length = 0 /\ call \in {"recv_exact", "readline", "send"} THEN "ret"
                 ELSE IF call = "wait" THEN "wait" ELSE "loop"
           len == IF call = "writev" THEN Bytes(iov) ELSE length
           arr == IF call = "writev" THEN iov ELSE <<>>
           tm == timed /\ call \notin Sends
<1>5. /\ pc \in {"ret", "wait", "loop"} /\ len \in Nat /\ arr \in Seq(IovEntries) /\ tm \in BOOLEAN
      /\ call = "writev" => pc = "loop" /\ len = Bytes(iov) /\ arr = iov
      /\ pc = "ret" => len = 0
  BY <1>2, <1>3
<1>6. sk' = [pc |-> pc, call |-> call, length |-> len, done |-> 0, buf |-> <<>>,
             iov |-> arr, index |-> 1, entry |-> 1, n |-> 0, timed |-> tm,
             from |-> stream.taken, ret |-> 0]
  BY <1>1 DEF Started, Idle
<1> HIDE DEF pc, len, arr, tm
<1>7. sk' \in SkRecords
  BY <1>3, <1>5, <1>6 DEF SkRecords
<1>8. SockTypeOK'
  BY <1>3, <1>4, <1>5, <1>6, <1>7 DEF SockTypeOK
<1>9. Segment(0, 0) = <<>> /\ Segment(stream.taken, 0) = <<>> /\ Len(<<>>) = 0
  BY DEF Segment
<1>10. ReadOK'
  BY <1>3, <1>4, <1>5, <1>6, <1>9 DEF ReadOK, Segment
<1>11. SendOK'
  <2>1. /\ sk'.call = call /\ sk'.pc = pc /\ sk'.length = len /\ sk'.done = 0 /\ sk'.ret = 0
        /\ wire' = <<>> /\ Len(wire') = 0 /\ wire' = Segment(0, Len(wire'))
    BY <1>4, <1>6, <1>9
  <2>2. len >= 0 /\ pc \notin {"idle", "kernel", "written"}
    BY <1>5
  <2>3. QED
    BY <1>5, <2>1, <2>2 DEF SendOK, Segment
<1>12. WritevOK'
  <2>1. sk'.iov = arr /\ sk'.index = 1 /\ sk'.length = len /\ sk'.done = 0 /\ sk'.call = call /\ sk'.pc = pc
    BY <1>6
  <2>2. ASSUME call = "writev"
        PROVE  /\ IovOK(sk'.iov, sk'.index, sk'.length)
               /\ sk'.index <= Len(sk'.iov) /\ sk'.iov[sk'.index].base = sk'.done
    BY <1>2, <1>5, <2>1, <2>2
  <2>3. pc \notin {"kernel", "written", "for"}
    BY <1>5
  <2>4. QED
    BY <2>1, <2>2, <2>3 DEF WritevOK, IovOK, Bytes
<1>13. QED
  BY <1>8, <1>10, <1>11, <1>12 DEF SockInv

(* The call waits, or goes on after a wait.                                 *)
LEMMA WaitsOrGoesOn ==
  ASSUME SockInv, NEW pc \in {"loop", "wait"}, sk.pc \in {"loop", "wait"}, sk' = [sk EXCEPT !.pc = pc],
         UNCHANGED <<stream, wire>>, eof' \in BOOLEAN
  PROVE  SockInv'
<1>1. sk \in SkRecords
  BY DEF SockInv, SockTypeOK
<1>2. /\ sk' \in SkRecords /\ sk'.pc = pc /\ sk'.ret = sk.ret /\ sk'.length = sk.length
      /\ sk'.call = sk.call /\ sk'.done = sk.done /\ sk'.buf = sk.buf /\ sk'.from = sk.from
      /\ sk'.iov = sk.iov /\ sk'.index = sk.index
  BY <1>1 DEF SkRecords
<1>3. SockTypeOK'
  BY <1>2 DEF SockInv, SockTypeOK
<1>4. ReadOK'
  BY <1>2 DEF SockInv, ReadOK, Segment
<1>5. SendOK'
  BY <1>2 DEF SockInv, SendOK, Segment
<1>6. WritevOK'
  BY <1>2 DEF SockInv, WritevOK, IovOK, Bytes
<1>7. QED
  BY <1>3, <1>4, <1>5, <1>6 DEF SockInv

(* The part received begins where the buffer ends.                         *)
LEMMA ReceivesStep == SockInv /\ Receives => SockInv'
<1> SUFFICES ASSUME SockInv, Receives
             PROVE  SockInv'
  OBVIOUS
<1>1. sk \in SkRecords /\ stream \in [sent : Nat, taken : Nat, closed : BOOLEAN]
      /\ sk.done \in Nat /\ sk.length \in Nat /\ sk.from \in Nat /\ stream.taken \in Nat /\ wire \in Seq(Nat)
  BY DEF SockInv, SockTypeOK, SkRecords
<1>2. sk.pc = "loop" /\ sk.call \in Reads
  BY DEF Receives, Tries
<1>3. PICK n \in 1..(IF sk.call = "readline" THEN 1 ELSE sk.length - sk.done) :
       LET done == sk.done + n
           ends == \/ sk.call = "recv" \/ done = sk.length
                   \/ sk.call = "readline" /\ stream.taken + 1 \in Newlines
       IN /\ n <= stream.sent - stream.taken
          /\ stream' = [stream EXCEPT !.taken = @ + n]
          /\ sk' = [sk EXCEPT !.done = done, !.buf = Filled(@, sk.done, n),
                              !.pc = IF ends THEN "ret" ELSE "loop",
                              !.ret = IF ends THEN done ELSE 0]
  BY DEF Receives
<1> DEFINE done == sk.done + n
           ends == \/ sk.call = "recv" \/ done = sk.length
                   \/ sk.call = "readline" /\ stream.taken + 1 \in Newlines
           pc == IF ends THEN "ret" ELSE "loop"
           ret == IF ends THEN done ELSE 0
           buf == Filled(sk.buf, sk.done, n)
<1>4. n \in Nat /\ n > 0 /\ done \in Nat /\ done > 0 /\ (sk.call = "readline" => n = 1)
  BY <1>1
<1>5. /\ stream' \in [sent : Nat, taken : Nat, closed : BOOLEAN]
      /\ stream'.taken = stream.taken + n /\ stream'.closed = stream.closed
  BY <1>1, <1>3, <1>4, SMTT(30)
<1>6. sk.buf = Segment(sk.from, sk.done) /\ stream.taken = sk.from + sk.done
  BY <1>2 DEF SockInv, ReadOK
<1>7. buf = Segment(sk.from, done) /\ buf \in Seq(Nat)
  <2>1. buf = sk.buf \o [i \in 1..n |-> stream.taken + i]
    BY DEF Filled
  <2>2. buf = Segment(sk.from, sk.done) \o [i \in 1..n |-> (sk.from + sk.done) + i]
    BY <1>6, <2>1
  <2>3. buf = Segment(sk.from, sk.done + n)
    BY <1>1, <1>4, <2>2, SegmentsMeet
  <2>4. QED
    BY <1>1, <1>4, <2>3, SegmentOf
<1>8. /\ pc \in {"ret", "loop"} /\ ret \in Nat /\ (pc = "ret" => ret = done)
      /\ pc = "loop" => ret = 0 /\ ~(sk.call = "readline" /\ stream.taken + 1 \in Newlines)
      /\ pc = "ret" => \/ sk.call = "recv" \/ done = sk.length
                       \/ sk.call = "readline" /\ stream.taken + 1 \in Newlines
      /\ sk.call = "recv" => pc = "ret" /\ ret > 0
  BY <1>4
<1>9. sk' = [sk EXCEPT !.done = done, !.buf = buf, !.pc = pc, !.ret = ret]
  BY <1>1, <1>3 DEF SkRecords
<1> HIDE DEF pc, ret, buf, ends, done
<1>10. /\ sk' \in SkRecords /\ sk'.done = done /\ sk'.buf = buf /\ sk'.pc = pc /\ sk'.ret = ret
       /\ sk'.call = sk.call /\ sk'.length = sk.length /\ sk'.from = sk.from
  <2>1. sk \in SkRecords /\ done \in Nat /\ buf \in Seq(Nat) /\ pc \in {"ret", "loop"} /\ ret \in Int
    BY <1>1, <1>4, <1>7, <1>8
  <2>2. QED
    BY <2>1, <1>9 DEF SkRecords
<1> USE DEF done
<1>11. wire' = wire /\ eof' = eof
  BY DEF Receives
<1>12. SockTypeOK'
  BY <1>5, <1>8, <1>10, <1>11 DEF SockInv, SockTypeOK
<1>13. ReadOK'
  <2>1. sk'.buf = Segment(sk'.from, sk'.done) /\ stream'.taken = sk'.from + sk'.done
    BY <1>1, <1>4, <1>5, <1>6, <1>7, <1>10
  <2>2. ASSUME sk.call = "readline"
        PROVE  /\ \A i \in 1..done - 1 : buf[i] \notin Newlines
               /\ buf[done] = stream.taken + 1
    <3>1. n = 1 /\ done = sk.done + 1
      BY <1>4, <2>2
    <3>2. \A i \in 1..sk.done : sk.buf[i] \notin Newlines
      BY <1>2, <2>2 DEF SockInv, ReadOK
    <3>3. \A i \in 1..sk.done : sk.buf[i] = sk.from + i
      <4>1. \A i \in 1..sk.done : Segment(sk.from, sk.done)[i] = sk.from + i
        BY <1>1, SegmentOf
      <4>2. QED
        BY <1>6, <4>1
    <3>4. \A i \in 1..done : buf[i] = sk.from + i
      BY <1>1, <1>4, <1>7, SegmentOf
    <3>5. \A i \in 1..done - 1 : i \in 1..sk.done /\ i \in 1..done
      BY <1>1, <3>1
    <3>6. done \in 1..done /\ sk.from + done = stream.taken + 1
      BY <1>1, <1>4, <1>6, <3>1
    <3>7. QED
      BY <3>2, <3>3, <3>4, <3>5, <3>6
  <2>3. ASSUME sk.call = "readline", pc = "loop"
        PROVE  \A i \in 1..done : buf[i] \notin Newlines
    <3>1. \A i \in 1..done : i \in 1..done - 1 \/ i = done
      BY <1>4
    <3>2. QED
      BY <1>8, <2>2, <2>3, <3>1
  <2>4. sk.call = "recv_exact" /\ pc = "ret" => ret = sk.length
    BY <1>8
  <2>5. sk.call = "readline" /\ pc = "ret" => ret = sk.length \/ buf[ret] \in Newlines
    BY <1>8, <2>2
  <2>6. /\ sk'.call = "recv" => sk'.pc = "ret" /\ sk'.ret > 0
        /\ sk'.pc \in {"ret", "loop"} /\ (sk'.pc = "ret" => sk'.ret = sk'.done) /\ sk'.ret \in Nat
    BY <1>8, <1>10
  <2>7. sk'.pc = "ret" /\ sk'.call = "readline" => \A i \in 1..sk'.ret - 1 : sk'.buf[i] \notin Newlines
    BY <1>8, <1>10, <2>2
  <2>8. /\ sk'.call = "readline" /\ sk'.pc \in {"loop", "wait"} =>
              \A i \in 1..sk'.done : sk'.buf[i] \notin Newlines
        /\ sk'.call = "recv_exact" /\ sk'.pc = "ret" => sk'.ret = sk'.length
        /\ sk'.call = "readline" /\ sk'.pc = "ret" => sk'.ret = sk'.length \/ sk'.buf[sk'.ret] \in Newlines
    BY <1>8, <1>10, <2>3, <2>4, <2>5
  <2>9. QED
    BY <2>1, <2>6, <2>7, <2>8 DEF ReadOK, Segment
<1>14. sk.call \notin Sends /\ sk.call # "writev"
  BY <1>2 DEF Reads, Sends
<1>15. SendOK' /\ WritevOK'
  BY <1>10, <1>11, <1>14 DEF SockInv, SendOK, WritevOK, Segment
<1>16. QED
  BY <1>12, <1>13, <1>15 DEF SockInv

LEMMA ReceivesEndStep == SockInv /\ ReceivesEnd => SockInv'
<1> SUFFICES ASSUME SockInv, ReceivesEnd
             PROVE  SockInv'
  OBVIOUS
<1>1. sk \in SkRecords /\ sk.done \in Nat /\ eof \in BOOLEAN
  BY DEF SockInv, SockTypeOK, SkRecords
<1>2. /\ sk.pc = "loop" /\ sk.call \in Reads /\ stream.closed /\ UNCHANGED <<eof, stream, wire>>
      /\ Returns(IF sk.call = "recv_exact" THEN sk.done ELSE 0)
  BY DEF ReceivesEnd, Tries
<1>3. CASE sk.call # "recv_exact"
  BY <1>1, <1>2, <1>3, ReturnsNothing DEF Reads, Sends
<1>4. CASE sk.call = "recv_exact"
  <2>1. sk' = [sk EXCEPT !.pc = "ret", !.ret = sk.done]
    BY <1>2, <1>4 DEF Returns
  <2> DEFINE v == sk.done
  <2>a. v \in Int
    BY <1>1
  <2> HIDE DEF v
  <2>b. sk' = [sk EXCEPT !.pc = "ret", !.ret = v]
    BY <2>1 DEF v
  <2>c. /\ sk' \in SkRecords /\ sk'.pc = "ret" /\ sk'.ret = v
        /\ sk'.call = "recv_exact" /\ sk'.done = sk.done /\ sk'.buf = sk.buf /\ sk'.from = sk.from
    BY <1>1, <1>4, <2>a, <2>b DEF SkRecords
  <2>2. /\ sk' \in SkRecords /\ sk'.pc = "ret" /\ sk'.ret = sk.done
        /\ sk'.call = "recv_exact" /\ sk'.done = sk.done /\ sk'.buf = sk.buf /\ sk'.from = sk.from
    BY <2>c DEF v
  <2>3. SockTypeOK'
    BY <1>2, <2>2 DEF SockInv, SockTypeOK
  <2>4. ReadOK'
    BY <1>2, <1>4, <2>2 DEF SockInv, ReadOK, Segment
  <2>5. SendOK' /\ WritevOK'
    BY <1>2, <1>4, <2>2 DEF SockInv, SendOK, WritevOK, Segment, Sends
  <2>6. QED
    BY <2>3, <2>4, <2>5 DEF SockInv
<1>5. QED
  BY <1>3, <1>4

LEMMA SendsPartStep == SockInv /\ SendsPart => SockInv'
<1> SUFFICES ASSUME SockInv, SendsPart
             PROVE  SockInv'
  OBVIOUS
<1>1. /\ sk \in SkRecords /\ sk.done \in Nat /\ sk.length \in Nat /\ wire \in Seq(Nat) /\ Len(wire) \in Nat
      /\ eof \in BOOLEAN /\ stream \in [sent : Nat, taken : Nat, closed : BOOLEAN]
  BY DEF SockInv, SockTypeOK, SkRecords
<1>2. sk.pc = "loop" /\ sk.call \in {"send", "sendmsg"} /\ UNCHANGED <<eof, stream>>
  BY DEF SendsPart, Tries
<1>3. PICK n \in 0..sk.length - sk.done :
       LET done == sk.done + n
           ends == sk.call = "sendmsg" \/ done = sk.length
       IN /\ n = 0 => sk.length = 0
          /\ wire' = wire \o [i \in 1..n |-> sk.done + i]
          /\ sk' = [sk EXCEPT !.done = done, !.pc = IF ends THEN "ret" ELSE "loop",
                              !.ret = IF ends THEN done ELSE 0]
  BY DEF SendsPart
<1> DEFINE done == sk.done + n
           ends == sk.call = "sendmsg" \/ done = sk.length
           pc == IF ends THEN "ret" ELSE "loop"
           ret == IF ends THEN done ELSE 0
<1>4. n \in Nat /\ done \in Nat /\ done <= sk.length /\ (n = 0 => sk.length = 0)
  BY <1>1, <1>3
<1>5. wire = Segment(0, Len(wire)) /\ Len(wire) = sk.done
  BY <1>2 DEF SockInv, SendOK, Sends
<1>6. wire' = Segment(0, done) /\ wire' \in Seq(Nat) /\ Len(wire') = done
  <2>1. wire' = Segment(0, sk.done) \o [i \in 1..n |-> (0 + sk.done) + i]
    BY <1>1, <1>3, <1>5, SMTT(30)
  <2>2. wire' = Segment(0, sk.done + n)
    BY <1>1, <1>4, <2>1, SegmentsMeet
  <2>3. QED
    BY <1>4, <2>2, SegmentOf
<1>7. /\ pc \in {"ret", "loop"} /\ ret \in Nat
      /\ pc = "ret" => ret = done /\ (sk.call # "sendmsg" => ret = sk.length)
      /\ sk.call = "sendmsg" => pc = "ret"
      /\ pc = "ret" /\ ret = 0 => sk.length = 0
  BY <1>1, <1>4
<1>8. sk' = [sk EXCEPT !.done = done, !.pc = pc, !.ret = ret]
  BY <1>3
<1> HIDE DEF pc, ret, ends, done
<1>9. /\ sk' \in SkRecords /\ sk'.done = done /\ sk'.pc = pc /\ sk'.ret = ret
      /\ sk'.call = sk.call /\ sk'.length = sk.length
  <2>1. sk \in SkRecords /\ done \in Nat /\ pc \in {"ret", "loop"} /\ ret \in Int
    BY <1>1, <1>4, <1>7
  <2>2. QED
    BY <2>1, <1>8 DEF SkRecords
<1> USE DEF done
<1>10. SockTypeOK'
  BY <1>1, <1>2, <1>6, <1>7, <1>9 DEF SockTypeOK
<1>11. sk.call \notin Reads /\ sk.call # "writev"
  BY <1>2 DEF Reads
<1>12. SendOK'
  <2>1. /\ Len(wire') <= sk'.length /\ Len(wire') = sk'.done /\ wire' = Segment(0, Len(wire'))
        /\ sk'.pc \in {"ret", "loop"}
    BY <1>4, <1>6, <1>7, <1>9
  <2>2. /\ sk'.pc = "ret" => sk'.ret = Len(wire') /\ sk'.ret \in Nat
        /\ sk'.pc = "ret" /\ sk'.call # "sendmsg" => sk'.ret = sk'.length
        /\ sk'.call = "sendmsg" => sk'.pc = "ret"
        /\ sk'.pc = "ret" /\ sk'.ret = 0 => sk'.length = 0
    BY <1>6, <1>7, <1>9
  <2>3. QED
    BY <2>1, <2>2 DEF SendOK, Segment
<1>13. ReadOK' /\ WritevOK'
  BY <1>9, <1>11 DEF ReadOK, WritevOK
<1>14. QED
  BY <1>10, <1>12, <1>13 DEF SockInv

LEMMA WritesStep == SockInv /\ Writes => SockInv'
<1> SUFFICES ASSUME SockInv, Writes
             PROVE  SockInv'
  OBVIOUS
<1>1. sk \in SkRecords /\ sk.index \in Nat /\ sk.iov \in Seq(IovEntries)
  BY DEF SockInv, SockTypeOK, SkRecords
<1>2. /\ sk.pc = "loop" /\ sk.call = "writev" /\ UNCHANGED <<eof, stream, wire>>
      /\ sk' = [sk EXCEPT !.pc = "kernel", !.entry = sk.index, !.n = 0]
  BY DEF Writes, Tries
<1> DEFINE e == sk.index
<1>3. e \in Nat
  BY <1>1
<1>4. sk' = [sk EXCEPT !.pc = "kernel", !.entry = e, !.n = 0]
  BY <1>2
<1> HIDE DEF e
<1>5. /\ sk' \in SkRecords /\ sk'.pc = "kernel" /\ sk'.entry = e /\ sk'.n = 0
      /\ sk'.call = sk.call /\ sk'.iov = sk.iov /\ sk'.index = sk.index
      /\ sk'.length = sk.length /\ sk'.done = sk.done
  BY <1>1, <1>3, <1>4 DEF SkRecords
<1>6. SockTypeOK'
  BY <1>2, <1>5 DEF SockInv, SockTypeOK
<1>7. ReadOK'
  BY <1>2, <1>5 DEF ReadOK, Reads
<1>8. Len(wire) = sk.done /\ sk.done \in Nat
  BY <1>1, <1>2 DEF SockInv, SendOK, Sends, SkRecords
<1>9. SendOK'
  BY <1>2, <1>5, <1>8 DEF SockInv, SendOK, Segment
<1>10. /\ IovOK(sk.iov, sk.index, sk.length)
       /\ sk.index <= Len(sk.iov) /\ sk.iov[sk.index].base = sk.done
  BY <1>2 DEF SockInv, WritevOK
<1>11. e \in sk.index..Len(sk.iov) /\ sk.iov[e].base = sk.done
  BY <1>1, <1>10 DEF e
<1>12. WritevOK'
  BY <1>2, <1>5, <1>8, <1>10, <1>11 DEF WritevOK, IovOK, Bytes
<1>13. QED
  BY <1>6, <1>7, <1>9, <1>12 DEF SockInv

(* The kernel goes on with the entry whose first byte is the next of the   *)
(* message.                                                                *)
LEMMA GathersStep == SockInv /\ Gathers => SockInv'
<1> SUFFICES ASSUME SockInv, Gathers
             PROVE  SockInv'
  OBVIOUS
<1>1. /\ sk \in SkRecords /\ sk.index \in Nat \ {0} /\ sk.iov \in Seq(IovEntries) /\ sk.n \in Nat /\ sk.done \in Nat
      /\ sk.length \in Nat /\ sk.entry \in Nat /\ wire \in Seq(Nat) /\ Len(wire) \in Nat
      /\ eof \in BOOLEAN /\ stream \in [sent : Nat, taken : Nat, closed : BOOLEAN]
  BY DEF SockInv, SockTypeOK, SkRecords
<1>2. sk.pc = "kernel" /\ sk.call = "writev" /\ UNCHANGED <<eof, stream>>
  BY DEF Gathers, SockInv, SockTypeOK
<1>3. PICK more \in BOOLEAN, m \in 0..sk.iov[sk.entry].len :
        /\ more => m = sk.iov[sk.entry].len /\ sk.entry < Len(sk.iov)
        /\ ~more /\ sk.n + m = 0 => \A e \in sk.entry..Len(sk.iov) : sk.iov[e].len = 0
        /\ wire' = wire \o [i \in 1..m |-> sk.iov[sk.entry].base + i]
        /\ sk' = [sk EXCEPT !.n = @ + m, !.entry = IF more THEN @ + 1 ELSE @,
                            !.pc = IF more THEN "kernel" ELSE "written"]
  BY DEF Gathers
<1>4. /\ IovOK(sk.iov, sk.index, sk.length) /\ sk.index <= Len(sk.iov)
      /\ sk.iov[sk.index].base = sk.done
      /\ sk.entry \in sk.index..Len(sk.iov) /\ sk.iov[sk.entry].base = Len(wire)
  BY <1>2 DEF SockInv, WritevOK
<1>5. sk.entry \in 1..Len(sk.iov) /\ Len(sk.iov) \in Nat
  BY <1>1, <1>4
<1>6. sk.iov[sk.entry].base \in Nat /\ sk.iov[sk.entry].len \in Nat
  <2>1. sk.iov[sk.entry] \in IovEntries
    BY <1>1, <1>5, ElementOfSeq
  <2>2. QED
    BY <2>1 DEF IovEntries
<1>7. m \in Nat /\ m <= sk.iov[sk.entry].len
  BY <1>6
<1>8. wire = Segment(0, Len(wire)) /\ Len(wire) = sk.done + sk.n
  BY <1>2 DEF SockInv, SendOK, Sends
<1>9. wire' = Segment(0, Len(wire) + m) /\ wire' \in Seq(Nat) /\ Len(wire') = Len(wire) + m
  <2> DEFINE k == Len(wire)
  <2>1. k \in Nat /\ wire = Segment(0, k) /\ sk.iov[sk.entry].base = k
    BY <1>1, <1>4, <1>8
  <2> HIDE DEF k
  <2>2. 0 + k = k
    BY <2>1
  <2>3. wire' = Segment(0, k) \o [i \in 1..m |-> (0 + k) + i]
    BY <1>3, <2>1, <2>2
  <2>4. 0 \in Nat /\ m \in Nat /\ k \in Nat
    BY <1>7, <2>1
  <2>5. wire' = Segment(0, k + m)
    BY <2>3, <2>4, SegmentsMeet
  <2>6. k + m \in Nat
    BY <2>4
  <2>7. wire' \in Seq(Nat) /\ Len(wire') = k + m
    BY <2>4, <2>5, <2>6, SegmentOf
  <2>8. QED
    BY <2>5, <2>7 DEF k
<1> DEFINE n == sk.n + m
           entry == IF more THEN sk.entry + 1 ELSE sk.entry
           pc == IF more THEN "kernel" ELSE "written"
<1>10. n \in Nat /\ entry \in Nat /\ pc \in {"kernel", "written"}
  BY <1>1, <1>7, SMTT(30)
<1>11. pc = "kernel" => /\ entry = sk.entry + 1 /\ m = sk.iov[sk.entry].len /\ sk.entry < Len(sk.iov)
  BY <1>3
<1>12. sk' = [sk EXCEPT !.n = n, !.entry = entry, !.pc = pc]
  BY <1>1, <1>3 DEF SkRecords
<1>13. Len(wire) + m = sk.done + n
  BY <1>1, <1>7, <1>8
<1> HIDE DEF n, entry, pc
<1>14. /\ sk' \in SkRecords /\ sk'.pc = pc /\ sk'.entry = entry /\ sk'.n = n
       /\ sk'.call = sk.call /\ sk'.iov = sk.iov /\ sk'.index = sk.index
       /\ sk'.length = sk.length /\ sk'.done = sk.done
  <2>1. sk \in SkRecords
    BY <1>1
  <2>2. QED
    BY <1>10, <1>12, <2>1 DEF SkRecords
<1>15. SockTypeOK'
  BY <1>1, <1>2, <1>9, <1>10, <1>14 DEF SockTypeOK
<1>16. ReadOK'
  BY <1>2, <1>14 DEF ReadOK, Reads
<1>18. pc = "kernel" => entry \in sk.index..Len(sk.iov) /\ sk.iov[entry].base = Len(wire')
  <2> SUFFICES ASSUME pc = "kernel"
               PROVE  entry \in sk.index..Len(sk.iov) /\ sk.iov[entry].base = Len(wire')
    OBVIOUS
  <2>1. entry = sk.entry + 1 /\ m = sk.iov[sk.entry].len /\ sk.entry \in sk.index..Len(sk.iov) - 1
    BY <1>1, <1>4, <1>5, <1>11
  <2>2. sk.iov[sk.entry + 1].base = sk.iov[sk.entry].base + sk.iov[sk.entry].len
    BY <1>4, <2>1 DEF IovOK
  <2>3. sk.iov[entry].base = Len(wire')
    BY <1>4, <1>9, <2>1, <2>2
  <2>4. entry \in sk.index..Len(sk.iov)
    BY <1>1, <1>5, <2>1, SMTT(30)
  <2>5. QED
    BY <2>3, <2>4
<1>19. Len(wire') <= sk.length
  <2>1. sk.iov[sk.entry].base + sk.iov[sk.entry].len <= sk.length
    BY <1>4 DEF IovOK
  <2> DEFINE b == sk.iov[sk.entry].base
             l == sk.iov[sk.entry].len
  <2>2. b \in Nat /\ l \in Nat /\ b + l <= sk.length /\ Len(wire') = b + m /\ m <= l
    BY <1>4, <1>6, <1>7, <1>9, <2>1
  <2> HIDE DEF b, l
  <2>3. QED
    BY <1>1, <1>7, <2>2
<1>b. pc = "written" /\ n = 0 => Len(wire') = sk.length
  <2> SUFFICES ASSUME pc = "written", n = 0
               PROVE  Len(wire') = sk.length
    OBVIOUS
  <2>1. ~more /\ m = 0 /\ sk.n + m = 0
    BY <1>1, <1>7 DEF n, pc
  <2>2. \A e \in sk.entry..Len(sk.iov) : sk.iov[e].len = 0
    BY <1>3, <2>1
  <2>3. sk.iov[sk.entry].base = sk.length
    BY <1>1, <1>4, <2>2, EmptyRest
  <2>4. QED
    BY <1>1, <1>4, <1>9, <2>1, <2>3
<1>17. SendOK'
  <2>1. wire' = Segment(0, Len(wire')) /\ Len(wire') = sk'.done + sk'.n
    BY <1>9, <1>13, <1>14
  <2>2. QED
    BY <1>2, <1>10, <1>14, <1>19, <1>b, <2>1 DEF SendOK, Segment
<1>20. WritevOK'
  <2>1. IovOK(sk'.iov, sk'.index, sk'.length)
    BY <1>4, <1>14
  <2>2. sk'.index <= Len(sk'.iov) /\ sk'.iov[sk'.index].base = sk'.done
    BY <1>4, <1>14
  <2>3. /\ sk'.pc = "kernel" => /\ sk'.entry \in sk'.index..Len(sk'.iov)
                                /\ sk'.iov[sk'.entry].base = Len(wire')
        /\ Len(wire') <= sk'.length /\ sk'.pc # "for"
    BY <1>10, <1>14, <1>18, <1>19
  <2>4. QED
    BY <2>1, <2>2, <2>3 DEF WritevOK, IovOK, Bytes
<1>21. QED
  BY <1>15, <1>16, <1>17, <1>20 DEF SockInv

LEMMA WrittenStep == SockInv /\ Written => SockInv'
<1> SUFFICES ASSUME SockInv, Written
             PROVE  SockInv'
  OBVIOUS
<1>1. /\ sk \in SkRecords /\ sk.n \in Nat /\ sk.done \in Nat /\ sk.index \in Nat \ {0} /\ sk.iov \in Seq(IovEntries)
      /\ eof \in BOOLEAN
  BY DEF SockInv, SockTypeOK, SkRecords
<1>2. sk.pc = "written" /\ sk.call = "writev" /\ UNCHANGED <<eof, stream, wire>>
  BY DEF Written, SockInv, SockTypeOK
<1>3. CASE sk.n = 0
  <2>1. Len(wire) = sk.length
    BY <1>2, <1>3 DEF SockInv, SendOK, Sends
  <2>2. Returns(0)
    BY <1>3 DEF Written
  <2>3. QED
    BY <1>1, <1>2, <2>1, <2>2, ReturnsNothing
<1>4. CASE sk.n # 0
  <2> DEFINE done == sk.done + sk.n
  <2>1. sk' = [sk EXCEPT !.pc = "for", !.done = done] /\ done \in Nat
    BY <1>1, <1>4 DEF Written
  <2>2. Len(wire) = done
    BY <1>2 DEF SockInv, SendOK, Sends
  <2>3. /\ IovOK(sk.iov, sk.index, sk.length) /\ sk.index <= Len(sk.iov)
        /\ sk.iov[sk.index].base + sk.n = done /\ Len(wire) <= sk.length
    BY <1>2 DEF SockInv, WritevOK
  <2> HIDE DEF done
  <2>4. /\ sk' \in SkRecords /\ sk'.pc = "for" /\ sk'.done = done
        /\ sk'.call = sk.call /\ sk'.iov = sk.iov /\ sk'.index = sk.index
        /\ sk'.length = sk.length /\ sk'.n = sk.n
    BY <1>1, <2>1 DEF SkRecords
  <2>5. SockTypeOK'
    BY <1>2, <2>4 DEF SockInv, SockTypeOK
  <2>6. ReadOK'
    BY <1>2, <2>4 DEF ReadOK, Reads
  <2>7. SendOK'
    BY <1>2, <2>2, <2>4 DEF SockInv, SendOK, Segment
  <2>8. WritevOK'
    BY <1>2, <2>2, <2>3, <2>4 DEF WritevOK, IovOK, Bytes
  <2>9. QED
    BY <2>5, <2>6, <2>7, <2>8 DEF SockInv
<1>5. QED
  BY <1>3, <1>4

(* Passing an entry and cutting one leave the array's rest with the same   *)
(* first byte.                                                             *)
LEMMA PassesOrCutsStep == SockInv /\ PassesOrCuts => SockInv'
<1> SUFFICES ASSUME SockInv, PassesOrCuts
             PROVE  SockInv'
  OBVIOUS
<1>1. /\ sk \in SkRecords /\ sk.n \in Nat /\ sk.done \in Nat /\ sk.index \in Nat \ {0} /\ sk.iov \in Seq(IovEntries)
      /\ sk.length \in Nat /\ Len(wire) \in Nat /\ Len(sk.iov) \in Nat
  BY DEF SockInv, SockTypeOK, SkRecords
<1>2. /\ sk.pc = "for" /\ sk.call = "writev" /\ UNCHANGED <<eof, stream, wire>>
      /\ sk.index <= Len(sk.iov) /\ sk.n > 0
  BY DEF PassesOrCuts, SockInv, SockTypeOK
<1>3. /\ IovOK(sk.iov, sk.index, sk.length) /\ Len(wire) <= sk.length
      /\ sk.iov[sk.index].base + sk.n = Len(wire)
  BY <1>2 DEF SockInv, WritevOK
<1>4. Len(wire) = sk.done /\ wire = Segment(0, Len(wire))
  BY <1>2 DEF SockInv, SendOK, Sends
<1>5. sk.index \in 1..Len(sk.iov) /\ sk.index \in sk.index..Len(sk.iov)
  BY <1>1, <1>2
<1>6. sk.iov[sk.index].base \in Nat /\ sk.iov[sk.index].len \in Nat
  <2>1. sk.iov[sk.index] \in IovEntries
    BY <1>1, <1>5, ElementOfSeq
  <2>2. QED
    BY <2>1 DEF IovEntries
<1>7. CASE sk.n < sk.iov[sk.index].len
  <2> DEFINE cut == [base |-> sk.iov[sk.index].base + sk.n, len |-> sk.iov[sk.index].len - sk.n]
             iov == [sk.iov EXCEPT ![sk.index] = cut]
  <2>1. /\ cut \in IovEntries /\ cut.base + cut.len = sk.iov[sk.index].base + sk.iov[sk.index].len
        /\ cut.base = Len(wire)
    <3> DEFINE b == sk.iov[sk.index].base
               l == sk.iov[sk.index].len
    <3>1. b \in Nat /\ l \in Nat /\ sk.n \in Nat /\ sk.n < l
      BY <1>1, <1>6, <1>7
    <3>2. b + sk.n = Len(wire)
      BY <1>3
    <3> HIDE DEF b, l
    <3>3. b + sk.n \in Nat /\ l - sk.n \in Nat /\ (b + sk.n) + (l - sk.n) = b + l
      BY <3>1
    <3>4. cut = [base |-> b + sk.n, len |-> l - sk.n]
      BY DEF b, l
    <3>5. cut \in IovEntries /\ cut.base = b + sk.n /\ cut.len = l - sk.n
      BY <3>3, <3>4 DEF IovEntries
    <3> HIDE DEF cut
    <3>6. cut.base + cut.len = b + l /\ cut.base = Len(wire)
      BY <3>2, <3>3, <3>5
    <3>7. QED
      BY <3>5, <3>6 DEF b, l
  <2>2. sk' = [sk EXCEPT !.iov = iov, !.n = 0]
    BY <1>1, <1>7 DEF PassesOrCuts, SkRecords
  <2> HIDE DEF cut
  <2>3. /\ iov \in Seq(IovEntries) /\ Len(iov) = Len(sk.iov) /\ iov[sk.index] = cut
        /\ \A i \in 1..Len(sk.iov) : i # sk.index => iov[i] = sk.iov[i]
    BY <1>1, <1>5, <2>1
  <2> HIDE DEF iov
  <2>4. /\ sk' \in SkRecords /\ sk'.pc = "for" /\ sk'.done = sk.done
        /\ sk'.call = sk.call /\ sk'.iov = iov /\ sk'.index = sk.index
        /\ sk'.length = sk.length /\ sk'.n = 0
    BY <1>1, <1>2, <2>2, <2>3 DEF SkRecords
  <2>5. SockTypeOK'
    BY <1>2, <2>4 DEF SockInv, SockTypeOK
  <2>6. ReadOK'
    BY <1>2, <2>4 DEF ReadOK, Reads
  <2>7. SendOK'
    <3>1. Len(wire') <= sk'.length /\ Len(wire') = sk'.done /\ wire' = Segment(0, Len(wire'))
      BY <1>2, <1>3, <1>4, <2>4
    <3>2. QED
      BY <1>2, <2>4, <3>1 DEF SendOK, Segment
  <2>8. \A i \in sk.index..Len(sk.iov) : iov[i].base + iov[i].len = sk.iov[i].base + sk.iov[i].len
    <3> TAKE i \in sk.index..Len(sk.iov)
    <3>1. i \in 1..Len(sk.iov)
      BY <1>1
    <3>2. CASE i = sk.index
      BY <2>1, <2>3, <3>2
    <3>3. CASE i # sk.index
      BY <2>3, <3>1, <3>3
    <3>4. QED
      BY <3>2, <3>3
  <2>9. IovOK(iov, sk.index, sk.length)
    <3>1. iov # <<>>
      BY <1>5, <2>3
    <3>2. Bytes(iov) = sk.length
      <4>1. Len(sk.iov) \in sk.index..Len(sk.iov)
        BY <1>1, <1>2
      <4>2. Bytes(sk.iov) = sk.length
        BY <1>3 DEF IovOK
      <4>3. QED
        BY <2>3, <2>8, <4>1, <4>2 DEF Bytes
    <3>3. ASSUME NEW i \in sk.index..Len(iov) - 1
          PROVE  iov[i + 1].base = iov[i].base + iov[i].len
      <4>1. i \in sk.index..Len(sk.iov) /\ i + 1 \in 1..Len(sk.iov) /\ i + 1 # sk.index /\ i \in sk.index..Len(sk.iov) - 1
        BY <1>1, <2>3
      <4>2. iov[i + 1].base = sk.iov[i + 1].base
        BY <2>3, <4>1
      <4>3. sk.iov[i + 1].base = sk.iov[i].base + sk.iov[i].len
        BY <1>3, <4>1 DEF IovOK
      <4>4. QED
        BY <2>8, <4>1, <4>2, <4>3
    <3>4. \A i \in sk.index..Len(iov) : iov[i].base + iov[i].len <= sk.length
      BY <1>3, <2>3, <2>8 DEF IovOK
    <3>5. QED
      BY <3>1, <3>2, <3>3, <3>4 DEF IovOK
  <2>10. iov[sk.index].base + 0 = Len(wire)
    BY <1>1, <2>1, <2>3
  <2>11. WritevOK'
    <3>1. IovOK(sk'.iov, sk'.index, sk'.length)
      BY <2>4, <2>9
    <3>2. sk'.index <= Len(sk'.iov) /\ sk'.iov[sk'.index].base + sk'.n = Len(wire') /\ Len(wire') <= sk'.length
      BY <1>2, <1>3, <2>3, <2>4, <2>10
    <3>3. QED
      BY <2>4, <3>1, <3>2 DEF WritevOK, IovOK, Bytes
  <2>12. QED
    BY <2>5, <2>6, <2>7, <2>11 DEF SockInv
<1>8. CASE ~(sk.n < sk.iov[sk.index].len)
  <2> DEFINE n == sk.n - sk.iov[sk.index].len
             index == sk.index + 1
  <2>1. n \in Nat /\ index \in Nat \ {0}
    BY <1>1, <1>6, <1>8
  <2>2. sk' = [sk EXCEPT !.n = n, !.index = index]
    BY <1>1, <1>8 DEF PassesOrCuts, SkRecords
  <2>3. sk.iov[sk.index].base + sk.iov[sk.index].len + n = Len(wire)
    <3> DEFINE b == sk.iov[sk.index].base
               l == sk.iov[sk.index].len
    <3>1. b \in Nat /\ l \in Nat /\ sk.n \in Nat /\ b + sk.n = Len(wire) /\ n = sk.n - l
      BY <1>1, <1>3, <1>6
    <3> HIDE DEF b, l, n
    <3>2. b + l + n = Len(wire)
      BY <3>1
    <3>3. QED
      BY <3>2 DEF b, l
  <2>4. IovOK(sk.iov, index, sk.length)
    <3>1. /\ \A i \in index..Len(sk.iov) - 1 : i \in sk.index..Len(sk.iov) - 1
          /\ \A i \in index..Len(sk.iov) : i \in sk.index..Len(sk.iov)
      BY <1>1
    <3>2. QED
      BY <1>3, <3>1 DEF IovOK
  <2>5. IF index <= Len(sk.iov) THEN sk.iov[index].base + n = Len(wire)
        ELSE sk.length + n = Len(wire)
    <3>1. CASE index <= Len(sk.iov)
      <4>1. sk.index \in sk.index..Len(sk.iov) - 1
        BY <1>1, <3>1
      <4>2. sk.iov[sk.index + 1].base = sk.iov[sk.index].base + sk.iov[sk.index].len
        BY <1>3, <4>1 DEF IovOK
      <4>3. QED
        BY <2>3, <3>1, <4>2
    <3>2. CASE ~(index <= Len(sk.iov))
      <4>1. sk.index = Len(sk.iov)
        BY <1>1, <1>2, <3>2
      <4>2. sk.iov[sk.index].base + sk.iov[sk.index].len = sk.length
        BY <1>3, <4>1 DEF IovOK, Bytes
      <4>3. QED
        BY <2>3, <3>2, <4>2
    <3>3. QED
      BY <3>1, <3>2
  <2> HIDE DEF n, index
  <2>6. /\ sk' \in SkRecords /\ sk'.pc = "for" /\ sk'.done = sk.done
        /\ sk'.call = sk.call /\ sk'.iov = sk.iov /\ sk'.index = index
        /\ sk'.length = sk.length /\ sk'.n = n
    BY <1>1, <1>2, <2>1, <2>2 DEF SkRecords
  <2>7. SockTypeOK'
    BY <1>2, <2>6 DEF SockInv, SockTypeOK
  <2>8. ReadOK'
    BY <1>2, <2>6 DEF ReadOK, Reads
  <2>9. SendOK'
    <3>1. Len(wire') <= sk'.length /\ Len(wire') = sk'.done /\ wire' = Segment(0, Len(wire'))
      BY <1>2, <1>3, <1>4, <2>6
    <3>2. QED
      BY <1>2, <2>6, <3>1 DEF SendOK, Segment
  <2>10. WritevOK'
    <3>1. IovOK(sk'.iov, sk'.index, sk'.length)
      BY <2>4, <2>6
    <3>2. /\ Len(wire') <= sk'.length
          /\ IF sk'.index <= Len(sk'.iov) THEN sk'.iov[sk'.index].base + sk'.n = Len(wire')
             ELSE sk'.length + sk'.n = Len(wire')
      BY <1>2, <1>3, <2>5, <2>6
    <3>3. QED
      BY <2>6, <3>1, <3>2 DEF WritevOK, IovOK, Bytes
  <2>11. QED
    BY <2>7, <2>8, <2>9, <2>10 DEF SockInv
<1>9. QED
  BY <1>7, <1>8

(* After the for loop the array begins where the wire ends.                *)
LEMMA ForEndsStep == SockInv /\ ForEnds => SockInv'
<1> SUFFICES ASSUME SockInv, ForEnds
             PROVE  SockInv'
  OBVIOUS
<1>1. /\ sk \in SkRecords /\ sk.n \in Nat /\ sk.done \in Nat /\ sk.index \in Nat \ {0} /\ sk.iov \in Seq(IovEntries)
      /\ sk.length \in Nat /\ Len(wire) \in Nat /\ Len(sk.iov) \in Nat
  BY DEF SockInv, SockTypeOK, SkRecords
<1>2. /\ sk.pc = "for" /\ sk.call = "writev" /\ UNCHANGED <<eof, stream, wire>>
      /\ sk.index > Len(sk.iov) \/ sk.n = 0
  BY DEF ForEnds, SockInv, SockTypeOK
<1>3. /\ IovOK(sk.iov, sk.index, sk.length) /\ Len(wire) <= sk.length
      /\ IF sk.index <= Len(sk.iov) THEN sk.iov[sk.index].base + sk.n = Len(wire)
         ELSE sk.length + sk.n = Len(wire)
  BY <1>2 DEF SockInv, WritevOK
<1>4. Len(wire) = sk.done /\ wire = Segment(0, Len(wire))
  BY <1>2 DEF SockInv, SendOK, Sends
<1>5. CASE sk.index > Len(sk.iov)
  <2> DEFINE ret == sk.done
  <2>1. sk' = [sk EXCEPT !.pc = "ret", !.ret = ret]
    BY <1>5 DEF ForEnds, Returns
  <2>2. ret \in Int /\ ret = Len(wire) /\ ret = sk.length
    BY <1>1, <1>3, <1>4, <1>5
  <2> HIDE DEF ret
  <2>3. /\ sk' \in SkRecords /\ sk'.pc = "ret" /\ sk'.ret = ret /\ sk'.call = sk.call
        /\ sk'.length = sk.length
    BY <1>1, <2>1, <2>2 DEF SkRecords
  <2>4. SockTypeOK'
    BY <1>2, <2>3 DEF SockInv, SockTypeOK
  <2>5. SendOK'
    BY <1>2, <1>4, <2>2, <2>3 DEF SendOK, Segment
  <2>6. ReadOK' /\ WritevOK'
    BY <1>2, <2>3 DEF ReadOK, WritevOK, Reads
  <2>7. QED
    BY <2>4, <2>5, <2>6 DEF SockInv
<1>6. CASE ~(sk.index > Len(sk.iov))
  <2>1. sk' = [sk EXCEPT !.pc = "loop"]
    BY <1>6 DEF ForEnds
  <2>2. /\ sk' \in SkRecords /\ sk'.pc = "loop" /\ sk'.call = sk.call /\ sk'.done = sk.done
        /\ sk'.length = sk.length /\ sk'.iov = sk.iov /\ sk'.index = sk.index
    BY <1>1, <2>1 DEF SkRecords
  <2>3. SockTypeOK'
    BY <1>2, <2>2 DEF SockInv, SockTypeOK
  <2>4. SendOK'
    <3>1. Len(wire') <= sk'.length /\ Len(wire') = sk'.done /\ wire' = Segment(0, Len(wire'))
      BY <1>2, <1>3, <1>4, <2>2
    <3>2. QED
      BY <1>2, <2>2, <3>1 DEF SendOK, Segment
  <2>5. ReadOK'
    BY <1>2, <2>2 DEF ReadOK, Reads
  <2>6. sk.index <= Len(sk.iov) /\ sk.iov[sk.index].base = sk.done
    <3>1. sk.index \in 1..Len(sk.iov) /\ sk.n = 0 /\ sk.index <= Len(sk.iov)
      BY <1>1, <1>2, <1>6
    <3>2. sk.iov[sk.index].base \in Nat
      <4>1. sk.iov[sk.index] \in IovEntries
        BY <1>1, <3>1, ElementOfSeq
      <4>2. QED
        BY <4>1 DEF IovEntries
    <3>3. QED
      BY <1>1, <1>3, <1>4, <3>1, <3>2
  <2>7. WritevOK'
    BY <1>2, <1>3, <2>2, <2>6 DEF WritevOK, IovOK, Bytes
  <2>8. QED
    BY <2>3, <2>4, <2>5, <2>7 DEF SockInv
<1>7. QED
  BY <1>5, <1>6

LEMMA ResumesStep == SockInv /\ Resumes => SockInv'
<1> SUFFICES ASSUME SockInv, Resumes
             PROVE  SockInv'
  OBVIOUS
<1>1. PICK hup \in BOOLEAN :
        /\ sk.pc = "wait" /\ eof' = (eof \/ hup) /\ UNCHANGED <<stream, wire>>
        /\ IF sk.call = "wait" THEN Returns(IF eof' THEN -1 ELSE 0) ELSE sk' = [sk EXCEPT !.pc = "loop"]
  BY DEF Resumes
<1>2. eof' \in BOOLEAN
  BY <1>1
<1>3. QED
  BY <1>1, <1>2, ReturnsNothing, WaitsOrGoesOn DEF Sends

LEMMA DoneStep == SockInv /\ Done => SockInv'
<1> SUFFICES ASSUME SockInv, Done
             PROVE  SockInv'
  OBVIOUS
<1>1. sk' = Idle /\ wire' = <<>> /\ UNCHANGED <<eof, stream>>
  BY DEF Done
<1>2. Idle \in SkRecords /\ Idle.pc = "idle" /\ Idle.call = "recv"
  BY DEF Idle, SkRecords, Calls, Reads
<1>3. SockTypeOK'
  BY <1>1, <1>2 DEF SockInv, SockTypeOK
<1>4. <<>> = Segment(0, Len(<<>>))
  BY DEF Segment
<1>5. ReadOK' /\ WritevOK'
  BY <1>1, <1>2 DEF ReadOK, WritevOK
<1>6. SendOK'
  BY <1>1, <1>2, <1>4 DEF SendOK, Sends, Segment
<1>7. QED
  BY <1>3, <1>5, <1>6 DEF SockInv

LEMMA PeerStep == SockInv /\ Peer => SockInv'
<1> SUFFICES ASSUME SockInv, Peer
             PROVE  SockInv'
  OBVIOUS
<1>1. stream \in [sent : Nat, taken : Nat, closed : BOOLEAN]
  BY DEF SockInv, SockTypeOK
<1>2. /\ stream' \in [sent : Nat, taken : Nat, closed : BOOLEAN]
      /\ stream'.taken = stream.taken /\ (stream.closed => stream'.closed)
      /\ UNCHANGED <<sk, eof, wire>>
  <2>1. stream.sent + 1 \in Nat
    BY <1>1
  <2>2. CASE stream' = [stream EXCEPT !.sent = @ + 1]
    BY <1>1, <2>1, <2>2 DEF Peer
  <2>3. CASE stream' = [stream EXCEPT !.closed = TRUE]
    BY <1>1, <2>3 DEF Peer
  <2>4. QED
    BY <2>2, <2>3 DEF Peer
<1>3. SockTypeOK'
  BY <1>2 DEF SockInv, SockTypeOK
<1>4. ReadOK'
  BY <1>2 DEF SockInv, ReadOK, Segment
<1>5. SendOK' /\ WritevOK'
  BY <1>2 DEF SockInv, SendOK, WritevOK, Segment, IovOK, Bytes
<1>6. QED
  BY <1>3, <1>4, <1>5 DEF SockInv

(* The invariant of a socket call holds for any stream, any lengths and    *)
(* any arrays of entries.                                                  *)
THEOREM SockInvariance == SockSpec => []SockInv
<1>1. SockInit => SockInv
  <2> SUFFICES ASSUME SockInit
               PROVE  SockInv
    OBVIOUS
  <2>1. Idle \in SkRecords /\ Idle.pc = "idle" /\ Idle.call = "recv"
    BY DEF Idle, SkRecords, Calls, Reads
  <2>2. <<>> = Segment(0, Len(<<>>))
    BY DEF Segment
  <2>3. SockTypeOK
    <3>1. stream = [sent |-> 0, taken |-> 0, closed |-> FALSE] /\ eof = FALSE
      BY DEF SockInit
    <3>a. 0 \in Nat /\ FALSE \in BOOLEAN
      OBVIOUS
    <3>b. stream \in [sent : Nat, taken : Nat, closed : BOOLEAN]
      BY <3>1, <3>a
    <3>c. eof \in BOOLEAN
      BY <3>1
    <3>2. QED
      BY <2>1, <3>b, <3>c DEF SockInit, SockTypeOK
  <2>4. ReadOK /\ SendOK /\ WritevOK
    BY <2>1, <2>2 DEF SockInit, ReadOK, SendOK, WritevOK, Sends
  <2>5. QED
    BY <2>3, <2>4 DEF SockInv
<1>2. SockInv /\ [SockNext]_sockVars => SockInv'
  <2> SUFFICES ASSUME SockInv, [SockNext]_sockVars
               PROVE  SockInv'
    OBVIOUS
  <2>0. eof \in BOOLEAN
    BY DEF SockInv, SockTypeOK
  <2>1. CASE Call
    BY <2>1, CallStep
  <2>2. CASE SeesEof
    <3>1. PICK r \in {0, -1} : Returns(r) /\ (r = 0 => sk.call \in Reads)
      BY <2>2 DEF SeesEof
    <3>2. sk.pc = "loop" /\ UNCHANGED <<eof, stream, wire>>
      BY <2>2 DEF SeesEof
    <3>3. sk.call \in Sends /\ r = 0 => Len(wire) = sk.length
      BY <3>1 DEF Reads, Sends
    <3>4. QED
      BY <2>0, <3>1, <3>2, <3>3, ReturnsNothing
  <2>3. CASE Again
    BY <2>0, <2>3, WaitsOrGoesOn DEF Again, Tries
  <2>4. CASE Fails
    BY <2>0, <2>4, ReturnsNothing DEF Fails, Tries
  <2>5. CASE Receives
    BY <2>5, ReceivesStep
  <2>6. CASE ReceivesEnd
    BY <2>6, ReceivesEndStep
  <2>7. CASE SendsPart
    BY <2>7, SendsPartStep
  <2>8. CASE Writes
    BY <2>8, WritesStep
  <2>9. CASE Gathers
    BY <2>9, GathersStep
  <2>10. CASE Written
    BY <2>10, WrittenStep
  <2>11. CASE PassesOrCuts
    BY <2>11, PassesOrCutsStep
  <2>12. CASE ForEnds
    BY <2>12, ForEndsStep
  <2>13. CASE Connects
    BY <2>0, <2>13, ReturnsNothing DEF Connects, Tries, Sends
  <2>14. CASE Resumes
    BY <2>14, ResumesStep
  <2>15. CASE Expires
    BY <2>0, <2>15, ReturnsNothing DEF Expires
  <2>16. CASE Done
    BY <2>16, DoneStep
  <2>17. CASE Peer
    BY <2>17, PeerStep
  <2>18. CASE UNCHANGED sockVars
    BY <2>18 DEF SockInv, SockTypeOK, ReadOK, SendOK, WritevOK, Segment, IovOK, Bytes, sockVars
  <2>19. QED
    BY <2>1, <2>2, <2>3, <2>4, <2>5, <2>6, <2>7, <2>8, <2>9, <2>10, <2>11, <2>12, <2>13, <2>14,
       <2>15, <2>16, <2>17, <2>18 DEF SockNext
<1>3. QED
  BY <1>1, <1>2, PTL DEF SockSpec

(* lthread_socket.c: whatever parts the kernel takes or gives, the buffer  *)
(* of a call that reads holds the bytes that came next in the stream, and  *)
(* what a call that sends has sent is the beginning of its message.  A     *)
(* number above 0 is that of the bytes received or sent; a recv or sendmsg *)
(* without one has moved none; a send that returns 0 has sent everything.  *)
THEOREM StreamsInOrderHolds == SockSpec => []StreamsInOrder
<1>1. SockInv => StreamsInOrder
  BY SockInvProperty
<1>2. QED
  BY <1>1, SockInvariance, PTL
=============================================================================
