-------------------------- MODULE SyncServerProofs --------------------------
(***************************************************************************)
(* Proofs about SyncServer, for any number of schedulers, connections and  *)
(* descriptors: type correctness, that every lthread is resumed once, that *)
(* waiters match and have an armed registration, that descriptors are      *)
(* owned, and that a scheduler that is done has nothing left.  ServerInv   *)
(* says of each list and tree whom it may hold, and of each lthread that   *)
(* it is in one of them.                                                   *)
(***************************************************************************)
EXTENDS SyncServer, FiniteSetTheorems, TLAPS

InSeq(x, q) == \E i \in 1..Len(q) : q[i] = x
Distinct(q) == \A i, j \in 1..Len(q) : q[i] = q[j] => i = j

(* The handler of k has been created and has not returned. *)
Handles(k) == hpc[k] \notin {"none", "gone"}

(* Scheduler s waits for an event of x. *)
Waits(s, x) == \E w \in waiting[s] : w.lt = x

(* The pthread of s: whom it runs, and when it is at an event. *)
PcOK == \A s \in Scheds :
  /\ spc[s] = "run" <=> cur[s] # None
  /\ cur[s] \in Scheds => cur[s] = s /\ lpc[s] # "gone"
  /\ cur[s] \in Conns => hsched[cur[s]] = s /\ Handles(cur[s])
  /\ evfd[s] # None <=> spc[s] = "write" \/ (spc[s] = "run" /\ loop[s] = "write")
  /\ events[s] # {} =>
       spc[s] \in {"events", "write"} \/ (spc[s] = "run" /\ loop[s] \in {"events", "write"})

ReadyOK == \A s \in Scheds :
  /\ Distinct(ready[s])
  /\ \A x \in Threads : InSeq(x, ready[s]) =>
       /\ cur[s] # x /\ x \notin busy[s] /\ ~Waits(s, x)
       /\ x \in Scheds => x = s /\ lpc[s] \in {"check", "accept"}
       /\ x \in Conns => hsched[x] = s /\ hpc[x] = "start"

WaitingOK == \A s \in Scheds : \A w \in waiting[s] :
  /\ cur[s] # w.lt /\ w.lt \notin busy[s]
  /\ w.lt \in Scheds =>
       w.lt = s /\ w.fd = Listen /\ w.ev = "read" /\ lpc[s] = "renice"
  /\ w.lt \in Conns =>
       /\ hsched[w.lt] = s /\ w.fd = hfd[w.lt]
       /\ w.ev = "read" => hpc[w.lt] = "recv"
       /\ w.ev = "write" => hpc[w.lt] = "send"

BusyOK == \A s \in Scheds :
  /\ \A x \in busy[s] :
       /\ cur[s] # x
       /\ x \in Scheds => x = s /\ lpc[s] = "return"
       /\ x \in Conns => hsched[x] = s /\ hpc[x] = "return"
  /\ Distinct(defer[s])
  /\ \A x \in Threads : InSeq(x, defer[s]) => x \in busy[s]

SleepingOK == \A s \in Scheds : \A k \in sleeping[s] :
  Waits(s, k) /\ hpc[k] = "recv"

(* Nobody that is alive is forgotten. *)
KeptOK ==
  /\ \A s \in Scheds : lpc[s] # "gone" =>
       InSeq(s, ready[s]) \/ Waits(s, s) \/ s \in busy[s] \/ cur[s] = s
  /\ \A k \in Conns : Handles(k) =>
       /\ hsched[k] \in Scheds
       /\ \/ InSeq(k, ready[hsched[k]]) \/ Waits(hsched[k], k)
          \/ k \in busy[hsched[k]] \/ cur[hsched[k]] = k

FdOK ==
  /\ \A k \in Conns : Handles(k) => hfd[k] \in Fds /\ fdtab[hfd[k]] = k
  /\ \A f \in Fds : fdtab[f] # None =>
       \/ Handles(fdtab[f]) /\ hfd[fdtab[f]] = f
       \/ conn[fdtab[f]] = "leaked"

ConnOK ==
  /\ Distinct(backlog)
  /\ \A k \in Conns :
       /\ InSeq(k, backlog) <=> conn[k] = "backlog"
       /\ Handles(k) <=> conn[k] \in {"accepted", "answered"}
       /\ conn[k] \in {"idle", "backlog"} => hpc[k] = "none"

(* The event at hand has woken its reader and has yet to wake its writer.   *)
ArmedOK == \A s \in Scheds : \A w \in waiting[s] :
  \/ [fd |-> w.fd, ev |-> w.ev] \in armed[s]
  \/ \E e \in events[s] : e.fd = w.fd
  \/ evfd[s] # None /\ evfd[s].fd = w.fd /\ w.ev = "write"

DoneOK == \A s \in Scheds : spc[s] = "done" =>
  /\ lpc[s] = "gone"
  /\ \A k \in Conns : hsched[k] = s => ~Handles(k)

ServerInv ==
  /\ TypeOK /\ PcOK /\ ReadyOK /\ WaitingOK /\ BusyOK /\ SleepingOK
  /\ KeptOK /\ FdOK /\ ConnOK /\ ArmedOK /\ DoneOK

-----------------------------------------------------------------------------
(* Membership and distinctness through the operations on a queue.           *)

LEMMA EmptyFacts ==
  ASSUME NEW x
  PROVE  ~InSeq(x, <<>>) /\ Distinct(<<>>)
BY DEF InSeq, Distinct

LEMMA OneFacts ==
  ASSUME NEW S, NEW y \in S
  PROVE  /\ <<y>> \in Seq(S) /\ Distinct(<<y>>)
         /\ \A x : InSeq(x, <<y>>) <=> x = y
BY DEF InSeq, Distinct

LEMMA HeadFacts ==
  ASSUME NEW S, NEW q \in Seq(S), q # <<>>
  PROVE  /\ Head(q) \in S
         /\ Tail(q) \in Seq(S)
         /\ InSeq(Head(q), q)
         /\ \A x : InSeq(x, q) <=> x = Head(q) \/ InSeq(x, Tail(q))
         /\ Distinct(q) => Distinct(Tail(q)) /\ ~InSeq(Head(q), Tail(q))
BY DEF InSeq, Distinct

LEMMA AppendFacts ==
  ASSUME NEW S, NEW q \in Seq(S), NEW y \in S
  PROVE  /\ Append(q, y) \in Seq(S)
         /\ \A x : InSeq(x, Append(q, y)) <=> x = y \/ InSeq(x, q)
         /\ Distinct(q) /\ ~InSeq(y, q) => Distinct(Append(q, y))
BY DEF InSeq, Distinct

(* Nobody is woken: lthread_close() adds nothing to ready. *)
LEMMA NobodyFacts ==
  ASSUME NEW S, NEW q \in Seq(S)
  PROVE  q \o SetToSeq({}) = q
<1>1. Cardinality({}) = 0 BY FS_EmptySet
<1> DEFINE F == {f \in [1..Cardinality({}) -> {}] : IsInjective(f)}
<1>2. <<>> \in F BY <1>1 DEF IsInjective
<1>3. SetToSeq({}) \in F BY <1>2 DEF SetToSeq
<1>4. SetToSeq({}) = <<>> BY <1>1, <1>3
<1> QED BY <1>4

(* ArmedOK asks nothing else. *)
LEMMA ArmedFrame ==
  ASSUME ArmedOK, UNCHANGED <<waiting, armed, events, evfd>>
  PROVE  ArmedOK'
BY DEF ArmedOK

(* What the leaves need of the types. *)
LEMMA Types ==
  ASSUME ServerInv
  PROVE  /\ spc \in [Scheds -> {"expire", "ready", "run", "defer", "poll",
                                "events", "write", "done"}]
         /\ cur \in [Scheds -> Threads \cup {None}]
         /\ loop \in [Scheds -> {"expire", "ready", "defer", "write", "events"}]
         /\ busy \in [Scheds -> SUBSET Threads]
         /\ sleeping \in [Scheds -> SUBSET Conns]
         /\ DOMAIN ready = Scheds /\ DOMAIN defer = Scheds /\ DOMAIN waiting = Scheds
         /\ DOMAIN armed = Scheds /\ DOMAIN events = Scheds /\ DOMAIN evfd = Scheds
         /\ DOMAIN lpc = Scheds /\ DOMAIN hpc = Conns /\ DOMAIN fdtab = Fds
         /\ DOMAIN hsched = Conns /\ DOMAIN hfd = Conns /\ DOMAIN conn = Conns
         /\ \A s \in Scheds : \A w \in waiting[s] : w.lt \in Threads
BY DEF ServerInv, TypeOK

-----------------------------------------------------------------------------
(* The steps of lthread_run().                                              *)

LEMMA ExpireDoneStep ==
  ASSUME ServerInv, NEW s \in Scheds, ExpireDone(s)
  PROVE  ServerInv'
<1> USE ThreadsAssumption, NoneAssumption DEF kernelVars, clientVars, pthreadVars, listVars,
          waitVars, eventVars, listenerVars, handlerVars
<1>1. TypeOK'
  BY NiceOpsAssumption, MaxFaultsAssumption DEF ServerInv, TypeOK, ExpireDone, Goto,
     Threads, pthreadVars, listVars, waitVars, eventVars, listenerVars, handlerVars,
     kernelVars, clientVars
<1>2. PcOK'
  BY Types DEF ServerInv, PcOK, ExpireDone, Goto, Handles, Threads, pthreadVars,
     listVars, waitVars, eventVars, listenerVars, handlerVars, kernelVars, clientVars
<1>3. ReadyOK'
  BY Types DEF ServerInv, ReadyOK, PcOK, WaitingOK, BusyOK, ExpireDone, Goto, Waits,
     Handles, Threads, pthreadVars, listVars, waitVars, eventVars, listenerVars,
     handlerVars, kernelVars, clientVars
<1>4. WaitingOK'
  BY Types DEF ServerInv, WaitingOK, PcOK, ReadyOK, BusyOK, FdOK, ExpireDone, Goto,
     Waits, Handles, Threads, pthreadVars, listVars, waitVars, eventVars, listenerVars,
     handlerVars, kernelVars, clientVars
<1>5. BusyOK'
  BY Types DEF ServerInv, BusyOK, PcOK, ReadyOK, WaitingOK, ExpireDone, Goto, Waits,
     Handles, Threads, pthreadVars, listVars, waitVars, eventVars, listenerVars,
     handlerVars, kernelVars, clientVars
<1>6. SleepingOK'
  BY Types DEF ServerInv, SleepingOK, PcOK, WaitingOK, ExpireDone, Goto, Waits,
     Handles, Threads, pthreadVars, listVars, waitVars, eventVars, listenerVars,
     handlerVars, kernelVars, clientVars
<1>7. KeptOK'
  BY Types DEF ServerInv, KeptOK, PcOK, ExpireDone, Goto, Waits, Handles, Threads,
     pthreadVars, listVars, waitVars, eventVars, listenerVars, handlerVars, kernelVars,
     clientVars
<1>8. FdOK'
  BY Types DEF ServerInv, FdOK, PcOK, ExpireDone, Goto, Handles, Threads, pthreadVars,
     listVars, waitVars, eventVars, listenerVars, handlerVars, kernelVars, clientVars
<1>9. ConnOK'
  BY Types DEF ServerInv, ConnOK, PcOK, ExpireDone, Goto, Handles, Threads,
     pthreadVars, listVars, waitVars, eventVars, listenerVars, handlerVars, kernelVars,
     clientVars
<1>10. ArmedOK'
  BY ArmedFrame DEF ServerInv, ExpireDone, Goto
<1>11. DoneOK'
  BY Types DEF ServerInv, DoneOK, PcOK, ExpireDone, Goto, Handles, Threads,
     pthreadVars, listVars, waitVars, eventVars, listenerVars, handlerVars, kernelVars,
     clientVars
<1> QED BY <1>1, <1>2, <1>3, <1>4, <1>5, <1>6, <1>7, <1>8, <1>9, <1>10, <1>11 DEF ServerInv

LEMMA ReadyEmptyStep ==
  ASSUME ServerInv, NEW s \in Scheds, ReadyEmpty(s)
  PROVE  ServerInv'
<1> USE ThreadsAssumption, NoneAssumption DEF kernelVars, clientVars, pthreadVars, listVars,
          waitVars, eventVars, listenerVars, handlerVars
<1>1. TypeOK'
  BY NiceOpsAssumption, MaxFaultsAssumption DEF ServerInv, TypeOK, ReadyEmpty, Goto,
     Threads, pthreadVars, listVars, waitVars, eventVars, listenerVars, handlerVars,
     kernelVars, clientVars
<1>2. PcOK'
  BY Types DEF ServerInv, PcOK, ReadyEmpty, Goto, Handles, Threads, pthreadVars,
     listVars, waitVars, eventVars, listenerVars, handlerVars, kernelVars, clientVars
<1>3. ReadyOK'
  BY Types DEF ServerInv, ReadyOK, PcOK, WaitingOK, BusyOK, ReadyEmpty, Goto, Waits,
     Handles, Threads, pthreadVars, listVars, waitVars, eventVars, listenerVars,
     handlerVars, kernelVars, clientVars
<1>4. WaitingOK'
  BY Types DEF ServerInv, WaitingOK, PcOK, ReadyOK, BusyOK, FdOK, ReadyEmpty, Goto,
     Waits, Handles, Threads, pthreadVars, listVars, waitVars, eventVars, listenerVars,
     handlerVars, kernelVars, clientVars
<1>5. BusyOK'
  BY Types DEF ServerInv, BusyOK, PcOK, ReadyOK, WaitingOK, ReadyEmpty, Goto, Waits,
     Handles, Threads, pthreadVars, listVars, waitVars, eventVars, listenerVars,
     handlerVars, kernelVars, clientVars
<1>6. SleepingOK'
  BY Types DEF ServerInv, SleepingOK, PcOK, WaitingOK, ReadyEmpty, Goto, Waits,
     Handles, Threads, pthreadVars, listVars, waitVars, eventVars, listenerVars,
     handlerVars, kernelVars, clientVars
<1>7. KeptOK'
  BY Types DEF ServerInv, KeptOK, PcOK, ReadyEmpty, Goto, Waits, Handles, Threads,
     pthreadVars, listVars, waitVars, eventVars, listenerVars, handlerVars, kernelVars,
     clientVars
<1>8. FdOK'
  BY Types DEF ServerInv, FdOK, PcOK, ReadyEmpty, Goto, Handles, Threads, pthreadVars,
     listVars, waitVars, eventVars, listenerVars, handlerVars, kernelVars, clientVars
<1>9. ConnOK'
  BY Types DEF ServerInv, ConnOK, PcOK, ReadyEmpty, Goto, Handles, Threads,
     pthreadVars, listVars, waitVars, eventVars, listenerVars, handlerVars, kernelVars,
     clientVars
<1>10. ArmedOK'
  BY ArmedFrame DEF ServerInv, ReadyEmpty, Goto
<1>11. DoneOK'
  BY Types DEF ServerInv, DoneOK, PcOK, ReadyEmpty, Goto, Handles, Threads,
     pthreadVars, listVars, waitVars, eventVars, listenerVars, handlerVars, kernelVars,
     clientVars
<1> QED BY <1>1, <1>2, <1>3, <1>4, <1>5, <1>6, <1>7, <1>8, <1>9, <1>10, <1>11 DEF ServerInv

LEMMA DeferEmptyStep ==
  ASSUME ServerInv, NEW s \in Scheds, DeferEmpty(s)
  PROVE  ServerInv'
<1> USE ThreadsAssumption, NoneAssumption DEF kernelVars, clientVars, pthreadVars, listVars,
          waitVars, eventVars, listenerVars, handlerVars
<1>1. TypeOK'
  BY NiceOpsAssumption, MaxFaultsAssumption DEF ServerInv, TypeOK, DeferEmpty, Goto,
     Threads, pthreadVars, listVars, waitVars, eventVars, listenerVars, handlerVars,
     kernelVars, clientVars
<1>2. PcOK'
  BY Types DEF ServerInv, PcOK, DeferEmpty, Goto, Handles, Threads, pthreadVars,
     listVars, waitVars, eventVars, listenerVars, handlerVars, kernelVars, clientVars
<1>3. ReadyOK'
  BY Types DEF ServerInv, ReadyOK, PcOK, WaitingOK, BusyOK, DeferEmpty, Goto, Waits,
     Handles, Threads, pthreadVars, listVars, waitVars, eventVars, listenerVars,
     handlerVars, kernelVars, clientVars
<1>4. WaitingOK'
  BY Types DEF ServerInv, WaitingOK, PcOK, ReadyOK, BusyOK, FdOK, DeferEmpty, Goto,
     Waits, Handles, Threads, pthreadVars, listVars, waitVars, eventVars, listenerVars,
     handlerVars, kernelVars, clientVars
<1>5. BusyOK'
  BY Types DEF ServerInv, BusyOK, PcOK, ReadyOK, WaitingOK, DeferEmpty, Goto, Waits,
     Handles, Threads, pthreadVars, listVars, waitVars, eventVars, listenerVars,
     handlerVars, kernelVars, clientVars
<1>6. SleepingOK'
  BY Types DEF ServerInv, SleepingOK, PcOK, WaitingOK, DeferEmpty, Goto, Waits,
     Handles, Threads, pthreadVars, listVars, waitVars, eventVars, listenerVars,
     handlerVars, kernelVars, clientVars
<1>7. KeptOK'
  BY Types DEF ServerInv, KeptOK, PcOK, DeferEmpty, Goto, Waits, Handles, Threads,
     pthreadVars, listVars, waitVars, eventVars, listenerVars, handlerVars, kernelVars,
     clientVars
<1>8. FdOK'
  BY Types DEF ServerInv, FdOK, PcOK, DeferEmpty, Goto, Handles, Threads, pthreadVars,
     listVars, waitVars, eventVars, listenerVars, handlerVars, kernelVars, clientVars
<1>9. ConnOK'
  BY Types DEF ServerInv, ConnOK, PcOK, DeferEmpty, Goto, Handles, Threads,
     pthreadVars, listVars, waitVars, eventVars, listenerVars, handlerVars, kernelVars,
     clientVars
<1>10. ArmedOK'
  BY ArmedFrame DEF ServerInv, DeferEmpty, Goto
<1>11. DoneOK'
  BY Types DEF ServerInv, DoneOK, PcOK, DeferEmpty, Goto, Handles, Threads,
     pthreadVars, listVars, waitVars, eventVars, listenerVars, handlerVars, kernelVars,
     clientVars
<1> QED BY <1>1, <1>2, <1>3, <1>4, <1>5, <1>6, <1>7, <1>8, <1>9, <1>10, <1>11 DEF ServerInv

LEMMA EventsDoneStep ==
  ASSUME ServerInv, NEW s \in Scheds, EventsDone(s)
  PROVE  ServerInv'
<1> USE ThreadsAssumption, NoneAssumption DEF kernelVars, clientVars, pthreadVars, listVars,
          waitVars, eventVars, listenerVars, handlerVars
<1>1. TypeOK'
  BY NiceOpsAssumption, MaxFaultsAssumption DEF ServerInv, TypeOK, EventsDone, Goto,
     IsDone, Threads, pthreadVars, listVars, waitVars, eventVars, listenerVars,
     handlerVars, kernelVars, clientVars
<1>2. PcOK'
  BY Types DEF ServerInv, PcOK, EventsDone, Goto, IsDone, Handles, Threads,
     pthreadVars, listVars, waitVars, eventVars, listenerVars, handlerVars, kernelVars,
     clientVars
<1>3. ReadyOK'
  BY Types DEF ServerInv, ReadyOK, PcOK, WaitingOK, BusyOK, EventsDone, Goto, IsDone,
     Waits, Handles, Threads, pthreadVars, listVars, waitVars, eventVars, listenerVars,
     handlerVars, kernelVars, clientVars
<1>4. WaitingOK'
  BY Types DEF ServerInv, WaitingOK, PcOK, ReadyOK, BusyOK, FdOK, EventsDone, Goto,
     IsDone, Waits, Handles, Threads, pthreadVars, listVars, waitVars, eventVars,
     listenerVars, handlerVars, kernelVars, clientVars
<1>5. BusyOK'
  BY Types DEF ServerInv, BusyOK, PcOK, ReadyOK, WaitingOK, EventsDone, Goto, IsDone,
     Waits, Handles, Threads, pthreadVars, listVars, waitVars, eventVars, listenerVars,
     handlerVars, kernelVars, clientVars
<1>6. SleepingOK'
  BY Types DEF ServerInv, SleepingOK, PcOK, WaitingOK, EventsDone, Goto, IsDone, Waits,
     Handles, Threads, pthreadVars, listVars, waitVars, eventVars, listenerVars,
     handlerVars, kernelVars, clientVars
<1>7. KeptOK'
  BY Types DEF ServerInv, KeptOK, PcOK, EventsDone, Goto, IsDone, Waits, Handles,
     Threads, pthreadVars, listVars, waitVars, eventVars, listenerVars, handlerVars,
     kernelVars, clientVars
<1>8. FdOK'
  BY Types DEF ServerInv, FdOK, PcOK, EventsDone, Goto, IsDone, Handles, Threads,
     pthreadVars, listVars, waitVars, eventVars, listenerVars, handlerVars, kernelVars,
     clientVars
<1>9. ConnOK'
  BY Types DEF ServerInv, ConnOK, PcOK, EventsDone, Goto, IsDone, Handles, Threads,
     pthreadVars, listVars, waitVars, eventVars, listenerVars, handlerVars, kernelVars,
     clientVars
<1>10. ArmedOK'
  BY ArmedFrame DEF ServerInv, EventsDone, Goto, IsDone
<1>11. DoneOK'
  <2>1. IsDone(s) => lpc[s] = "gone" /\ \A k \in Conns : hsched[k] = s => ~Handles(k)
    BY EmptyFacts, Types DEF ServerInv, KeptOK, PcOK, IsDone, Waits, EventsDone
  <2> QED BY <2>1, Types DEF ServerInv, DoneOK, EventsDone, Goto, Handles
<1> QED BY <1>1, <1>2, <1>3, <1>4, <1>5, <1>6, <1>7, <1>8, <1>9, <1>10, <1>11 DEF ServerInv

LEMMA PollStep ==
  ASSUME ServerInv, NEW s \in Scheds, Poll(s)
  PROVE  ServerInv'
<1> USE ThreadsAssumption, NoneAssumption DEF kernelVars, clientVars, pthreadVars, listVars,
          waitVars, eventVars, listenerVars, handlerVars
<1>1. TypeOK'
  <2> DEFINE F == {a \in armed[s] : Fires(a)}
             E == {[fd |-> a.fd, eof |-> IsEof(a.fd)] : a \in F}
  <2>1. armed' = [armed EXCEPT ![s] = @ \ F] /\ events' = [events EXCEPT ![s] = E]
    BY DEF Poll
  <2>2. \A a \in armed[s] : a.fd \in Fds \cup {Listen}
    BY DEF ServerInv, TypeOK
  <2>3. \A a \in armed[s] : IsEof(a.fd) \in BOOLEAN
    BY DEF IsEof
  <2>4. E \in SUBSET [fd : Fds \cup {Listen}, eof : BOOLEAN]
    BY <2>2, <2>3
  <2>5. events' \in [Scheds -> SUBSET [fd : Fds \cup {Listen}, eof : BOOLEAN]]
    BY <2>1, <2>4 DEF ServerInv, TypeOK
  <2>6. armed' \in [Scheds -> SUBSET [fd : Fds \cup {Listen}, ev : {"read", "write"}]]
    BY <2>1 DEF ServerInv, TypeOK
  <2> QED BY <2>5, <2>6 DEF ServerInv, TypeOK, Poll, Goto
<1>2. PcOK'
  BY Types DEF ServerInv, PcOK, Poll, Goto, Fires, IsEof, Handles, Threads,
     pthreadVars, listVars, waitVars, eventVars, listenerVars, handlerVars, kernelVars,
     clientVars
<1>3. ReadyOK'
  BY Types DEF ServerInv, ReadyOK, PcOK, WaitingOK, BusyOK, Poll, Goto, Fires, IsEof,
     Waits, Handles, Threads, pthreadVars, listVars, waitVars, eventVars, listenerVars,
     handlerVars, kernelVars, clientVars
<1>4. WaitingOK'
  BY Types DEF ServerInv, WaitingOK, PcOK, ReadyOK, BusyOK, FdOK, Poll, Goto, Fires,
     IsEof, Waits, Handles, Threads, pthreadVars, listVars, waitVars, eventVars,
     listenerVars, handlerVars, kernelVars, clientVars
<1>5. BusyOK'
  BY Types DEF ServerInv, BusyOK, PcOK, ReadyOK, WaitingOK, Poll, Goto, Fires, IsEof,
     Waits, Handles, Threads, pthreadVars, listVars, waitVars, eventVars, listenerVars,
     handlerVars, kernelVars, clientVars
<1>6. SleepingOK'
  BY Types DEF ServerInv, SleepingOK, PcOK, WaitingOK, Poll, Goto, Fires, IsEof, Waits,
     Handles, Threads, pthreadVars, listVars, waitVars, eventVars, listenerVars,
     handlerVars, kernelVars, clientVars
<1>7. KeptOK'
  BY Types DEF ServerInv, KeptOK, PcOK, Poll, Goto, Fires, IsEof, Waits, Handles,
     Threads, pthreadVars, listVars, waitVars, eventVars, listenerVars, handlerVars,
     kernelVars, clientVars
<1>8. FdOK'
  BY Types DEF ServerInv, FdOK, PcOK, Poll, Goto, Fires, IsEof, Handles, Threads,
     pthreadVars, listVars, waitVars, eventVars, listenerVars, handlerVars, kernelVars,
     clientVars
<1>9. ConnOK'
  BY Types DEF ServerInv, ConnOK, PcOK, Poll, Goto, Fires, IsEof, Handles, Threads,
     pthreadVars, listVars, waitVars, eventVars, listenerVars, handlerVars, kernelVars,
     clientVars
<1>10. ArmedOK'
  <2>a. UNCHANGED <<waiting, evfd>>
    BY DEF Poll
  <2> SUFFICES ASSUME NEW t \in Scheds, NEW w \in waiting[t]
               PROVE  \/ [fd |-> w.fd, ev |-> w.ev] \in armed'[t]
                      \/ \E e \in events'[t] : e.fd = w.fd
                      \/ evfd[t] # None /\ evfd[t].fd = w.fd /\ w.ev = "write"
    BY <2>a, ZenonT(60) DEF ArmedOK
  <2> DEFINE a == [fd |-> w.fd, ev |-> w.ev]
             F == {b \in armed[s] : Fires(b)}
             E == {[fd |-> b.fd, eof |-> IsEof(b.fd)] : b \in F}
  <2>1. armed' = [armed EXCEPT ![s] = @ \ F] /\ events' = [events EXCEPT ![s] = E]
    BY DEF Poll
  <2>2. \/ a \in armed[t]
        \/ \E e \in events[t] : e.fd = w.fd
        \/ evfd[t] # None /\ evfd[t].fd = w.fd /\ w.ev = "write"
    BY DEF ServerInv, ArmedOK
  <2>3. events[s] = {} /\ evfd[s] = None
    BY DEF ServerInv, PcOK, Poll
  <2>4. CASE t # s
    BY <2>1, <2>2, <2>4, Types
  <2>5. CASE t = s /\ a \in F
    <3>1. [fd |-> a.fd, eof |-> IsEof(a.fd)] \in events'[s]
      BY <2>1, <2>5, Types
    <3>2. [fd |-> a.fd, eof |-> IsEof(a.fd)].fd = w.fd
      OBVIOUS
    <3> QED BY <3>1, <3>2, <2>5
  <2>6. CASE t = s /\ a \notin F
    BY <2>1, <2>2, <2>3, <2>6, Types
  <2> QED BY <2>4, <2>5, <2>6
<1>11. DoneOK'
  BY Types DEF ServerInv, DoneOK, PcOK, Poll, Goto, Fires, IsEof, Handles, Threads,
     pthreadVars, listVars, waitVars, eventVars, listenerVars, handlerVars, kernelVars,
     clientVars
<1> QED BY <1>1, <1>2, <1>3, <1>4, <1>5, <1>6, <1>7, <1>8, <1>9, <1>10, <1>11 DEF ServerInv

LEMMA ReadyResumeStep ==
  ASSUME ServerInv, NEW s \in Scheds, ReadyResume(s)
  PROVE  ServerInv'
<1> USE ThreadsAssumption, NoneAssumption
<1>a. ready[s] \in Seq(Threads) /\ Distinct(ready[s])
  BY DEF ServerInv, TypeOK, ReadyOK
<1>b. PICK x \in Threads, q \in Seq(Threads) :
        /\ ready' = [ready EXCEPT ![s] = q] /\ cur' = [cur EXCEPT ![s] = x]
        /\ Distinct(q) /\ ~InSeq(x, q)
        /\ \A y : InSeq(y, ready[s]) <=> y = x \/ InSeq(y, q)
  <2>1. /\ Head(ready[s]) \in Threads /\ Tail(ready[s]) \in Seq(Threads)
        /\ Distinct(Tail(ready[s])) /\ ~InSeq(Head(ready[s]), Tail(ready[s]))
        /\ \A y : InSeq(y, ready[s]) <=> y = Head(ready[s]) \/ InSeq(y, Tail(ready[s]))
    BY <1>a, HeadFacts DEF ReadyResume
  <2> QED BY <2>1 DEF ReadyResume, Run
<1>c. /\ spc[s] = "ready"
      /\ spc' = [spc EXCEPT ![s] = "run"] /\ loop' = [loop EXCEPT ![s] = "ready"]
      /\ UNCHANGED <<cont, kernelVars, clientVars, defer, busy, waitVars, eventVars,
                     listenerVars, handlerVars, faults>>
  BY DEF ReadyResume, Run
<1> USE <1>b, <1>c DEF kernelVars, clientVars, waitVars, eventVars, listenerVars, handlerVars
<1>1. TypeOK'
  BY DEF ServerInv, TypeOK
<1>2. PcOK'
  BY Types DEF ServerInv, PcOK, ReadyOK, Handles, Threads
<1>3. ReadyOK'
  BY Types DEF ServerInv, PcOK, ReadyOK, Waits
<1>4. WaitingOK'
  BY Types DEF ServerInv, ReadyOK, WaitingOK, Waits
<1>5. BusyOK'
  BY Types DEF ServerInv, ReadyOK, BusyOK
<1>6. SleepingOK'
  BY DEF ServerInv, SleepingOK, Waits
<1>7. KeptOK'
  BY Types, SMTT(30) DEF ServerInv, PcOK, KeptOK, Handles, Waits
<1>8. FdOK'
  BY DEF ServerInv, FdOK, Handles
<1>9. ConnOK'
  BY DEF ServerInv, ConnOK, Handles
<1>10. ArmedOK'
  BY ArmedFrame DEF ServerInv
<1>11. DoneOK'
  BY Types DEF ServerInv, DoneOK, Handles
<1> QED BY <1>1, <1>2, <1>3, <1>4, <1>5, <1>6, <1>7, <1>8, <1>9, <1>10, <1>11 DEF ServerInv

LEMMA DeferResumeStep ==
  ASSUME ServerInv, NEW s \in Scheds, DeferResume(s)
  PROVE  ServerInv'
<1> USE ThreadsAssumption, NoneAssumption
<1>a. defer[s] \in Seq(Threads) /\ Distinct(defer[s])
  BY DEF ServerInv, TypeOK, BusyOK
<1>b. PICK x \in Threads, q \in Seq(Threads) :
        /\ defer' = [defer EXCEPT ![s] = q] /\ cur' = [cur EXCEPT ![s] = x]
        /\ busy' = [busy EXCEPT ![s] = @ \ {x}]
        /\ Distinct(q) /\ ~InSeq(x, q)
        /\ \A y : InSeq(y, defer[s]) <=> y = x \/ InSeq(y, q)
  <2>1. /\ Head(defer[s]) \in Threads /\ Tail(defer[s]) \in Seq(Threads)
        /\ Distinct(Tail(defer[s])) /\ ~InSeq(Head(defer[s]), Tail(defer[s]))
        /\ \A y : InSeq(y, defer[s]) <=> y = Head(defer[s]) \/ InSeq(y, Tail(defer[s]))
    BY <1>a, HeadFacts DEF DeferResume
  <2> QED BY <2>1 DEF DeferResume, Run
<1>c. /\ spc[s] = "defer"
      /\ spc' = [spc EXCEPT ![s] = "run"] /\ loop' = [loop EXCEPT ![s] = "defer"]
      /\ UNCHANGED <<cont, kernelVars, clientVars, ready, waitVars, eventVars,
                     listenerVars, handlerVars, faults>>
  BY DEF DeferResume, Run
<1> USE <1>b, <1>c DEF kernelVars, clientVars, waitVars, eventVars, listenerVars, handlerVars
<1>d. x \in busy[s]
  BY DEF ServerInv, BusyOK
<1>1. TypeOK'
  BY DEF ServerInv, TypeOK
<1>2. PcOK'
  BY <1>d, Types DEF ServerInv, PcOK, BusyOK, Handles, Threads
<1>3. ReadyOK'
  BY <1>d, Types DEF ServerInv, ReadyOK, BusyOK, Waits
<1>4. WaitingOK'
  BY <1>d, Types DEF ServerInv, BusyOK, WaitingOK
<1>5. BusyOK'
  BY <1>d, Types DEF ServerInv, BusyOK
<1>6. SleepingOK'
  BY DEF ServerInv, SleepingOK, Waits
<1>7. KeptOK'
  BY <1>d, Types DEF ServerInv, PcOK, KeptOK, Handles, Waits
<1>8. FdOK'
  BY DEF ServerInv, FdOK, Handles
<1>9. ConnOK'
  BY DEF ServerInv, ConnOK, Handles
<1>10. ArmedOK'
  BY ArmedFrame DEF ServerInv
<1>11. DoneOK'
  BY Types DEF ServerInv, DoneOK, Handles
<1> QED BY <1>1, <1>2, <1>3, <1>4, <1>5, <1>6, <1>7, <1>8, <1>9, <1>10, <1>11 DEF ServerInv

(* A waiting handler waits on its own descriptor, for what it is about.     *)
LEMMA WaiterFacts ==
  ASSUME ServerInv, NEW s \in Scheds, NEW w \in waiting[s]
  PROVE  /\ w.lt \in Threads
         /\ w = [fd |-> w.fd, ev |-> w.ev, lt |-> w.lt]
         /\ w.ev \in {"read", "write"}
         /\ w.lt \in Scheds => w.lt = s /\ w.fd = Listen /\ w.ev = "read" /\ lpc[s] = "renice"
         /\ w.lt \in Conns =>
              /\ Handles(w.lt) /\ hsched[w.lt] = s
              /\ w.fd = hfd[w.lt] /\ w.fd \in Fds /\ fdtab[w.fd] = w.lt
              /\ w.ev = "read" <=> hpc[w.lt] = "recv"
              /\ w.ev = "write" <=> hpc[w.lt] = "send"
<1>1. /\ w \in [fd : Fds \cup {Listen}, ev : {"read", "write"}, lt : Threads]
      /\ w.lt \in Scheds => w.lt = s /\ w.fd = Listen /\ w.ev = "read" /\ lpc[s] = "renice"
      /\ w.lt \in Conns =>
           /\ hsched[w.lt] = s /\ w.fd = hfd[w.lt]
           /\ w.ev = "read" => hpc[w.lt] = "recv"
           /\ w.ev = "write" => hpc[w.lt] = "send"
  BY DEF ServerInv, TypeOK, WaitingOK
<1>2. w.ev \in {"read", "write"} /\ w.lt \in Threads
  BY <1>1
<1>3. w.lt \in Conns => Handles(w.lt)
  BY <1>1, <1>2 DEF Handles
<1>4. w.lt \in Conns => hfd[w.lt] \in Fds /\ fdtab[hfd[w.lt]] = w.lt
  BY <1>3 DEF ServerInv, FdOK
<1>5. w = [fd |-> w.fd, ev |-> w.ev, lt |-> w.lt]
  BY <1>1
<1> QED BY <1>1, <1>2, <1>3, <1>4, <1>5

(* One waiter for each lthread, and one for each descriptor. *)
LEMMA OneWait ==
  ASSUME ServerInv, NEW s \in Scheds, NEW v \in waiting[s], NEW w \in waiting[s],
         v.lt = w.lt \/ v.fd = w.fd
  PROVE  v = w
<1> USE ThreadsAssumption, ListenAssumption
<1>1. /\ v.lt \in Threads /\ v.ev \in {"read", "write"}
      /\ v = [fd |-> v.fd, ev |-> v.ev, lt |-> v.lt]
      /\ v.lt \in Scheds => v.lt = s /\ v.fd = Listen /\ v.ev = "read"
      /\ v.lt \in Conns => /\ v.fd = hfd[v.lt] /\ v.fd \in Fds /\ fdtab[v.fd] = v.lt
                           /\ v.ev = "read" <=> hpc[v.lt] = "recv"
  BY WaiterFacts
<1>2. /\ w.lt \in Threads /\ w.ev \in {"read", "write"}
      /\ w = [fd |-> w.fd, ev |-> w.ev, lt |-> w.lt]
      /\ w.lt \in Scheds => w.lt = s /\ w.fd = Listen /\ w.ev = "read"
      /\ w.lt \in Conns => /\ w.fd = hfd[w.lt] /\ w.fd \in Fds /\ fdtab[w.fd] = w.lt
                           /\ w.ev = "read" <=> hpc[w.lt] = "recv"
  BY WaiterFacts
<1>3. v.lt = w.lt
  BY <1>1, <1>2 DEF Threads
<1>4. v.fd = w.fd /\ v.ev = w.ev
  BY <1>1, <1>2, <1>3 DEF Threads
<1> QED BY <1>1, <1>2, <1>3, <1>4

(* A waiter is taken out of the trees and switched to: an event or a        *)
(* timeout, after which it may be about to close.                           *)
LEMMA WokenStep ==
  ASSUME ServerInv, NEW s \in Scheds, NEW w \in waiting[s], spc[s] # "run",
         waiting' = [waiting EXCEPT ![s] = @ \ {w}],
         sleeping' = [sleeping EXCEPT ![s] = @ \ {w.lt}],
         cur' = [cur EXCEPT ![s] = w.lt],
         \/ hpc' = hpc
         \/ w.lt \in Conns /\ hpc' = [hpc EXCEPT ![w.lt] = "close"],
         UNCHANGED <<ready, defer, busy, lpc, hsched, hfd, fdtab, conn, backlog>>
  PROVE  /\ ReadyOK' /\ WaitingOK' /\ BusyOK' /\ SleepingOK' /\ KeptOK' /\ FdOK' /\ ConnOK'
         /\ cur[s] = None /\ w.lt \in Threads
         /\ w.lt \in Scheds => w.lt = s /\ lpc[s] # "gone"
         /\ w.lt \in Conns => hsched[w.lt] = s /\ Handles(w.lt)
         /\ \A k \in Conns : Handles(k)' <=> Handles(k)
<1> USE ThreadsAssumption, NoneAssumption
<1>a. /\ w.lt \in Threads /\ Waits(s, w.lt) /\ w.lt \notin busy[s]
      /\ w.lt \in Scheds => w.lt = s /\ lpc[s] # "gone"
      /\ w.lt \in Conns => hsched[w.lt] = s /\ Handles(w.lt) /\ hpc[w.lt] \in {"recv", "send"}
  BY WaiterFacts DEF ServerInv, WaitingOK, Waits
<1>b. cur[s] = None
  BY DEF ServerInv, PcOK
<1>c. \A x : InSeq(x, ready[s]) => x # w.lt
  BY <1>a DEF ServerInv, ReadyOK
<1>d. \A v \in waiting[s] : v.lt = w.lt => v = w
  BY OneWait
<1>e. \A k \in Conns : /\ Handles(k)' <=> Handles(k)
                       /\ k # w.lt => hpc'[k] = hpc[k]
  BY <1>a, Types DEF Handles
<1>f. \A t \in Scheds : \A x : x # w.lt \/ t # s => (Waits(t, x)' <=> Waits(t, x))
  BY Types DEF Waits
<1>g. \A t \in Scheds : \A v \in waiting'[t] : v \in waiting[t] /\ (t = s => v # w /\ v.lt # w.lt)
  BY <1>d, Types
<1>h. \A t \in Scheds : t # s => waiting'[t] = waiting[t] /\ sleeping'[t] = sleeping[t] /\ cur'[t] = cur[t]
  BY Types
<1>1. ReadyOK'
  BY <1>a, <1>b, <1>c, <1>e, <1>f, Types DEF ServerInv, ReadyOK
<1>2. WaitingOK'
  <2> SUFFICES ASSUME NEW t \in Scheds, NEW v \in waiting'[t]
               PROVE  /\ cur'[t] # v.lt /\ v.lt \notin busy[t]
                      /\ v.lt \in Scheds =>
                           v.lt = t /\ v.fd = Listen /\ v.ev = "read" /\ lpc[t] = "renice"
                      /\ v.lt \in Conns =>
                           /\ hsched[v.lt] = t /\ v.fd = hfd[v.lt]
                           /\ v.ev = "read" => hpc'[v.lt] = "recv"
                           /\ v.ev = "write" => hpc'[v.lt] = "send"
    BY DEF WaitingOK
  <2>1. v \in waiting[t] /\ v.lt # w.lt
    BY <1>a, <1>g, WaiterFacts DEF Threads
  <2>2. cur'[t] # v.lt
    BY <2>1, <1>h, Types DEF ServerInv, WaitingOK
  <2> QED BY <2>1, <2>2, <1>e DEF ServerInv, WaitingOK
<1>3. BusyOK'
  BY <1>a, <1>b, <1>e, <1>h, Types DEF ServerInv, BusyOK, Threads
<1>4. SleepingOK'
  BY <1>a, <1>e, <1>f, <1>h, Types DEF ServerInv, SleepingOK, WaitingOK, Waits
<1>5. KeptOK'
  BY <1>a, <1>b, <1>e, <1>f, <1>h, Types DEF ServerInv, KeptOK, Threads
<1>6. FdOK'
  BY <1>e, Types DEF ServerInv, FdOK, TypeOK
<1>7. ConnOK'
  BY <1>a, <1>e DEF ServerInv, ConnOK, Handles
<1> QED BY <1>1, <1>2, <1>3, <1>4, <1>5, <1>6, <1>7, <1>a, <1>b, <1>e

LEMMA ExpireStep ==
  ASSUME ServerInv, NEW s \in Scheds, NEW k \in Conns, Expire(s, k)
  PROVE  ServerInv'
<1> USE ThreadsAssumption, NoneAssumption, ListenAssumption
<1>a. PICK w \in waiting[s] : w.lt = k
  BY DEF ServerInv, SleepingOK, Expire, Waits
<1>b. WaitsOf(s, k) = {w}
  BY <1>a, OneWait DEF WaitsOf
<1>c. /\ k \in Threads /\ Handles(k) /\ hsched[k] = s /\ w.fd = hfd[k] /\ w.fd \in Fds
  BY <1>a, WaiterFacts
<1>d. /\ spc[s] = "expire"
      /\ armed' = [armed EXCEPT ![s] = @ \ ArmedOn(s, hfd[k])]
      /\ waiting' = [waiting EXCEPT ![s] = @ \ {w}]
      /\ sleeping' = [sleeping EXCEPT ![s] = @ \ {k}]
      /\ hpc' = [hpc EXCEPT ![k] = "close"]
      /\ spc' = [spc EXCEPT ![s] = "run"]
      /\ cur' = [cur EXCEPT ![s] = k]
      /\ loop' = [loop EXCEPT ![s] = "expire"]
      /\ UNCHANGED <<cont, kernelVars, clientVars, listVars, eventVars,
                     listenerVars, hsched, hfd, faults>>
  BY <1>b DEF Expire, Run
<1> USE DEF kernelVars, clientVars, listVars, eventVars, listenerVars
<1>e. /\ ReadyOK' /\ WaitingOK' /\ BusyOK' /\ SleepingOK' /\ KeptOK' /\ FdOK' /\ ConnOK'
      /\ cur[s] = None
      /\ \A h \in Conns : Handles(h)' <=> Handles(h)
  BY <1>a, <1>d, WokenStep
<1>1. TypeOK'
  BY <1>c, <1>d DEF ServerInv, TypeOK
<1>2. PcOK'
  BY <1>c, <1>d, <1>e, Types DEF ServerInv, PcOK
<1>3. ArmedOK'
  <2> SUFFICES ASSUME NEW t \in Scheds, NEW v \in waiting'[t]
               PROVE  \/ [fd |-> v.fd, ev |-> v.ev] \in armed'[t]
                      \/ \E e \in events[t] : e.fd = v.fd
                      \/ evfd[t] # None /\ evfd[t].fd = v.fd /\ v.ev = "write"
    BY <1>d, ZenonT(60) DEF ArmedOK
  <2>1. v \in waiting[t] /\ (t = s => v # w)
    BY <1>d, Types
  <2>2. t = s => v.fd # hfd[k]
    BY <2>1, <1>c, OneWait
  <2>3. [fd |-> v.fd, ev |-> v.ev].fd = v.fd
    OBVIOUS
  <2>4. [fd |-> v.fd, ev |-> v.ev] \in armed[t] => [fd |-> v.fd, ev |-> v.ev] \in armed'[t]
    BY <1>d, <2>2, <2>3, Types DEF ArmedOn
  <2> QED BY <2>1, <2>4 DEF ServerInv, ArmedOK
<1>4. DoneOK'
  BY <1>d, <1>e, Types DEF ServerInv, DoneOK
<1> QED BY <1>1, <1>2, <1>3, <1>4, <1>e DEF ServerInv

LEMMA ReadEventStep ==
  ASSUME ServerInv, NEW s \in Scheds, ReadEvent(s)
  PROVE  ServerInv'
<1> USE ThreadsAssumption, NoneAssumption
<1>a. PICK e \in events[s] :
        /\ events' = [events EXCEPT ![s] = @ \ {e}]
        /\ evfd' = [evfd EXCEPT ![s] = e]
        /\ Wake(s, e, "read", "write")
  BY DEF ReadEvent
<1>b. /\ spc[s] = "events"
      /\ UNCHANGED <<cont, kernelVars, clientVars, listVars, armed,
                     listenerVars, hsched, hfd, faults>>
  BY DEF ReadEvent
<1> USE DEF kernelVars, clientVars, listVars, listenerVars
<1>c. e \in [fd : Fds \cup {Listen}, eof : BOOLEAN] /\ e # None
  BY DEF ServerInv, TypeOK
<1>d. cur[s] = None /\ evfd[s] = None
  BY <1>b DEF ServerInv, PcOK
<1>e. events' \in [Scheds -> SUBSET [fd : Fds \cup {Listen}, eof : BOOLEAN]]
  BY <1>a DEF ServerInv, TypeOK
<1>f. evfd' \in [Scheds -> [fd : Fds \cup {Listen}, eof : BOOLEAN] \cup {None}]
  BY <1>a, <1>c DEF ServerInv, TypeOK
<1> DEFINE W == {w \in waiting[s] : w.fd = e.fd /\ w.ev = "read"}
<1>g. \A t \in Scheds : \A v \in waiting[t] :
        (t = s => v \notin W) =>
          \/ [fd |-> v.fd, ev |-> v.ev] \in armed[t]
          \/ \E d \in events'[t] : d.fd = v.fd
          \/ evfd'[t] # None /\ evfd'[t].fd = v.fd /\ v.ev = "write"
  <2> SUFFICES ASSUME NEW t \in Scheds, NEW v \in waiting[t], t = s => v \notin W,
                      [fd |-> v.fd, ev |-> v.ev] \notin armed[t]
               PROVE  \/ \E d \in events'[t] : d.fd = v.fd
                      \/ evfd'[t] # None /\ evfd'[t].fd = v.fd /\ v.ev = "write"
    OBVIOUS
  <2>1. \/ \E d \in events[t] : d.fd = v.fd
        \/ evfd[t] # None /\ evfd[t].fd = v.fd /\ v.ev = "write"
    BY DEF ServerInv, ArmedOK
  <2>2. v.ev \in {"read", "write"}
    BY WaiterFacts
  <2>3. CASE t # s
    BY <2>1, <2>3, <1>a, Types
  <2>4. CASE t = s
    <3>1. PICK d \in events[s] : d.fd = v.fd
      BY <2>1, <2>4, <1>d
    <3>2. CASE d = e
      BY <3>1, <3>2, <2>2, <2>4, <1>a, <1>c, Types
    <3>3. CASE d # e
      BY <3>1, <3>3, <2>4, <1>a, Types
    <3> QED BY <3>2, <3>3
  <2> QED BY <2>3, <2>4
<1>1. CASE W = {}
  <2>1. /\ spc' = [spc EXCEPT ![s] = "write"]
        /\ UNCHANGED <<cur, loop, waiting, sleeping, hpc>>
    BY <1>a, <1>1 DEF Wake, Goto
  <2>2. TypeOK'
    BY <2>1, <1>b, <1>e, <1>f DEF ServerInv, TypeOK
  <2>3. PcOK'
    BY <2>1, <1>a, <1>b, <1>c, <1>d, Types DEF ServerInv, PcOK, Handles
  <2>4. ReadyOK' /\ WaitingOK' /\ BusyOK' /\ SleepingOK' /\ KeptOK' /\ FdOK' /\ ConnOK'
    BY <2>1, <1>b DEF ServerInv, ReadyOK, WaitingOK, BusyOK, SleepingOK, KeptOK, FdOK,
                      ConnOK, Waits, Handles
  <2>5. ArmedOK'
    BY <2>1, <1>b, <1>g, <1>1 DEF ArmedOK
  <2>6. DoneOK'
    BY <2>1, <1>b, Types DEF ServerInv, DoneOK, Handles
  <2> QED BY <2>2, <2>3, <2>4, <2>5, <2>6 DEF ServerInv
<1>2. CASE W # {}
  <2>1. PICK w \in W :
          /\ waiting' = [waiting EXCEPT ![s] = @ \ {w}]
          /\ sleeping' = [sleeping EXCEPT ![s] = @ \ {w.lt}]
          /\ hpc' = hpc \/ (w.lt \in Conns /\ hpc' = [hpc EXCEPT ![w.lt] = "close"])
          /\ spc' = [spc EXCEPT ![s] = "run"]
          /\ cur' = [cur EXCEPT ![s] = w.lt]
          /\ loop' = [loop EXCEPT ![s] = "write"]
    BY <1>a, <1>2 DEF Wake, Run
  <2>2. /\ ReadyOK' /\ WaitingOK' /\ BusyOK' /\ SleepingOK' /\ KeptOK' /\ FdOK' /\ ConnOK'
        /\ w.lt \in Threads
        /\ w.lt \in Scheds => w.lt = s /\ lpc[s] # "gone"
        /\ w.lt \in Conns => hsched[w.lt] = s /\ Handles(w.lt)
        /\ \A k \in Conns : Handles(k)' <=> Handles(k)
    BY <2>1, <1>b, WokenStep
  <2>3. hpc' \in [Conns -> {"none", "start", "recv", "send", "close", "return", "gone"}]
    BY <2>1 DEF ServerInv, TypeOK
  <2>4. TypeOK'
    BY <2>1, <2>2, <2>3, <1>b, <1>e, <1>f DEF ServerInv, TypeOK
  <2>5. PcOK'
    BY <2>1, <2>2, <1>a, <1>b, <1>c, <1>d, Types DEF ServerInv, PcOK, Threads
  <2>6. ArmedOK'
    <3> SUFFICES ASSUME NEW t \in Scheds, NEW v \in waiting'[t]
                 PROVE  \/ [fd |-> v.fd, ev |-> v.ev] \in armed[t]
                        \/ \E d \in events'[t] : d.fd = v.fd
                        \/ evfd'[t] # None /\ evfd'[t].fd = v.fd /\ v.ev = "write"
      BY <1>b DEF ArmedOK
    <3>1. v \in waiting[t] /\ (t = s => v # w)
      BY <2>1, Types
    <3>2. t = s => v \notin W
      BY <3>1, OneWait
    <3> QED BY <3>1, <3>2, <1>g
  <2>7. DoneOK'
    BY <2>1, <2>2, <1>b, Types DEF ServerInv, DoneOK
  <2> QED BY <2>2, <2>4, <2>5, <2>6, <2>7 DEF ServerInv
<1> QED BY <1>1, <1>2

LEMMA WriteEventStep ==
  ASSUME ServerInv, NEW s \in Scheds, WriteEvent(s)
  PROVE  ServerInv'
<1> USE ThreadsAssumption, NoneAssumption
<1> DEFINE e == evfd[s]
           W == {w \in waiting[s] : w.fd = e.fd /\ w.ev = "write"}
<1>a. /\ spc[s] = "write"
      /\ evfd' = [evfd EXCEPT ![s] = None]
      /\ Wake(s, e, "write", "events")
      /\ UNCHANGED <<cont, kernelVars, clientVars, listVars, armed, events,
                     listenerVars, hsched, hfd, faults>>
  BY DEF WriteEvent
<1> USE DEF kernelVars, clientVars, listVars, listenerVars
<1>b. cur[s] = None
  BY <1>a DEF ServerInv, PcOK
<1>c. evfd' \in [Scheds -> [fd : Fds \cup {Listen}, eof : BOOLEAN] \cup {None}]
  BY <1>a DEF ServerInv, TypeOK
<1>d. \A t \in Scheds : \A v \in waiting[t] :
        (t = s => v \notin W) =>
          \/ [fd |-> v.fd, ev |-> v.ev] \in armed[t]
          \/ \E d \in events[t] : d.fd = v.fd
          \/ evfd'[t] # None /\ evfd'[t].fd = v.fd /\ v.ev = "write"
  <2> SUFFICES ASSUME NEW t \in Scheds, NEW v \in waiting[t], t = s => v \notin W,
                      [fd |-> v.fd, ev |-> v.ev] \notin armed[t]
               PROVE  \/ \E d \in events[t] : d.fd = v.fd
                      \/ evfd'[t] # None /\ evfd'[t].fd = v.fd /\ v.ev = "write"
    OBVIOUS
  <2>1. \/ \E d \in events[t] : d.fd = v.fd
        \/ evfd[t] # None /\ evfd[t].fd = v.fd /\ v.ev = "write"
    BY DEF ServerInv, ArmedOK
  <2> QED BY <2>1, <1>a, Types
<1>1. CASE W = {}
  <2>1. /\ spc' = [spc EXCEPT ![s] = "events"]
        /\ UNCHANGED <<cur, loop, waiting, sleeping, hpc>>
    BY <1>a, <1>1 DEF Wake, Goto
  <2>2. TypeOK'
    BY <2>1, <1>a, <1>c DEF ServerInv, TypeOK
  <2>3. PcOK'
    BY <2>1, <1>a, <1>b, Types DEF ServerInv, PcOK, Handles
  <2>4. ReadyOK' /\ WaitingOK' /\ BusyOK' /\ SleepingOK' /\ KeptOK' /\ FdOK' /\ ConnOK'
    BY <2>1, <1>a DEF ServerInv, ReadyOK, WaitingOK, BusyOK, SleepingOK, KeptOK, FdOK,
                      ConnOK, Waits, Handles
  <2>5. ArmedOK'
    BY <2>1, <1>a, <1>d, <1>1, ZenonT(60) DEF ArmedOK
  <2>6. DoneOK'
    BY <2>1, <1>a, Types DEF ServerInv, DoneOK, Handles
  <2> QED BY <2>2, <2>3, <2>4, <2>5, <2>6 DEF ServerInv
<1>2. CASE W # {}
  <2>1. PICK w \in W :
          /\ waiting' = [waiting EXCEPT ![s] = @ \ {w}]
          /\ sleeping' = [sleeping EXCEPT ![s] = @ \ {w.lt}]
          /\ hpc' = hpc \/ (w.lt \in Conns /\ hpc' = [hpc EXCEPT ![w.lt] = "close"])
          /\ spc' = [spc EXCEPT ![s] = "run"]
          /\ cur' = [cur EXCEPT ![s] = w.lt]
          /\ loop' = [loop EXCEPT ![s] = "events"]
    BY <1>a, <1>2 DEF Wake, Run
  <2>2. /\ ReadyOK' /\ WaitingOK' /\ BusyOK' /\ SleepingOK' /\ KeptOK' /\ FdOK' /\ ConnOK'
        /\ w.lt \in Threads
        /\ w.lt \in Scheds => w.lt = s /\ lpc[s] # "gone"
        /\ w.lt \in Conns => hsched[w.lt] = s /\ Handles(w.lt)
        /\ \A k \in Conns : Handles(k)' <=> Handles(k)
    BY <2>1, <1>a, WokenStep
  <2>3. hpc' \in [Conns -> {"none", "start", "recv", "send", "close", "return", "gone"}]
    BY <2>1 DEF ServerInv, TypeOK
  <2>4. TypeOK'
    BY <2>1, <2>2, <2>3, <1>a, <1>c DEF ServerInv, TypeOK
  <2>5. PcOK'
    BY <2>1, <2>2, <1>a, <1>b, Types DEF ServerInv, PcOK, Threads
  <2>6. ArmedOK'
    <3> SUFFICES ASSUME NEW t \in Scheds, NEW v \in waiting'[t]
                 PROVE  \/ [fd |-> v.fd, ev |-> v.ev] \in armed[t]
                        \/ \E d \in events[t] : d.fd = v.fd
                        \/ evfd'[t] # None /\ evfd'[t].fd = v.fd /\ v.ev = "write"
      BY <1>a DEF ArmedOK
    <3>1. v \in waiting[t] /\ (t = s => v # w)
      BY <2>1, Types
    <3>2. t = s => v \notin W
      BY <3>1, OneWait
    <3> QED BY <3>1, <3>2, <1>d
  <2>7. DoneOK'
    BY <2>1, <2>2, <1>a, Types DEF ServerInv, DoneOK
  <2> QED BY <2>2, <2>4, <2>5, <2>6, <2>7 DEF ServerInv
<1> QED BY <1>1, <1>2

LEMMA LogDoneStep ==
  ASSUME ServerInv, NEW s \in Scheds, NEW x \in Threads, LogDone(s, x)
  PROVE  ServerInv'
<1> USE ThreadsAssumption, NoneAssumption DEF kernelVars, clientVars, pthreadVars, listVars,
          waitVars, eventVars, listenerVars, handlerVars
<1>1. TypeOK'
  BY NiceOpsAssumption, MaxFaultsAssumption DEF ServerInv, TypeOK, LogDone, Threads,
     pthreadVars, listVars, waitVars, eventVars, listenerVars, handlerVars, kernelVars,
     clientVars
<1>2. PcOK'
  BY Types DEF ServerInv, PcOK, LogDone, Handles, Threads, pthreadVars, listVars,
     waitVars, eventVars, listenerVars, handlerVars, kernelVars, clientVars
<1>3. ReadyOK'
  BY Types DEF ServerInv, ReadyOK, PcOK, WaitingOK, BusyOK, LogDone, Waits, Handles,
     Threads, pthreadVars, listVars, waitVars, eventVars, listenerVars, handlerVars,
     kernelVars, clientVars
<1>4. WaitingOK'
  BY Types DEF ServerInv, WaitingOK, PcOK, ReadyOK, BusyOK, FdOK, LogDone, Waits,
     Handles, Threads, pthreadVars, listVars, waitVars, eventVars, listenerVars,
     handlerVars, kernelVars, clientVars
<1>5. BusyOK'
  <2>1. defer[s] \in Seq(Threads) /\ x \in busy[s] /\ ~InSeq(x, defer[s])
    BY DEF ServerInv, TypeOK, LogDone, ToSet, InSeq
  <2>2. PICK q \in Seq(Threads) :
          /\ defer' = [defer EXCEPT ![s] = q]
          /\ Distinct(defer[s]) => Distinct(q)
          /\ \A y : InSeq(y, q) <=> y = x \/ InSeq(y, defer[s])
    <3>1. /\ Append(defer[s], x) \in Seq(Threads)
          /\ Distinct(defer[s]) => Distinct(Append(defer[s], x))
          /\ \A y : InSeq(y, Append(defer[s], x)) <=> y = x \/ InSeq(y, defer[s])
      BY <2>1, AppendFacts
    <3> QED BY <3>1 DEF LogDone
  <2>3. UNCHANGED <<busy, cur, lpc, hsched, hpc>>
    BY DEF LogDone
  <2> QED BY <2>1, <2>2, <2>3, Types DEF ServerInv, BusyOK
<1>6. SleepingOK'
  BY Types DEF ServerInv, SleepingOK, PcOK, WaitingOK, LogDone, Waits, Handles,
     Threads, pthreadVars, listVars, waitVars, eventVars, listenerVars, handlerVars,
     kernelVars, clientVars
<1>7. KeptOK'
  BY Types DEF ServerInv, KeptOK, PcOK, LogDone, Waits, Handles, Threads, pthreadVars,
     listVars, waitVars, eventVars, listenerVars, handlerVars, kernelVars, clientVars
<1>8. FdOK'
  BY Types DEF ServerInv, FdOK, PcOK, LogDone, Handles, Threads, pthreadVars, listVars,
     waitVars, eventVars, listenerVars, handlerVars, kernelVars, clientVars
<1>9. ConnOK'
  BY Types DEF ServerInv, ConnOK, PcOK, LogDone, Handles, Threads, pthreadVars,
     listVars, waitVars, eventVars, listenerVars, handlerVars, kernelVars, clientVars
<1>10. ArmedOK'
  BY ArmedFrame DEF ServerInv, LogDone
<1>11. DoneOK'
  BY Types DEF ServerInv, DoneOK, PcOK, LogDone, Handles, Threads, pthreadVars,
     listVars, waitVars, eventVars, listenerVars, handlerVars, kernelVars, clientVars
<1> QED BY <1>1, <1>2, <1>3, <1>4, <1>5, <1>6, <1>7, <1>8, <1>9, <1>10, <1>11 DEF ServerInv

-----------------------------------------------------------------------------
(* The listener.                                                            *)

LEMMA ReniceStep ==
  ASSUME ServerInv, NEW s \in Scheds, Renice(s)
  PROVE  ServerInv'
<1> USE ThreadsAssumption, NoneAssumption
<1>a. /\ spc[s] = "run" /\ cur[s] = s /\ lpc[s] \in {"check", "renice"}
      /\ lpc' = [lpc EXCEPT ![s] = "accept"]
      /\ UNCHANGED <<cont, kernelVars, clientVars, defer, busy, waitVars, eventVars,
                     handlerVars, faults>>
  BY DEF Renice, At, Running, LGoto
<1> USE DEF kernelVars, clientVars, waitVars, eventVars, handlerVars
<1>b. ops[s] \in Nat /\ ops[s] < NiceOps /\ s \in Threads
  BY NiceOpsAssumption DEF ServerInv, TypeOK, Threads
<1>c. FdOK' /\ ConnOK' /\ SleepingOK' /\ ArmedOK'
  BY <1>a, ArmedFrame DEF ServerInv, FdOK, ConnOK, SleepingOK, Handles, Waits
<1>d. \A w \in waiting[s] : w.lt # s
  BY <1>a DEF ServerInv, WaitingOK
<1>1. CASE ops[s] + 1 < NiceOps
  <2>1. ops' = [ops EXCEPT ![s] = @ + 1] /\ UNCHANGED <<pthreadVars, ready>>
    BY <1>1 DEF Renice
  <2>2. ops' \in [Scheds -> 0..NiceOps-1]
    BY <2>1, <1>1, <1>b, NiceOpsAssumption DEF ServerInv, TypeOK
  <2>3. TypeOK'
    BY <2>1, <2>2, <1>a DEF ServerInv, TypeOK, pthreadVars
  <2>4. PcOK'
    BY <2>1, <1>a, Types DEF ServerInv, PcOK, pthreadVars, Handles
  <2>5. ReadyOK'
    BY <2>1, <1>a, <1>b, Types DEF ServerInv, ReadyOK, pthreadVars, Waits
  <2>6. WaitingOK' /\ BusyOK'
    BY <2>1, <1>a, <1>d, Types DEF ServerInv, WaitingOK, BusyOK, pthreadVars
  <2>7. KeptOK'
    BY <2>1, <1>a, Types DEF ServerInv, KeptOK, pthreadVars, Waits, Handles
  <2>8. DoneOK'
    BY <2>1, <1>a, Types DEF ServerInv, DoneOK, pthreadVars, Handles
  <2> QED BY <2>3, <2>4, <2>5, <2>6, <2>7, <2>8, <1>c DEF ServerInv
<1>2. CASE ~(ops[s] + 1 < NiceOps)
  <2>1. /\ ops' = [ops EXCEPT ![s] = 0]
        /\ ready' = [ready EXCEPT ![s] = Append(@, s)]
        /\ spc' = [spc EXCEPT ![s] = loop[s]]
        /\ cur' = [cur EXCEPT ![s] = None]
        /\ loop' = loop
    BY <1>2 DEF Renice, Yield
  <2>2. ready[s] \in Seq(Threads) /\ Distinct(ready[s]) /\ ~InSeq(s, ready[s])
    BY <1>a, <1>b DEF ServerInv, TypeOK, ReadyOK
  <2>3. PICK q \in Seq(Threads) :
          /\ ready' = [ready EXCEPT ![s] = q]
          /\ Distinct(q) /\ \A y : InSeq(y, q) <=> y = s \/ InSeq(y, ready[s])
    <3>1. /\ Append(ready[s], s) \in Seq(Threads) /\ Distinct(Append(ready[s], s))
          /\ \A y : InSeq(y, Append(ready[s], s)) <=> y = s \/ InSeq(y, ready[s])
      BY <2>2, <1>b, AppendFacts
    <3> QED BY <3>1, <2>1
  <2>4. ops' \in [Scheds -> 0..NiceOps-1]
    BY <2>1, NiceOpsAssumption DEF ServerInv, TypeOK
  <2>a. /\ spc'[s] # "run" /\ cur'[s] = None
        /\ spc'[s] = loop[s] /\ loop' = loop
        /\ \A t \in Scheds : t # s => spc'[t] = spc[t] /\ cur'[t] = cur[t] /\ lpc'[t] = lpc[t]
    BY <2>1, <1>a, Types
  <2>5. TypeOK'
    BY <2>1, <2>3, <2>4, <1>a DEF ServerInv, TypeOK
  <2>6. PcOK'
    BY <2>a, <1>a, <1>b, Types DEF ServerInv, PcOK, Handles, Threads
  <2>7. ReadyOK'
    BY <2>a, <2>3, <1>a, <1>b, <1>d, Types DEF ServerInv, ReadyOK, BusyOK, Waits, Threads
  <2>8. WaitingOK' /\ BusyOK'
    BY <2>1, <1>a, <1>d, Types DEF ServerInv, WaitingOK, BusyOK, Threads
  <2>9. KeptOK'
    BY <2>a, <2>3, <1>a, <1>b, Types DEF ServerInv, KeptOK, PcOK, Waits, Handles, Threads
  <2>10. DoneOK'
    BY <2>1, <1>a, Types DEF ServerInv, DoneOK, Handles
  <2> QED BY <2>5, <2>6, <2>7, <2>8, <2>9, <2>10, <1>c DEF ServerInv
<1> QED BY <1>1, <1>2

(* The connection that accept() takes is nobody's yet. *)
LEMMA FirstFacts ==
  ASSUME ServerInv, backlog # <<>>
  PROVE  /\ Head(backlog) \in Conns /\ Tail(backlog) \in Seq(Conns)
         /\ conn[Head(backlog)] = "backlog" /\ hpc[Head(backlog)] = "none"
         /\ \A f \in Fds : fdtab[f] # Head(backlog)
         /\ Distinct(Tail(backlog)) /\ ~InSeq(Head(backlog), Tail(backlog))
         /\ \A x : InSeq(x, backlog) <=> x = Head(backlog) \/ InSeq(x, Tail(backlog))
<1> USE NoneAssumption
<1>1. backlog \in Seq(Conns) /\ Distinct(backlog)
  BY DEF ServerInv, TypeOK, ConnOK
<1>2. /\ Head(backlog) \in Conns /\ Tail(backlog) \in Seq(Conns)
      /\ InSeq(Head(backlog), backlog)
      /\ Distinct(Tail(backlog)) /\ ~InSeq(Head(backlog), Tail(backlog))
      /\ \A x : InSeq(x, backlog) <=> x = Head(backlog) \/ InSeq(x, Tail(backlog))
  BY <1>1, HeadFacts
<1>3. conn[Head(backlog)] = "backlog" /\ hpc[Head(backlog)] = "none"
  BY <1>2 DEF ServerInv, ConnOK
<1>4. \A f \in Fds : fdtab[f] # Head(backlog)
  BY <1>2, <1>3 DEF ServerInv, FdOK, Handles
<1> QED BY <1>2, <1>3, <1>4

LEMMA AcceptStep ==
  ASSUME ServerInv, NEW s \in Scheds, Accept(s)
  PROVE  ServerInv'
<1> USE ThreadsAssumption, NoneAssumption
<1> DEFINE k == Head(backlog)
<1>a. PICK f \in Fds :
        /\ backlog # <<>> /\ fdtab[f] = None
        /\ backlog' = Tail(backlog)
        /\ fdtab' = [fdtab EXCEPT ![f] = k]
        /\ conn' = [conn EXCEPT ![k] = "accepted"]
        /\ hpc' = [hpc EXCEPT ![k] = "start"]
        /\ hsched' = [hsched EXCEPT ![k] = s]
        /\ hfd' = [hfd EXCEPT ![k] = f]
        /\ ready' = [ready EXCEPT ![s] = Append(@, k)]
  BY DEF Accept, TakeFirst
<1>b. /\ spc[s] = "run" /\ cur[s] = s /\ lpc[s] = "accept"
      /\ lpc' = [lpc EXCEPT ![s] = "check"]
      /\ UNCHANGED <<cont, clientVars, pthreadVars, defer, busy, waitVars, eventVars,
                     ops, faults>>
  BY DEF Accept, At, Running, LGoto
<1> USE DEF clientVars, pthreadVars, waitVars, eventVars
<1>c. /\ k \in Conns /\ Tail(backlog) \in Seq(Conns)
      /\ conn[k] = "backlog" /\ hpc[k] = "none"
      /\ \A h \in Fds : fdtab[h] # k
      /\ Distinct(Tail(backlog)) /\ ~InSeq(k, Tail(backlog))
      /\ \A x : InSeq(x, backlog) <=> x = k \/ InSeq(x, Tail(backlog))
  BY <1>a, FirstFacts
<1>d. k \in Threads /\ k # None /\ k \notin Scheds
  BY <1>c DEF Threads
<1> HIDE DEF k
<1>e. \A t \in Scheds : /\ cur[t] # k /\ k \notin busy[t] /\ k \notin sleeping[t]
                        /\ ~Waits(t, k) /\ ~InSeq(k, ready[t])
  <2> TAKE t \in Scheds
  <2>1. cur[t] # k
    BY <1>c, <1>d DEF ServerInv, PcOK, Handles
  <2>2. k \notin busy[t] /\ k \notin sleeping[t] /\ ~InSeq(k, ready[t])
    BY <1>c, <1>d DEF ServerInv, BusyOK, SleepingOK, ReadyOK
  <2>3. ~Waits(t, k)
    BY <1>c, <1>d, WaiterFacts DEF Waits, Handles
  <2> QED BY <2>1, <2>2, <2>3
<1>f. PICK q \in Seq(Threads) :
        /\ ready' = [ready EXCEPT ![s] = q]
        /\ Distinct(q) /\ \A y : InSeq(y, q) <=> y = k \/ InSeq(y, ready[s])
  <2>1. ready[s] \in Seq(Threads) /\ Distinct(ready[s])
    BY DEF ServerInv, TypeOK, ReadyOK
  <2>2. /\ Append(ready[s], k) \in Seq(Threads) /\ Distinct(Append(ready[s], k))
        /\ \A y : InSeq(y, Append(ready[s], k)) <=> y = k \/ InSeq(y, ready[s])
    BY <2>1, <1>d, <1>e, AppendFacts
  <2> QED BY <2>2, <1>a
<1>g. \A h \in Conns : /\ Handles(h)' <=> h = k \/ Handles(h)
                       /\ h # k => hpc'[h] = hpc[h] /\ hsched'[h] = hsched[h] /\ hfd'[h] = hfd[h]
  BY <1>a, <1>c, Types DEF Handles
<1>h. hpc'[k] = "start" /\ hsched'[k] = s /\ hfd'[k] = f /\ conn'[k] = "accepted"
  BY <1>a, <1>c, Types
<1>i. \A w \in waiting[s] : w.lt # s
  BY <1>b DEF ServerInv, WaitingOK
<1>1. TypeOK'
  BY <1>a, <1>b, <1>c, <1>f DEF ServerInv, TypeOK
<1>2. PcOK'
  BY <1>b, <1>e, <1>g, Types DEF ServerInv, PcOK
<1>3. ReadyOK'
  BY <1>b, <1>d, <1>e, <1>f, <1>g, <1>h, Types DEF ServerInv, ReadyOK, Waits
<1>4. WaitingOK'
  BY <1>b, <1>e, <1>g, <1>i, Types DEF ServerInv, WaitingOK, Waits
<1>5. BusyOK'
  BY <1>b, <1>e, <1>g, Types DEF ServerInv, BusyOK
<1>6. SleepingOK'
  BY <1>b, <1>e, <1>g, Types DEF ServerInv, SleepingOK, Waits
<1>7. KeptOK'
  BY <1>b, <1>d, <1>f, <1>g, <1>h, Types, SMTT(30) DEF ServerInv, KeptOK, Waits
<1>8. FdOK'
  <2>1. \A h \in Fds : fdtab[h] \in Conns \cup {None}
    BY DEF ServerInv, TypeOK
  <2> QED BY <2>1, <1>a, <1>c, <1>g, <1>h, Types DEF ServerInv, FdOK
<1>9. ConnOK'
  BY <1>a, <1>c, <1>g, <1>h, Types DEF ServerInv, ConnOK
<1>10. ArmedOK'
  BY <1>b, ArmedFrame DEF ServerInv
<1>11. DoneOK'
  BY <1>b, <1>g, <1>h, Types DEF ServerInv, DoneOK
<1> QED BY <1>1, <1>2, <1>3, <1>4, <1>5, <1>6, <1>7, <1>8, <1>9, <1>10, <1>11 DEF ServerInv

(* WaitFor() by the running lthread, with a timeout or without. *)
Registers(s, x, f, ev) ==
  /\ spc[s] = "run" /\ cur[s] = x
  /\ f \in Fds \cup {Listen} /\ ev \in {"read", "write"}
  /\ x \in Scheds => f = Listen
  /\ x \in Conns => f = hfd[x]
  /\ armed' = [armed EXCEPT ![s] = (@ \ ArmedOn(s, f)) \cup {[fd |-> f, ev |-> ev]}]
  /\ waiting' = [waiting EXCEPT ![s] = @ \cup {[fd |-> f, ev |-> ev, lt |-> x]}]
  /\ \/ sleeping' = sleeping
     \/ x \in Conns /\ sleeping' = [sleeping EXCEPT ![s] = @ \cup {x}]
  /\ Yield(s)
  /\ UNCHANGED <<events, evfd>>

(* A running lthread registers with epoll, waits, and yields.  It is the    *)
(* only one that waits on that descriptor.                                  *)
LEMMA WaitForStep ==
  ASSUME ServerInv, NEW s \in Scheds, NEW x \in Threads, NEW f, NEW ev,
         Registers(s, x, f, ev)
  PROVE  /\ ArmedOK'
         /\ waiting' \in [Scheds -> SUBSET [fd : Fds \cup {Listen}, ev : {"read", "write"},
                                            lt : Threads]]
         /\ armed' \in [Scheds -> SUBSET [fd : Fds \cup {Listen}, ev : {"read", "write"}]]
         /\ sleeping' \in [Scheds -> SUBSET Conns]
         /\ spc' \in [Scheds -> {"expire", "ready", "run", "defer", "poll",
                                 "events", "write", "done"}]
         /\ cur' \in [Scheds -> Threads \cup {None}]
         /\ loop' = loop
         /\ x \notin sleeping[s] /\ ~Waits(s, x)
         /\ \A t \in Scheds :
              /\ t # s => /\ waiting'[t] = waiting[t] /\ sleeping'[t] = sleeping[t]
                          /\ spc'[t] = spc[t] /\ cur'[t] = cur[t]
              /\ \A y : Waits(t, y)' <=> Waits(t, y) \/ (t = s /\ y = x)
         /\ waiting'[s] = waiting[s] \cup {[fd |-> f, ev |-> ev, lt |-> x]}
         /\ spc'[s] = loop[s] /\ cur'[s] = None
<1> USE ThreadsAssumption, NoneAssumption, ListenAssumption
<1> DEFINE n == [fd |-> f, ev |-> ev, lt |-> x]
           a == [fd |-> f, ev |-> ev]
<1>r. /\ spc[s] = "run" /\ cur[s] = x
      /\ f \in Fds \cup {Listen} /\ ev \in {"read", "write"}
      /\ x \in Scheds => f = Listen
      /\ x \in Conns => f = hfd[x]
      /\ UNCHANGED <<events, evfd>>
  BY DEF Registers
<1> USE <1>r
<1>a. /\ armed' = [armed EXCEPT ![s] = (@ \ ArmedOn(s, f)) \cup {a}]
      /\ waiting' = [waiting EXCEPT ![s] = @ \cup {n}]
      /\ sleeping' = sleeping \/ (x \in Conns /\ sleeping' = [sleeping EXCEPT ![s] = @ \cup {x}])
      /\ spc' = [spc EXCEPT ![s] = loop[s]]
      /\ cur' = [cur EXCEPT ![s] = None]
      /\ loop' = loop
  BY DEF Registers, Yield
<1>b. n \in [fd : Fds \cup {Listen}, ev : {"read", "write"}, lt : Threads] /\ n.lt = x
  OBVIOUS
<1>c. a \in [fd : Fds \cup {Listen}, ev : {"read", "write"}] /\ a.fd = f
  OBVIOUS
<1>d. ~Waits(s, x)
  BY DEF ServerInv, WaitingOK, Waits
<1>e. x \notin sleeping[s]
  BY <1>d DEF ServerInv, SleepingOK
<1>f. waiting'[s] = waiting[s] \cup {n} /\ \A t \in Scheds : t # s => waiting'[t] = waiting[t]
  BY <1>a, Types
<1>1. waiting' \in [Scheds -> SUBSET [fd : Fds \cup {Listen}, ev : {"read", "write"},
                                      lt : Threads]]
  <2> HIDE DEF n
  <2> QED BY <1>a, <1>b DEF ServerInv, TypeOK
<1>2. armed' \in [Scheds -> SUBSET [fd : Fds \cup {Listen}, ev : {"read", "write"}]]
  <2> HIDE DEF a
  <2> QED BY <1>a, <1>c DEF ServerInv, TypeOK
<1>3. \A t \in Scheds : \A y : Waits(t, y)' <=> Waits(t, y) \/ (t = s /\ y = x)
  <2> HIDE DEF n
  <2> QED BY <1>b, <1>f DEF Waits
<1>4. ArmedOK'
  <2> SUFFICES ASSUME NEW t \in Scheds, NEW v \in waiting'[t]
               PROVE  \/ [fd |-> v.fd, ev |-> v.ev] \in armed'[t]
                      \/ \E d \in events[t] : d.fd = v.fd
                      \/ evfd[t] # None /\ evfd[t].fd = v.fd /\ v.ev = "write"
    BY DEF ArmedOK
  <2>1. CASE t = s /\ v = n
    <3>1. [fd |-> v.fd, ev |-> v.ev] = a
      BY <2>1
    <3> QED BY <3>1, <2>1, <1>a, Types
  <2>2. CASE ~(t = s /\ v = n)
    <3>1. v \in waiting[t]
      BY <2>2, <1>f
    <3>2. t = s => v.fd # f
      <4> SUFFICES ASSUME t = s, v.fd = f PROVE FALSE
        OBVIOUS
      <4>1. v.lt # x
        BY <3>1, <1>d DEF Waits
      <4>2. /\ v.lt \in Threads
            /\ v.lt \in Scheds => v.lt = s /\ v.fd = Listen
            /\ v.lt \in Conns => v.fd \in Fds /\ fdtab[v.fd] = v.lt
        BY <3>1, WaiterFacts
      <4>3. x \in Conns => f \in Fds /\ fdtab[f] = x
        BY DEF ServerInv, PcOK, FdOK
      <4>4. x \in Scheds => x = s
        BY DEF ServerInv, PcOK
      <4> QED BY <4>1, <4>2, <4>3, <4>4 DEF Threads
    <3>3. [fd |-> v.fd, ev |-> v.ev].fd = v.fd
      OBVIOUS
    <3>4. [fd |-> v.fd, ev |-> v.ev] \in armed[t] => [fd |-> v.fd, ev |-> v.ev] \in armed'[t]
      <4> HIDE DEF a
      <4> QED BY <1>a, <3>2, <3>3, Types DEF ArmedOn
    <3> QED BY <3>1, <3>4 DEF ServerInv, ArmedOK
  <2> QED BY <2>1, <2>2
<1>5. sleeping' \in [Scheds -> SUBSET Conns]
  BY <1>a, Types DEF Threads
<1>6. /\ spc' \in [Scheds -> {"expire", "ready", "run", "defer", "poll",
                              "events", "write", "done"}]
      /\ cur' \in [Scheds -> Threads \cup {None}]
  BY <1>a, Types
<1>7. /\ \A t \in Scheds : t # s => /\ sleeping'[t] = sleeping[t] /\ spc'[t] = spc[t]
                                    /\ cur'[t] = cur[t]
      /\ spc'[s] = loop[s] /\ cur'[s] = None
  BY <1>a, Types
<1> QED BY <1>1, <1>2, <1>3, <1>4, <1>5, <1>6, <1>7, <1>a, <1>d, <1>e, <1>f

LEMMA AcceptLeakStep ==
  ASSUME ServerInv, NEW s \in Scheds, AcceptLeak(s)
  PROVE  ServerInv'
<1> USE ThreadsAssumption, NoneAssumption
<1> DEFINE k == Head(backlog)
<1>a. PICK f \in Fds :
        /\ backlog # <<>> /\ fdtab[f] = None
        /\ backlog' = Tail(backlog)
        /\ fdtab' = [fdtab EXCEPT ![f] = k]
        /\ conn' = [conn EXCEPT ![k] = "leaked"]
  BY DEF AcceptLeak, TakeFirst
<1>b. /\ lpc[s] = "accept" /\ lpc' = [lpc EXCEPT ![s] = "check"]
      /\ cur[s] = s /\ spc[s] = "run"
      /\ faults < MaxFaults /\ faults' = faults + 1
      /\ UNCHANGED <<cont, clientVars, pthreadVars, listVars, waitVars, eventVars,
                     ops, handlerVars>>
  BY DEF AcceptLeak, At, Running, LGoto, MayFail
<1> USE DEF clientVars, pthreadVars, listVars, waitVars, eventVars, handlerVars
<1>c. /\ k \in Conns /\ Tail(backlog) \in Seq(Conns)
      /\ conn[k] = "backlog" /\ hpc[k] = "none"
      /\ Distinct(Tail(backlog)) /\ ~InSeq(k, Tail(backlog))
      /\ \A x : InSeq(x, backlog) <=> x = k \/ InSeq(x, Tail(backlog))
  BY <1>a, FirstFacts
<1> HIDE DEF k
<1>d. faults' \in 0..MaxFaults
  BY <1>b, MaxFaultsAssumption DEF ServerInv, TypeOK
<1>1. TypeOK'
  BY <1>a, <1>b, <1>c, <1>d DEF ServerInv, TypeOK
<1>2. PcOK'
  BY <1>b, Types DEF ServerInv, PcOK, Handles
<1>3. ReadyOK' /\ WaitingOK' /\ BusyOK' /\ SleepingOK'
  BY <1>b, Types DEF ServerInv, ReadyOK, WaitingOK, BusyOK, SleepingOK, Waits
<1>4. KeptOK' /\ DoneOK'
  BY <1>b, Types DEF ServerInv, KeptOK, DoneOK, Handles, Waits
<1>5. FdOK'
  <2>1. \A h \in Fds : fdtab[h] \in Conns \cup {None}
    BY DEF ServerInv, TypeOK
  <2> QED BY <2>1, <1>a, <1>b, <1>c, Types, SMTT(30) DEF ServerInv, FdOK, Handles
<1>6. ConnOK'
  BY <1>a, <1>b, <1>c, Types DEF ServerInv, ConnOK, Handles
<1>7. ArmedOK'
  BY <1>b, ArmedFrame DEF ServerInv
<1> QED BY <1>1, <1>2, <1>3, <1>4, <1>5, <1>6, <1>7 DEF ServerInv

LEMMA AcceptAbortedStep ==
  ASSUME ServerInv, NEW s \in Scheds, AcceptAborted(s)
  PROVE  ServerInv'
<1> USE ThreadsAssumption, NoneAssumption
<1> DEFINE k == Head(backlog)
<1>a. /\ backlog # <<>>
      /\ backlog' = Tail(backlog)
      /\ conn' = [conn EXCEPT ![k] = "closed"]
      /\ lpc[s] = "accept" /\ lpc' = [lpc EXCEPT ![s] = "renice"]
      /\ cur[s] = s /\ spc[s] = "run"
      /\ peer' = [peer EXCEPT ![k] = "quiet"] /\ full' = full \ {k}
      /\ UNCHANGED <<cont, fdtab, pthreadVars, listVars, waitVars, eventVars,
                     ops, handlerVars, faults>>
  BY DEF AcceptAborted, Forget, At, Running, LGoto
<1> USE DEF pthreadVars, listVars, waitVars, eventVars, handlerVars
<1>b. /\ k \in Conns /\ Tail(backlog) \in Seq(Conns)
      /\ conn[k] = "backlog" /\ hpc[k] = "none"
      /\ \A f \in Fds : fdtab[f] # k
      /\ Distinct(Tail(backlog)) /\ ~InSeq(k, Tail(backlog))
      /\ \A x : InSeq(x, backlog) <=> x = k \/ InSeq(x, Tail(backlog))
  BY <1>a, FirstFacts
<1> HIDE DEF k
<1>1. TypeOK'
  BY <1>a, <1>b DEF ServerInv, TypeOK
<1>2. PcOK'
  BY <1>a, Types DEF ServerInv, PcOK, Handles
<1>3. ReadyOK' /\ BusyOK' /\ SleepingOK'
  BY <1>a, Types DEF ServerInv, ReadyOK, BusyOK, SleepingOK, Waits
<1>4. WaitingOK'
  BY <1>a, Types DEF ServerInv, WaitingOK
<1>5. KeptOK' /\ DoneOK'
  BY <1>a, Types DEF ServerInv, KeptOK, DoneOK, Handles, Waits
<1>6. FdOK'
  BY <1>a, <1>b, Types DEF ServerInv, FdOK, Handles
<1>7. ConnOK'
  BY <1>a, <1>b, Types DEF ServerInv, ConnOK, Handles
<1>8. ArmedOK'
  BY <1>a, ArmedFrame DEF ServerInv
<1> QED BY <1>1, <1>2, <1>3, <1>4, <1>5, <1>6, <1>7, <1>8 DEF ServerInv

LEMMA AcceptWaitStep ==
  ASSUME ServerInv, NEW s \in Scheds, AcceptWait(s)
  PROVE  ServerInv'
<1> USE ThreadsAssumption, NoneAssumption, ListenAssumption
<1>a. /\ spc[s] = "run" /\ cur[s] = s /\ lpc[s] = "accept"
      /\ armed' = [armed EXCEPT ![s] = (@ \ ArmedOn(s, Listen)) \cup
                                         {[fd |-> Listen, ev |-> "read"]}]
      /\ waiting' = [waiting EXCEPT ![s] = @ \cup
                                             {[fd |-> Listen, ev |-> "read", lt |-> s]}]
      /\ sleeping' = sleeping /\ Yield(s)
      /\ ops' = [ops EXCEPT ![s] = 0]
      /\ lpc' = [lpc EXCEPT ![s] = "renice"]
      /\ UNCHANGED <<cont, kernelVars, clientVars, listVars, eventVars, handlerVars, faults>>
  <2>1. sleeping' = sleeping
    BY DEF AcceptWait, WaitFor, ServerInv, TypeOK
  <2> QED BY <2>1 DEF AcceptWait, At, Running, LGoto, WaitFor
<1> USE DEF kernelVars, clientVars, listVars, eventVars, handlerVars
<1> DEFINE n == [fd |-> Listen, ev |-> "read", lt |-> s]
<1>b. /\ ArmedOK'
      /\ waiting' \in [Scheds -> SUBSET [fd : Fds \cup {Listen}, ev : {"read", "write"},
                                         lt : Threads]]
      /\ armed' \in [Scheds -> SUBSET [fd : Fds \cup {Listen}, ev : {"read", "write"}]]
      /\ sleeping' \in [Scheds -> SUBSET Conns]
      /\ spc' \in [Scheds -> {"expire", "ready", "run", "defer", "poll",
                              "events", "write", "done"}]
      /\ cur' \in [Scheds -> Threads \cup {None}]
      /\ loop' = loop
      /\ \A t \in Scheds :
           /\ t # s => /\ waiting'[t] = waiting[t] /\ sleeping'[t] = sleeping[t]
                       /\ spc'[t] = spc[t] /\ cur'[t] = cur[t]
           /\ \A y : Waits(t, y)' <=> Waits(t, y) \/ (t = s /\ y = s)
      /\ waiting'[s] = waiting[s] \cup {n}
      /\ spc'[s] = loop[s] /\ cur'[s] = None
  <2>1. Registers(s, s, Listen, "read") /\ s \in Threads
    BY <1>a DEF Registers, Threads
  <2> QED BY <2>1, WaitForStep
<1>c. n.fd = Listen /\ n.ev = "read" /\ n.lt = s
  OBVIOUS
<1> HIDE DEF n
<1>d. ops' \in [Scheds -> 0..NiceOps-1]
  BY <1>a, NiceOpsAssumption DEF ServerInv, TypeOK
<1>e. s \in Threads /\ s \notin busy[s] /\ ~InSeq(s, ready[s])
  BY <1>a DEF ServerInv, ReadyOK, BusyOK, Threads
<1>1. TypeOK'
  BY <1>a, <1>b, <1>d DEF ServerInv, TypeOK
<1>2. PcOK'
  BY <1>a, <1>b, Types DEF ServerInv, PcOK, Handles
<1>3. ReadyOK'
  BY <1>a, <1>b, <1>e, Types DEF ServerInv, ReadyOK, Threads
<1>4. WaitingOK'
  <2> SUFFICES ASSUME NEW t \in Scheds, NEW v \in waiting'[t]
               PROVE  /\ cur'[t] # v.lt /\ v.lt \notin busy[t]
                      /\ v.lt \in Scheds =>
                           v.lt = t /\ v.fd = Listen /\ v.ev = "read" /\ lpc'[t] = "renice"
                      /\ v.lt \in Conns =>
                           /\ hsched[v.lt] = t /\ v.fd = hfd[v.lt]
                           /\ v.ev = "read" => hpc[v.lt] = "recv"
                           /\ v.ev = "write" => hpc[v.lt] = "send"
    BY <1>a DEF WaitingOK
  <2>1. CASE t = s /\ v = n
    BY <2>1, <1>a, <1>b, <1>c, <1>e, Types
  <2>2. CASE ~(t = s /\ v = n)
    <3>1. v \in waiting[t]
      BY <2>2, <1>b
    <3>2. v.lt \in Threads
      BY <3>1, WaiterFacts
    <3> QED BY <3>1, <3>2, <1>a, <1>b, Types DEF ServerInv, WaitingOK, Threads
  <2> QED BY <2>1, <2>2
<1>5. BusyOK'
  BY <1>a, <1>b, <1>e, Types DEF ServerInv, BusyOK, Threads
<1>6. SleepingOK'
  BY <1>a, <1>b, Types DEF ServerInv, SleepingOK
<1>7. KeptOK'
  BY <1>a, <1>b, Types DEF ServerInv, KeptOK, Handles
<1>8. FdOK' /\ ConnOK'
  BY <1>a DEF ServerInv, FdOK, ConnOK, Handles
<1>9. DoneOK'
  BY <1>a, <1>b, Types DEF ServerInv, DoneOK, Handles
<1> QED BY <1>1, <1>2, <1>3, <1>4, <1>5, <1>6, <1>7, <1>8, <1>9, <1>b DEF ServerInv

LEMMA StopStep ==
  ASSUME ServerInv, NEW s \in Scheds, Stop(s)
  PROVE  ServerInv'
<1> USE ThreadsAssumption, NoneAssumption DEF kernelVars, clientVars, pthreadVars, listVars,
          waitVars, eventVars, listenerVars, handlerVars
<1>1. TypeOK'
  BY NiceOpsAssumption, MaxFaultsAssumption DEF ServerInv, TypeOK, Stop, At, LGoto,
     Yield, Running, Threads, pthreadVars, listVars, waitVars, eventVars, listenerVars,
     handlerVars, kernelVars, clientVars
<1>2. PcOK'
  BY Types DEF ServerInv, PcOK, Stop, At, LGoto, Yield, Running, Handles, Threads,
     pthreadVars, listVars, waitVars, eventVars, listenerVars, handlerVars, kernelVars,
     clientVars
<1>3. ReadyOK'
  BY Types DEF ServerInv, ReadyOK, PcOK, WaitingOK, BusyOK, Stop, At, LGoto, Yield,
     Running, Waits, Handles, Threads, pthreadVars, listVars, waitVars, eventVars,
     listenerVars, handlerVars, kernelVars, clientVars
<1>4. WaitingOK'
  BY Types DEF ServerInv, WaitingOK, PcOK, ReadyOK, BusyOK, FdOK, Stop, At, LGoto,
     Yield, Running, Waits, Handles, Threads, pthreadVars, listVars, waitVars,
     eventVars, listenerVars, handlerVars, kernelVars, clientVars
<1>5. BusyOK'
  BY Types DEF ServerInv, BusyOK, PcOK, ReadyOK, WaitingOK, Stop, At, LGoto, Yield,
     Running, Waits, Handles, Threads, pthreadVars, listVars, waitVars, eventVars,
     listenerVars, handlerVars, kernelVars, clientVars
<1>6. SleepingOK'
  BY Types DEF ServerInv, SleepingOK, PcOK, WaitingOK, Stop, At, LGoto, Yield, Running,
     Waits, Handles, Threads, pthreadVars, listVars, waitVars, eventVars, listenerVars,
     handlerVars, kernelVars, clientVars
<1>7. KeptOK'
  BY Types DEF ServerInv, KeptOK, PcOK, Stop, At, LGoto, Yield, Running, Waits,
     Handles, Threads, pthreadVars, listVars, waitVars, eventVars, listenerVars,
     handlerVars, kernelVars, clientVars
<1>8. FdOK'
  BY Types DEF ServerInv, FdOK, PcOK, Stop, At, LGoto, Yield, Running, Handles,
     Threads, pthreadVars, listVars, waitVars, eventVars, listenerVars, handlerVars,
     kernelVars, clientVars
<1>9. ConnOK'
  BY Types DEF ServerInv, ConnOK, PcOK, Stop, At, LGoto, Yield, Running, Handles,
     Threads, pthreadVars, listVars, waitVars, eventVars, listenerVars, handlerVars,
     kernelVars, clientVars
<1>10. ArmedOK'
  BY ArmedFrame DEF ServerInv, Stop, At, LGoto, Yield, Running
<1>11. DoneOK'
  BY Types DEF ServerInv, DoneOK, PcOK, Stop, At, LGoto, Yield, Running, Handles,
     Threads, pthreadVars, listVars, waitVars, eventVars, listenerVars, handlerVars,
     kernelVars, clientVars
<1> QED BY <1>1, <1>2, <1>3, <1>4, <1>5, <1>6, <1>7, <1>8, <1>9, <1>10, <1>11 DEF ServerInv

LEMMA AcceptErrorStep ==
  ASSUME ServerInv, NEW s \in Scheds, AcceptError(s)
  PROVE  ServerInv'
<1> USE ThreadsAssumption, NoneAssumption DEF kernelVars, clientVars, pthreadVars, listVars,
          waitVars, eventVars, listenerVars, handlerVars
<1>1. TypeOK'
  BY NiceOpsAssumption, MaxFaultsAssumption DEF ServerInv, TypeOK, AcceptError, At,
     LGoto, Running, Away, Yield, MayFail, Threads, pthreadVars, listVars, waitVars,
     eventVars, listenerVars, handlerVars, kernelVars, clientVars
<1>2. PcOK'
  BY Types DEF ServerInv, PcOK, AcceptError, At, LGoto, Running, Away, Yield, MayFail,
     Handles, Threads, pthreadVars, listVars, waitVars, eventVars, listenerVars,
     handlerVars, kernelVars, clientVars
<1>3. ReadyOK'
  BY Types DEF ServerInv, ReadyOK, PcOK, WaitingOK, BusyOK, AcceptError, At, LGoto,
     Running, Away, Yield, MayFail, Waits, Handles, Threads, pthreadVars, listVars,
     waitVars, eventVars, listenerVars, handlerVars, kernelVars, clientVars
<1>4. WaitingOK'
  BY Types DEF ServerInv, WaitingOK, PcOK, ReadyOK, BusyOK, FdOK, AcceptError, At,
     LGoto, Running, Away, Yield, MayFail, Waits, Handles, Threads, pthreadVars,
     listVars, waitVars, eventVars, listenerVars, handlerVars, kernelVars, clientVars
<1>5. BusyOK'
  BY Types DEF ServerInv, BusyOK, PcOK, ReadyOK, WaitingOK, AcceptError, At, LGoto,
     Running, Away, Yield, MayFail, Waits, Handles, Threads, pthreadVars, listVars,
     waitVars, eventVars, listenerVars, handlerVars, kernelVars, clientVars
<1>6. SleepingOK'
  BY Types DEF ServerInv, SleepingOK, PcOK, WaitingOK, AcceptError, At, LGoto, Running,
     Away, Yield, MayFail, Waits, Handles, Threads, pthreadVars, listVars, waitVars,
     eventVars, listenerVars, handlerVars, kernelVars, clientVars
<1>7. KeptOK'
  BY Types DEF ServerInv, KeptOK, PcOK, AcceptError, At, LGoto, Running, Away, Yield,
     MayFail, Waits, Handles, Threads, pthreadVars, listVars, waitVars, eventVars,
     listenerVars, handlerVars, kernelVars, clientVars
<1>8. FdOK'
  BY Types DEF ServerInv, FdOK, PcOK, AcceptError, At, LGoto, Running, Away, Yield,
     MayFail, Handles, Threads, pthreadVars, listVars, waitVars, eventVars,
     listenerVars, handlerVars, kernelVars, clientVars
<1>9. ConnOK'
  BY Types DEF ServerInv, ConnOK, PcOK, AcceptError, At, LGoto, Running, Away, Yield,
     MayFail, Handles, Threads, pthreadVars, listVars, waitVars, eventVars,
     listenerVars, handlerVars, kernelVars, clientVars
<1>10. ArmedOK'
  BY ArmedFrame DEF ServerInv, AcceptError, At, LGoto, Running, Away, Yield, MayFail
<1>11. DoneOK'
  BY Types DEF ServerInv, DoneOK, PcOK, AcceptError, At, LGoto, Running, Away, Yield,
     MayFail, Handles, Threads, pthreadVars, listVars, waitVars, eventVars,
     listenerVars, handlerVars, kernelVars, clientVars
<1> QED BY <1>1, <1>2, <1>3, <1>4, <1>5, <1>6, <1>7, <1>8, <1>9, <1>10, <1>11 DEF ServerInv

LEMMA AcceptUnsetStep ==
  ASSUME ServerInv, NEW s \in Scheds, AcceptUnset(s)
  PROVE  ServerInv'
<1> USE ThreadsAssumption, NoneAssumption
<1> DEFINE k == Head(backlog)
<1>a. /\ backlog # <<>>
      /\ backlog' = Tail(backlog)
      /\ conn' = [conn EXCEPT ![k] = "closed"]
      /\ lpc[s] = "accept" /\ lpc' = [lpc EXCEPT ![s] = "return"]
      /\ cur[s] = s /\ spc[s] = "run"
      /\ peer' = [peer EXCEPT ![k] = "quiet"] /\ full' = full \ {k}
      /\ busy' = [busy EXCEPT ![s] = @ \cup {s}]
      /\ spc' = [spc EXCEPT ![s] = loop[s]] /\ cur' = [cur EXCEPT ![s] = None]
      /\ faults < MaxFaults /\ faults' = faults + 1
      /\ UNCHANGED <<cont, fdtab, loop, ready, defer, waitVars, eventVars, ops,
                     handlerVars>>
  BY DEF AcceptUnset, MayFail, Away, Yield, Forget, At, Running, LGoto
<1> USE DEF waitVars, eventVars, handlerVars
<1>b. /\ k \in Conns /\ Tail(backlog) \in Seq(Conns)
      /\ conn[k] = "backlog" /\ hpc[k] = "none"
      /\ \A f \in Fds : fdtab[f] # k
      /\ Distinct(Tail(backlog)) /\ ~InSeq(k, Tail(backlog))
      /\ \A x : InSeq(x, backlog) <=> x = k \/ InSeq(x, Tail(backlog))
  BY <1>a, FirstFacts
<1> HIDE DEF k
<1>c. /\ spc'[s] = loop[s] /\ loop[s] \in {"expire", "ready", "defer", "write", "events"}
      /\ cur'[s] = None /\ lpc'[s] = "return"
      /\ \A t \in Scheds : t # s => /\ spc'[t] = spc[t] /\ cur'[t] = cur[t]
                                    /\ lpc'[t] = lpc[t]
  BY <1>a, Types
<1>1. TypeOK'
  BY <1>a, <1>b, MaxFaultsAssumption DEF ServerInv, TypeOK, Threads
<1>2. PcOK'
  BY <1>a, <1>c, Types, SMTT(30) DEF ServerInv, PcOK, Handles, Threads
<1>3. ReadyOK'
  BY <1>a, Types DEF ServerInv, ReadyOK, PcOK, WaitingOK, BusyOK, Waits, Handles, Threads
<1>4. WaitingOK'
  BY <1>a, Types DEF ServerInv, WaitingOK, PcOK, ReadyOK, BusyOK, Waits, Threads
<1>5. BusyOK'
  BY <1>a, Types DEF ServerInv, BusyOK, PcOK, ReadyOK, WaitingOK, Waits, Threads
<1>6. SleepingOK'
  BY <1>a, Types DEF ServerInv, SleepingOK, Waits
<1>7. KeptOK'
  BY <1>a, Types DEF ServerInv, KeptOK, PcOK, Handles, Waits, Threads
<1>8. FdOK'
  BY <1>a, <1>b, Types DEF ServerInv, FdOK, Handles
<1>9. ConnOK'
  BY <1>a, <1>b, Types DEF ServerInv, ConnOK, Handles
<1>10. ArmedOK'
  BY <1>a, ArmedFrame DEF ServerInv
<1>11. DoneOK'
  BY <1>a, <1>c, Types DEF ServerInv, DoneOK, Handles
<1> QED BY <1>1, <1>2, <1>3, <1>4, <1>5, <1>6, <1>7, <1>8, <1>9, <1>10, <1>11 DEF ServerInv

LEMMA ReturnStep ==
  ASSUME ServerInv, NEW s \in Scheds, Return(s)
  PROVE  ServerInv'
<1> USE ThreadsAssumption, NoneAssumption DEF kernelVars, clientVars, pthreadVars, listVars,
          waitVars, eventVars, listenerVars, handlerVars
<1>1. TypeOK'
  BY NiceOpsAssumption, MaxFaultsAssumption DEF ServerInv, TypeOK, Return, At, LGoto,
     Yield, Running, Threads, pthreadVars, listVars, waitVars, eventVars, listenerVars,
     handlerVars, kernelVars, clientVars
<1>2. PcOK'
  BY Types DEF ServerInv, PcOK, Return, At, LGoto, Yield, Running, Handles, Threads,
     pthreadVars, listVars, waitVars, eventVars, listenerVars, handlerVars, kernelVars,
     clientVars
<1>3. ReadyOK'
  BY Types DEF ServerInv, ReadyOK, PcOK, WaitingOK, BusyOK, Return, At, LGoto, Yield,
     Running, Waits, Handles, Threads, pthreadVars, listVars, waitVars, eventVars,
     listenerVars, handlerVars, kernelVars, clientVars
<1>4. WaitingOK'
  BY Types DEF ServerInv, WaitingOK, PcOK, ReadyOK, BusyOK, FdOK, Return, At, LGoto,
     Yield, Running, Waits, Handles, Threads, pthreadVars, listVars, waitVars,
     eventVars, listenerVars, handlerVars, kernelVars, clientVars
<1>5. BusyOK'
  BY Types DEF ServerInv, BusyOK, PcOK, ReadyOK, WaitingOK, Return, At, LGoto, Yield,
     Running, Waits, Handles, Threads, pthreadVars, listVars, waitVars, eventVars,
     listenerVars, handlerVars, kernelVars, clientVars
<1>6. SleepingOK'
  BY Types DEF ServerInv, SleepingOK, PcOK, WaitingOK, Return, At, LGoto, Yield,
     Running, Waits, Handles, Threads, pthreadVars, listVars, waitVars, eventVars,
     listenerVars, handlerVars, kernelVars, clientVars
<1>7. KeptOK'
  BY Types DEF ServerInv, KeptOK, PcOK, Return, At, LGoto, Yield, Running, Waits,
     Handles, Threads, pthreadVars, listVars, waitVars, eventVars, listenerVars,
     handlerVars, kernelVars, clientVars
<1>8. FdOK'
  BY Types DEF ServerInv, FdOK, PcOK, Return, At, LGoto, Yield, Running, Handles,
     Threads, pthreadVars, listVars, waitVars, eventVars, listenerVars, handlerVars,
     kernelVars, clientVars
<1>9. ConnOK'
  BY Types DEF ServerInv, ConnOK, PcOK, Return, At, LGoto, Yield, Running, Handles,
     Threads, pthreadVars, listVars, waitVars, eventVars, listenerVars, handlerVars,
     kernelVars, clientVars
<1>10. ArmedOK'
  BY ArmedFrame DEF ServerInv, Return, At, LGoto, Yield, Running
<1>11. DoneOK'
  BY Types DEF ServerInv, DoneOK, PcOK, Return, At, LGoto, Yield, Running, Handles,
     Threads, pthreadVars, listVars, waitVars, eventVars, listenerVars, handlerVars,
     kernelVars, clientVars
<1> QED BY <1>1, <1>2, <1>3, <1>4, <1>5, <1>6, <1>7, <1>8, <1>9, <1>10, <1>11 DEF ServerInv

-----------------------------------------------------------------------------
(* The handler.                                                             *)

LEMMA RecvWaitStep ==
  ASSUME ServerInv, NEW s \in Scheds, NEW k \in Conns, RecvWait(s, k)
  PROVE  ServerInv'
<1> USE ThreadsAssumption, NoneAssumption
<1>a. /\ spc[s] = "run" /\ cur[s] = k /\ hpc[k] \in {"start", "recv"}
      /\ armed' = [armed EXCEPT ![s] = (@ \ ArmedOn(s, hfd[k])) \cup
                                         {[fd |-> hfd[k], ev |-> "read"]}]
      /\ waiting' = [waiting EXCEPT ![s] = @ \cup
                                             {[fd |-> hfd[k], ev |-> "read", lt |-> k]}]
      /\ sleeping' = [sleeping EXCEPT ![s] = @ \cup {k}] /\ Yield(s)
      /\ hpc' = [hpc EXCEPT ![k] = "recv"]
      /\ UNCHANGED <<cont, kernelVars, clientVars, listVars, eventVars, listenerVars,
                     hsched, hfd, faults>>
  BY DEF RecvWait, In, Running, HGoto, WaitFor
<1> USE DEF kernelVars, clientVars, listVars, eventVars, listenerVars
<1> DEFINE n == [fd |-> hfd[k], ev |-> "read", lt |-> k]
<1>b. /\ Handles(k) /\ hsched[k] = s /\ hfd[k] \in Fds
      /\ k \in Threads /\ k \notin Scheds /\ k \notin busy[s] /\ ~InSeq(k, ready[s])
  BY <1>a DEF ServerInv, PcOK, FdOK, ReadyOK, BusyOK, Threads
<1>c. /\ ArmedOK'
      /\ waiting' \in [Scheds -> SUBSET [fd : Fds \cup {Listen}, ev : {"read", "write"},
                                         lt : Threads]]
      /\ armed' \in [Scheds -> SUBSET [fd : Fds \cup {Listen}, ev : {"read", "write"}]]
      /\ sleeping' \in [Scheds -> SUBSET Conns]
      /\ spc' \in [Scheds -> {"expire", "ready", "run", "defer", "poll",
                              "events", "write", "done"}]
      /\ cur' \in [Scheds -> Threads \cup {None}]
      /\ loop' = loop
      /\ k \notin sleeping[s] /\ ~Waits(s, k)
      /\ \A t \in Scheds :
           /\ t # s => /\ waiting'[t] = waiting[t] /\ sleeping'[t] = sleeping[t]
                       /\ spc'[t] = spc[t] /\ cur'[t] = cur[t]
           /\ \A y : Waits(t, y)' <=> Waits(t, y) \/ (t = s /\ y = k)
      /\ waiting'[s] = waiting[s] \cup {n}
      /\ spc'[s] = loop[s] /\ cur'[s] = None
  <2>1. Registers(s, k, hfd[k], "read")
    BY <1>a, <1>b DEF Registers
  <2> QED BY <2>1, <1>b, WaitForStep
<1>d. n.fd = hfd[k] /\ n.ev = "read" /\ n.lt = k
  OBVIOUS
<1> HIDE DEF n
<1>e. \A h \in Conns : /\ Handles(h)' <=> Handles(h)
                       /\ h # k => hpc'[h] = hpc[h]
                       /\ h = k => hpc'[h] = "recv"
  BY <1>a, <1>b, Types DEF Handles
<1>f. \A t \in Scheds : t # s => k \notin sleeping[t] /\ ~InSeq(k, ready[t]) /\ k \notin busy[t]
  BY <1>b DEF ServerInv, SleepingOK, WaitingOK, ReadyOK, BusyOK, Waits
<1>1. TypeOK'
  BY <1>a, <1>c DEF ServerInv, TypeOK
<1>2. PcOK'
  BY <1>a, <1>c, <1>e, Types DEF ServerInv, PcOK
<1>3. ReadyOK'
  BY <1>a, <1>b, <1>c, <1>e, <1>f, Types DEF ServerInv, ReadyOK, Threads
<1>4. WaitingOK'
  <2> SUFFICES ASSUME NEW t \in Scheds, NEW v \in waiting'[t]
               PROVE  /\ cur'[t] # v.lt /\ v.lt \notin busy[t]
                      /\ v.lt \in Scheds =>
                           v.lt = t /\ v.fd = Listen /\ v.ev = "read" /\ lpc[t] = "renice"
                      /\ v.lt \in Conns =>
                           /\ hsched[v.lt] = t /\ v.fd = hfd[v.lt]
                           /\ v.ev = "read" => hpc'[v.lt] = "recv"
                           /\ v.ev = "write" => hpc'[v.lt] = "send"
    BY <1>a DEF WaitingOK
  <2>1. CASE t = s /\ v = n
    BY <2>1, <1>b, <1>c, <1>d, <1>e
  <2>2. CASE ~(t = s /\ v = n)
    <3>1. v \in waiting[t]
      BY <2>2, <1>c
    <3>2. v.lt \in Threads /\ v.lt # k
      BY <3>1, <1>b, <1>c, WaiterFacts DEF Waits
    <3>3. cur'[t] # v.lt
      BY <3>1, <3>2, <1>c, Types DEF ServerInv, WaitingOK, Threads
    <3> QED BY <3>1, <3>2, <3>3, <1>e DEF ServerInv, WaitingOK
  <2> QED BY <2>1, <2>2
<1>5. BusyOK'
  BY <1>a, <1>b, <1>c, <1>e, <1>f, Types DEF ServerInv, BusyOK, Threads
<1>6. SleepingOK'
  BY <1>a, <1>b, <1>c, <1>e, Types DEF ServerInv, SleepingOK
<1>7. KeptOK'
  BY <1>a, <1>b, <1>c, <1>e, Types DEF ServerInv, KeptOK
<1>8. FdOK'
  <2>1. \A f \in Fds : fdtab[f] \in Conns \cup {None}
    BY DEF ServerInv, TypeOK
  <2> QED BY <2>1, <1>a, <1>e DEF ServerInv, FdOK
<1>9. ConnOK'
  BY <1>a, <1>b, <1>e DEF ServerInv, ConnOK, Handles
<1>10. DoneOK'
  BY <1>a, <1>b, <1>c, <1>e, Types DEF ServerInv, DoneOK
<1> QED BY <1>1, <1>2, <1>3, <1>4, <1>5, <1>6, <1>7, <1>8, <1>9, <1>10, <1>c DEF ServerInv

LEMMA SendWaitStep ==
  ASSUME ServerInv, NEW s \in Scheds, NEW k \in Conns, SendWait(s, k)
  PROVE  ServerInv'
<1> USE ThreadsAssumption, NoneAssumption
<1>a. /\ spc[s] = "run" /\ cur[s] = k /\ hpc[k] \in {"send"}
      /\ armed' = [armed EXCEPT ![s] = (@ \ ArmedOn(s, hfd[k])) \cup
                                         {[fd |-> hfd[k], ev |-> "write"]}]
      /\ waiting' = [waiting EXCEPT ![s] = @ \cup
                                             {[fd |-> hfd[k], ev |-> "write", lt |-> k]}]
      /\ sleeping' = sleeping /\ Yield(s)
      /\ hpc' = [hpc EXCEPT ![k] = "send"]
      /\ UNCHANGED <<cont, kernelVars, clientVars, listVars, eventVars, listenerVars,
                     hsched, hfd, faults>>
  <2>1. /\ spc[s] = "run" /\ cur[s] = k /\ hpc[k] = "send"
        /\ armed' = [armed EXCEPT ![s] = (@ \ ArmedOn(s, hfd[k])) \cup
                                           {[fd |-> hfd[k], ev |-> "write"]}]
        /\ waiting' = [waiting EXCEPT ![s] = @ \cup
                                               {[fd |-> hfd[k], ev |-> "write", lt |-> k]}]
        /\ sleeping' = sleeping /\ Yield(s)
        /\ hpc' = hpc
        /\ UNCHANGED <<cont, kernelVars, clientVars, listVars, eventVars, listenerVars,
                       hsched, hfd, faults>>
    <3>1. sleeping' = sleeping
      BY DEF SendWait, WaitFor, ServerInv, TypeOK
    <3> QED BY <3>1 DEF SendWait, In, Running, handlerVars, WaitFor
  <2>2. hpc = [hpc EXCEPT ![k] = "send"]
    BY <2>1 DEF ServerInv, TypeOK
  <2> QED BY <2>1, <2>2
<1> USE DEF kernelVars, clientVars, listVars, eventVars, listenerVars
<1> DEFINE n == [fd |-> hfd[k], ev |-> "write", lt |-> k]
<1>b. /\ Handles(k) /\ hsched[k] = s /\ hfd[k] \in Fds
      /\ k \in Threads /\ k \notin Scheds /\ k \notin busy[s] /\ ~InSeq(k, ready[s])
  BY <1>a DEF ServerInv, PcOK, FdOK, ReadyOK, BusyOK, Threads
<1>c. /\ ArmedOK'
      /\ waiting' \in [Scheds -> SUBSET [fd : Fds \cup {Listen}, ev : {"read", "write"},
                                         lt : Threads]]
      /\ armed' \in [Scheds -> SUBSET [fd : Fds \cup {Listen}, ev : {"read", "write"}]]
      /\ sleeping' \in [Scheds -> SUBSET Conns]
      /\ spc' \in [Scheds -> {"expire", "ready", "run", "defer", "poll",
                              "events", "write", "done"}]
      /\ cur' \in [Scheds -> Threads \cup {None}]
      /\ loop' = loop
      /\ k \notin sleeping[s] /\ ~Waits(s, k)
      /\ \A t \in Scheds :
           /\ t # s => /\ waiting'[t] = waiting[t] /\ sleeping'[t] = sleeping[t]
                       /\ spc'[t] = spc[t] /\ cur'[t] = cur[t]
           /\ \A y : Waits(t, y)' <=> Waits(t, y) \/ (t = s /\ y = k)
      /\ waiting'[s] = waiting[s] \cup {n}
      /\ spc'[s] = loop[s] /\ cur'[s] = None
  <2>1. Registers(s, k, hfd[k], "write")
    BY <1>a, <1>b DEF Registers
  <2> QED BY <2>1, <1>b, WaitForStep
<1>d. n.fd = hfd[k] /\ n.ev = "write" /\ n.lt = k
  OBVIOUS
<1> HIDE DEF n
<1>e. \A h \in Conns : /\ Handles(h)' <=> Handles(h)
                       /\ h # k => hpc'[h] = hpc[h]
                       /\ h = k => hpc'[h] = "send"
  BY <1>a, <1>b, Types DEF Handles
<1>f. \A t \in Scheds : t # s => k \notin sleeping[t] /\ ~InSeq(k, ready[t]) /\ k \notin busy[t]
  BY <1>b DEF ServerInv, SleepingOK, WaitingOK, ReadyOK, BusyOK, Waits
<1>1. TypeOK'
  BY <1>a, <1>c DEF ServerInv, TypeOK
<1>2. PcOK'
  BY <1>a, <1>c, <1>e, Types DEF ServerInv, PcOK
<1>3. ReadyOK'
  BY <1>a, <1>b, <1>c, <1>e, <1>f, Types DEF ServerInv, ReadyOK, Threads
<1>4. WaitingOK'
  <2> SUFFICES ASSUME NEW t \in Scheds, NEW v \in waiting'[t]
               PROVE  /\ cur'[t] # v.lt /\ v.lt \notin busy[t]
                      /\ v.lt \in Scheds =>
                           v.lt = t /\ v.fd = Listen /\ v.ev = "read" /\ lpc[t] = "renice"
                      /\ v.lt \in Conns =>
                           /\ hsched[v.lt] = t /\ v.fd = hfd[v.lt]
                           /\ v.ev = "read" => hpc'[v.lt] = "recv"
                           /\ v.ev = "write" => hpc'[v.lt] = "send"
    BY <1>a DEF WaitingOK
  <2>1. CASE t = s /\ v = n
    BY <2>1, <1>b, <1>c, <1>d, <1>e
  <2>2. CASE ~(t = s /\ v = n)
    <3>1. v \in waiting[t]
      BY <2>2, <1>c
    <3>2. v.lt \in Threads /\ v.lt # k
      BY <3>1, <1>b, <1>c, WaiterFacts DEF Waits
    <3>3. cur'[t] # v.lt
      BY <3>1, <3>2, <1>c, Types DEF ServerInv, WaitingOK, Threads
    <3> QED BY <3>1, <3>2, <3>3, <1>e DEF ServerInv, WaitingOK
  <2> QED BY <2>1, <2>2
<1>5. BusyOK'
  BY <1>a, <1>b, <1>c, <1>e, <1>f, Types DEF ServerInv, BusyOK, Threads
<1>6. SleepingOK'
  BY <1>a, <1>b, <1>c, <1>e, Types DEF ServerInv, SleepingOK
<1>7. KeptOK'
  BY <1>a, <1>b, <1>c, <1>e, Types DEF ServerInv, KeptOK
<1>8. FdOK'
  <2>1. \A f \in Fds : fdtab[f] \in Conns \cup {None}
    BY DEF ServerInv, TypeOK
  <2> QED BY <2>1, <1>a, <1>e DEF ServerInv, FdOK
<1>9. ConnOK'
  BY <1>a, <1>b, <1>e DEF ServerInv, ConnOK, Handles
<1>10. DoneOK'
  BY <1>a, <1>b, <1>c, <1>e, Types DEF ServerInv, DoneOK
<1> QED BY <1>1, <1>2, <1>3, <1>4, <1>5, <1>6, <1>7, <1>8, <1>9, <1>10, <1>c DEF ServerInv

LEMMA RecvStep ==
  ASSUME ServerInv, NEW s \in Scheds, NEW k \in Conns, Recv(s, k)
  PROVE  ServerInv'
<1> USE ThreadsAssumption, NoneAssumption DEF kernelVars, clientVars, pthreadVars, listVars,
          waitVars, eventVars, listenerVars, handlerVars
<1>1. TypeOK'
  BY NiceOpsAssumption, MaxFaultsAssumption DEF ServerInv, TypeOK, Recv, In, HGoto,
     Running, Threads, pthreadVars, listVars, waitVars, eventVars, listenerVars,
     handlerVars, kernelVars, clientVars
<1>2. PcOK'
  BY Types DEF ServerInv, PcOK, Recv, In, HGoto, Running, Handles, Threads,
     pthreadVars, listVars, waitVars, eventVars, listenerVars, handlerVars, kernelVars,
     clientVars
<1>3. ReadyOK'
  BY Types DEF ServerInv, ReadyOK, PcOK, WaitingOK, BusyOK, Recv, In, HGoto, Running,
     Waits, Handles, Threads, pthreadVars, listVars, waitVars, eventVars, listenerVars,
     handlerVars, kernelVars, clientVars
<1>4. WaitingOK'
  BY Types DEF ServerInv, WaitingOK, PcOK, ReadyOK, BusyOK, FdOK, Recv, In, HGoto,
     Running, Waits, Handles, Threads, pthreadVars, listVars, waitVars, eventVars,
     listenerVars, handlerVars, kernelVars, clientVars
<1>5. BusyOK'
  BY Types DEF ServerInv, BusyOK, PcOK, ReadyOK, WaitingOK, Recv, In, HGoto, Running,
     Waits, Handles, Threads, pthreadVars, listVars, waitVars, eventVars, listenerVars,
     handlerVars, kernelVars, clientVars
<1>6. SleepingOK'
  BY Types DEF ServerInv, SleepingOK, PcOK, WaitingOK, Recv, In, HGoto, Running, Waits,
     Handles, Threads, pthreadVars, listVars, waitVars, eventVars, listenerVars,
     handlerVars, kernelVars, clientVars
<1>7. KeptOK'
  BY Types DEF ServerInv, KeptOK, PcOK, Recv, In, HGoto, Running, Waits, Handles,
     Threads, pthreadVars, listVars, waitVars, eventVars, listenerVars, handlerVars,
     kernelVars, clientVars
<1>8. FdOK'
  BY Types DEF ServerInv, FdOK, PcOK, Recv, In, HGoto, Running, Handles, Threads,
     pthreadVars, listVars, waitVars, eventVars, listenerVars, handlerVars, kernelVars,
     clientVars
<1>9. ConnOK'
  BY Types DEF ServerInv, ConnOK, PcOK, Recv, In, HGoto, Running, Handles, Threads,
     pthreadVars, listVars, waitVars, eventVars, listenerVars, handlerVars, kernelVars,
     clientVars
<1>10. ArmedOK'
  BY ArmedFrame DEF ServerInv, Recv, In, HGoto, Running
<1>11. DoneOK'
  BY Types DEF ServerInv, DoneOK, PcOK, Recv, In, HGoto, Running, Handles, Threads,
     pthreadVars, listVars, waitVars, eventVars, listenerVars, handlerVars, kernelVars,
     clientVars
<1> QED BY <1>1, <1>2, <1>3, <1>4, <1>5, <1>6, <1>7, <1>8, <1>9, <1>10, <1>11 DEF ServerInv

LEMMA SendStep ==
  ASSUME ServerInv, NEW s \in Scheds, NEW k \in Conns, Send(s, k)
  PROVE  ServerInv'
<1> USE ThreadsAssumption, NoneAssumption DEF kernelVars, clientVars, pthreadVars, listVars,
          waitVars, eventVars, listenerVars, handlerVars
<1>1. TypeOK'
  BY NiceOpsAssumption, MaxFaultsAssumption DEF ServerInv, TypeOK, Send, In, HGoto,
     Running, Threads, pthreadVars, listVars, waitVars, eventVars, listenerVars,
     handlerVars, kernelVars, clientVars
<1>2. PcOK'
  BY Types DEF ServerInv, PcOK, Send, In, HGoto, Running, Handles, Threads,
     pthreadVars, listVars, waitVars, eventVars, listenerVars, handlerVars, kernelVars,
     clientVars
<1>3. ReadyOK'
  BY Types DEF ServerInv, ReadyOK, PcOK, WaitingOK, BusyOK, Send, In, HGoto, Running,
     Waits, Handles, Threads, pthreadVars, listVars, waitVars, eventVars, listenerVars,
     handlerVars, kernelVars, clientVars
<1>4. WaitingOK'
  BY Types DEF ServerInv, WaitingOK, PcOK, ReadyOK, BusyOK, FdOK, Send, In, HGoto,
     Running, Waits, Handles, Threads, pthreadVars, listVars, waitVars, eventVars,
     listenerVars, handlerVars, kernelVars, clientVars
<1>5. BusyOK'
  BY Types DEF ServerInv, BusyOK, PcOK, ReadyOK, WaitingOK, Send, In, HGoto, Running,
     Waits, Handles, Threads, pthreadVars, listVars, waitVars, eventVars, listenerVars,
     handlerVars, kernelVars, clientVars
<1>6. SleepingOK'
  BY Types DEF ServerInv, SleepingOK, PcOK, WaitingOK, Send, In, HGoto, Running, Waits,
     Handles, Threads, pthreadVars, listVars, waitVars, eventVars, listenerVars,
     handlerVars, kernelVars, clientVars
<1>7. KeptOK'
  BY Types DEF ServerInv, KeptOK, PcOK, Send, In, HGoto, Running, Waits, Handles,
     Threads, pthreadVars, listVars, waitVars, eventVars, listenerVars, handlerVars,
     kernelVars, clientVars
<1>8. FdOK'
  <2>1. Handles(k) /\ conn[k] \in {"accepted", "answered"}
    BY DEF ServerInv, ConnOK, Handles, Send, In
  <2> QED BY <2>1, Types DEF ServerInv, FdOK, Send, In, HGoto, Handles
<1>9. ConnOK'
  BY Types DEF ServerInv, ConnOK, PcOK, Send, In, HGoto, Running, Handles, Threads,
     pthreadVars, listVars, waitVars, eventVars, listenerVars, handlerVars, kernelVars,
     clientVars
<1>10. ArmedOK'
  BY ArmedFrame DEF ServerInv, Send, In, HGoto, Running
<1>11. DoneOK'
  BY Types DEF ServerInv, DoneOK, PcOK, Send, In, HGoto, Running, Handles, Threads,
     pthreadVars, listVars, waitVars, eventVars, listenerVars, handlerVars, kernelVars,
     clientVars
<1> QED BY <1>1, <1>2, <1>3, <1>4, <1>5, <1>6, <1>7, <1>8, <1>9, <1>10, <1>11 DEF ServerInv

LEMMA StartFailsStep ==
  ASSUME ServerInv, NEW s \in Scheds, NEW k \in Conns, StartFails(s, k)
  PROVE  ServerInv'
<1> USE ThreadsAssumption, NoneAssumption DEF kernelVars, clientVars, pthreadVars, listVars,
          waitVars, eventVars, listenerVars, handlerVars
<1>1. TypeOK'
  BY NiceOpsAssumption, MaxFaultsAssumption DEF ServerInv, TypeOK, StartFails, In,
     HGoto, Running, Away, Yield, MayFail, Threads, pthreadVars, listVars, waitVars,
     eventVars, listenerVars, handlerVars, kernelVars, clientVars
<1>2. PcOK'
  BY Types DEF ServerInv, PcOK, StartFails, In, HGoto, Running, Away, Yield, MayFail,
     Handles, Threads, pthreadVars, listVars, waitVars, eventVars, listenerVars,
     handlerVars, kernelVars, clientVars
<1>3. ReadyOK'
  BY Types DEF ServerInv, ReadyOK, PcOK, WaitingOK, BusyOK, StartFails, In, HGoto,
     Running, Away, Yield, MayFail, Waits, Handles, Threads, pthreadVars, listVars,
     waitVars, eventVars, listenerVars, handlerVars, kernelVars, clientVars
<1>4. WaitingOK'
  BY Types DEF ServerInv, WaitingOK, PcOK, ReadyOK, BusyOK, FdOK, StartFails, In,
     HGoto, Running, Away, Yield, MayFail, Waits, Handles, Threads, pthreadVars,
     listVars, waitVars, eventVars, listenerVars, handlerVars, kernelVars, clientVars
<1>5. BusyOK'
  BY Types DEF ServerInv, BusyOK, PcOK, ReadyOK, WaitingOK, StartFails, In, HGoto,
     Running, Away, Yield, MayFail, Waits, Handles, Threads, pthreadVars, listVars,
     waitVars, eventVars, listenerVars, handlerVars, kernelVars, clientVars
<1>6. SleepingOK'
  BY Types DEF ServerInv, SleepingOK, PcOK, WaitingOK, StartFails, In, HGoto, Running,
     Away, Yield, MayFail, Waits, Handles, Threads, pthreadVars, listVars, waitVars,
     eventVars, listenerVars, handlerVars, kernelVars, clientVars
<1>7. KeptOK'
  BY Types DEF ServerInv, KeptOK, PcOK, StartFails, In, HGoto, Running, Away, Yield,
     MayFail, Waits, Handles, Threads, pthreadVars, listVars, waitVars, eventVars,
     listenerVars, handlerVars, kernelVars, clientVars
<1>8. FdOK'
  BY Types DEF ServerInv, FdOK, PcOK, StartFails, In, HGoto, Running, Away, Yield,
     MayFail, Handles, Threads, pthreadVars, listVars, waitVars, eventVars,
     listenerVars, handlerVars, kernelVars, clientVars
<1>9. ConnOK'
  BY Types DEF ServerInv, ConnOK, PcOK, StartFails, In, HGoto, Running, Away, Yield,
     MayFail, Handles, Threads, pthreadVars, listVars, waitVars, eventVars,
     listenerVars, handlerVars, kernelVars, clientVars
<1>10. ArmedOK'
  BY ArmedFrame DEF ServerInv, StartFails, In, HGoto, Running, Away, Yield, MayFail
<1>11. DoneOK'
  BY Types DEF ServerInv, DoneOK, PcOK, StartFails, In, HGoto, Running, Away, Yield,
     MayFail, Handles, Threads, pthreadVars, listVars, waitVars, eventVars,
     listenerVars, handlerVars, kernelVars, clientVars
<1> QED BY <1>1, <1>2, <1>3, <1>4, <1>5, <1>6, <1>7, <1>8, <1>9, <1>10, <1>11 DEF ServerInv

LEMMA ReturnOpenStep ==
  ASSUME ServerInv, NEW s \in Scheds, NEW k \in Conns, ReturnOpen(s, k)
  PROVE  ServerInv'
<1> USE ThreadsAssumption, NoneAssumption DEF kernelVars, clientVars, pthreadVars, listVars,
          waitVars, eventVars, listenerVars, handlerVars
<1>1. TypeOK'
  BY NiceOpsAssumption, MaxFaultsAssumption DEF ServerInv, TypeOK, ReturnOpen, In,
     HGoto, Running, Yield, Threads, pthreadVars, listVars, waitVars, eventVars,
     listenerVars, handlerVars, kernelVars, clientVars
<1>2. PcOK'
  BY Types DEF ServerInv, PcOK, ReturnOpen, In, HGoto, Running, Yield, Handles,
     Threads, pthreadVars, listVars, waitVars, eventVars, listenerVars, handlerVars,
     kernelVars, clientVars
<1>3. ReadyOK'
  BY Types DEF ServerInv, ReadyOK, PcOK, WaitingOK, BusyOK, ReturnOpen, In, HGoto,
     Running, Yield, Waits, Handles, Threads, pthreadVars, listVars, waitVars,
     eventVars, listenerVars, handlerVars, kernelVars, clientVars
<1>4. WaitingOK'
  BY Types DEF ServerInv, WaitingOK, PcOK, ReadyOK, BusyOK, FdOK, ReturnOpen, In,
     HGoto, Running, Yield, Waits, Handles, Threads, pthreadVars, listVars, waitVars,
     eventVars, listenerVars, handlerVars, kernelVars, clientVars
<1>5. BusyOK'
  BY Types DEF ServerInv, BusyOK, PcOK, ReadyOK, WaitingOK, ReturnOpen, In, HGoto,
     Running, Yield, Waits, Handles, Threads, pthreadVars, listVars, waitVars,
     eventVars, listenerVars, handlerVars, kernelVars, clientVars
<1>6. SleepingOK'
  BY Types DEF ServerInv, SleepingOK, PcOK, WaitingOK, ReturnOpen, In, HGoto, Running,
     Yield, Waits, Handles, Threads, pthreadVars, listVars, waitVars, eventVars,
     listenerVars, handlerVars, kernelVars, clientVars
<1>7. KeptOK'
  BY Types DEF ServerInv, KeptOK, PcOK, ReturnOpen, In, HGoto, Running, Yield, Waits,
     Handles, Threads, pthreadVars, listVars, waitVars, eventVars, listenerVars,
     handlerVars, kernelVars, clientVars
<1>8. FdOK'
  BY Types DEF ServerInv, FdOK, PcOK, ReturnOpen, In, HGoto, Running, Yield, Handles,
     Threads, pthreadVars, listVars, waitVars, eventVars, listenerVars, handlerVars,
     kernelVars, clientVars
<1>9. ConnOK'
  BY Types DEF ServerInv, ConnOK, PcOK, ReturnOpen, In, HGoto, Running, Yield, Handles,
     Threads, pthreadVars, listVars, waitVars, eventVars, listenerVars, handlerVars,
     kernelVars, clientVars
<1>10. ArmedOK'
  BY ArmedFrame DEF ServerInv, ReturnOpen, In, HGoto, Running, Yield
<1>11. DoneOK'
  BY Types DEF ServerInv, DoneOK, PcOK, ReturnOpen, In, HGoto, Running, Yield, Handles,
     Threads, pthreadVars, listVars, waitVars, eventVars, listenerVars, handlerVars,
     kernelVars, clientVars
<1> QED BY <1>1, <1>2, <1>3, <1>4, <1>5, <1>6, <1>7, <1>8, <1>9, <1>10, <1>11 DEF ServerInv

LEMMA CloseStep ==
  ASSUME ServerInv, NEW s \in Scheds, NEW k \in Conns, Close(s, k)
  PROVE  ServerInv'
<1> USE ThreadsAssumption, NoneAssumption, ListenAssumption
<1>a. /\ spc[s] = "run" /\ cur[s] = k /\ hpc[k] = "close"
      /\ armed' = [armed EXCEPT ![s] = @ \ ArmedOn(s, hfd[k])]
      /\ fdtab' = [fdtab EXCEPT ![hfd[k]] = None]
      /\ conn' = [conn EXCEPT ![k] = "closed"]
      /\ peer' = [peer EXCEPT ![k] = "quiet"]
      /\ full' = full \ {k}
      /\ spc' = [spc EXCEPT ![s] = loop[s]]
      /\ cur' = [cur EXCEPT ![s] = None]
      /\ loop' = loop
      /\ UNCHANGED <<cont, backlog, defer, busy, eventVars, listenerVars,
                     hsched, hfd, faults>>
  BY DEF Close, Forget, In, Running, Yield
<1> USE DEF eventVars, listenerVars
<1>b. /\ Handles(k) /\ hsched[k] = s /\ hfd[k] \in Fds /\ fdtab[hfd[k]] = k
      /\ k \in Threads /\ k \notin Scheds /\ ~Waits(s, k)
      /\ conn[k] \in {"accepted", "answered"}
  BY <1>a DEF ServerInv, PcOK, FdOK, WaitingOK, ConnOK, Threads, Waits
<1>c. \A w \in waiting[s] : w.fd # hfd[k]
  BY <1>b, WaiterFacts DEF Waits, Threads
<1>d. /\ UNCHANGED <<waiting, sleeping, ready>>
      /\ hpc' = [hpc EXCEPT ![k] = "gone"]
  <2> DEFINE W == {w \in waiting[s] : w.fd = hfd[k]}
             woken == {w.lt : w \in W}
  <2>1. W = {} /\ woken = {}
    BY <1>c
  <2> HIDE DEF W
  <2>2. /\ waiting' = [waiting EXCEPT ![s] = @ \ W]
        /\ sleeping' = [sleeping EXCEPT ![s] = @ \ woken]
        /\ ready' = [ready EXCEPT ![s] = @ \o SetToSeq(woken)]
        /\ hpc' = [h \in Conns |-> IF h = k THEN "gone"
                                   ELSE IF h \in woken THEN "close" ELSE hpc[h]]
    BY DEF Close, W
  <2> HIDE DEF woken
  <2>3. ready[s] \o SetToSeq({}) = ready[s]
    BY NobodyFacts DEF ServerInv, TypeOK
  <2>4. UNCHANGED <<waiting, sleeping>>
    BY <2>1, <2>2 DEF ServerInv, TypeOK
  <2>5. ready' = ready
    BY <2>1, <2>2, <2>3 DEF ServerInv, TypeOK
  <2>6. hpc' = [hpc EXCEPT ![k] = "gone"]
    BY <2>1, <2>2, Types DEF ServerInv, TypeOK
  <2> QED BY <2>4, <2>5, <2>6
<1>e. \A h \in Conns : /\ Handles(h)' <=> Handles(h) /\ h # k
                       /\ h # k => hpc'[h] = hpc[h]
  BY <1>d, Types DEF Handles
<1>f. \A t \in Scheds : /\ k \notin busy[t] /\ k \notin sleeping[t]
                        /\ ~InSeq(k, ready[t]) /\ ~Waits(t, k)
  <2> TAKE t \in Scheds
  <2>1. k \notin busy[t] /\ k \notin sleeping[t] /\ ~InSeq(k, ready[t])
    BY <1>a, <1>b DEF ServerInv, BusyOK, SleepingOK, ReadyOK
  <2>2. ~Waits(t, k)
    BY <1>a, <1>b, WaiterFacts DEF Waits
  <2> QED BY <2>1, <2>2
<1>g. \A t \in Scheds, x \in Threads : Waits(t, x)' <=> Waits(t, x)
  BY <1>d DEF Waits
<1>1. TypeOK'
  BY <1>a, <1>d DEF ServerInv, TypeOK
<1>2. PcOK'
  BY <1>a, <1>b, <1>e, Types DEF ServerInv, PcOK
<1>3. ReadyOK'
  BY <1>a, <1>d, <1>e, <1>f, <1>g, Types DEF ServerInv, ReadyOK, Threads
<1>4. WaitingOK'
  <2> SUFFICES ASSUME NEW t \in Scheds, NEW v \in waiting[t]
               PROVE  /\ cur'[t] # v.lt /\ v.lt \notin busy[t]
                      /\ v.lt \in Scheds =>
                           v.lt = t /\ v.fd = Listen /\ v.ev = "read" /\ lpc[t] = "renice"
                      /\ v.lt \in Conns =>
                           /\ hsched[v.lt] = t /\ v.fd = hfd[v.lt]
                           /\ v.ev = "read" => hpc'[v.lt] = "recv"
                           /\ v.ev = "write" => hpc'[v.lt] = "send"
    BY <1>a, <1>d DEF WaitingOK
  <2>1. v.lt \in Threads /\ v.lt # k
    BY <1>f, Types DEF Waits
  <2>2. cur'[t] # v.lt
    BY <2>1, <1>a, Types DEF ServerInv, WaitingOK, Threads
  <2> QED BY <2>1, <2>2, <1>e DEF ServerInv, WaitingOK
<1>5. BusyOK'
  BY <1>a, <1>d, <1>e, <1>f, Types DEF ServerInv, BusyOK, Threads
<1>6. SleepingOK'
  BY <1>d, <1>e, <1>f, <1>g, Types DEF ServerInv, SleepingOK, Threads
<1>7. KeptOK'
  BY <1>a, <1>b, <1>d, <1>e, <1>g, Types DEF ServerInv, KeptOK, Threads
<1>8. FdOK'
  <2>1. \A f \in Fds : fdtab[f] \in Conns \cup {None}
    BY DEF ServerInv, TypeOK
  <2> QED BY <2>1, <1>a, <1>b, <1>e, Types DEF ServerInv, FdOK
<1>9. ConnOK'
  BY <1>a, <1>b, <1>d, <1>e, Types DEF ServerInv, ConnOK
<1>10. ArmedOK'
  <2> SUFFICES ASSUME NEW t \in Scheds, NEW v \in waiting[t]
               PROVE  \/ [fd |-> v.fd, ev |-> v.ev] \in armed'[t]
                      \/ \E d \in events[t] : d.fd = v.fd
                      \/ evfd[t] # None /\ evfd[t].fd = v.fd /\ v.ev = "write"
    BY <1>a, <1>d, ZenonT(60) DEF ArmedOK
  <2>1. [fd |-> v.fd, ev |-> v.ev].fd = v.fd
    OBVIOUS
  <2>2. [fd |-> v.fd, ev |-> v.ev] \in armed[t] => [fd |-> v.fd, ev |-> v.ev] \in armed'[t]
    BY <2>1, <1>a, <1>c, Types DEF ArmedOn
  <2> QED BY <2>2 DEF ServerInv, ArmedOK
<1>11. DoneOK'
  BY <1>a, <1>b, <1>e, Types DEF ServerInv, DoneOK
<1> QED BY <1>1, <1>2, <1>3, <1>4, <1>5, <1>6, <1>7, <1>8, <1>9, <1>10, <1>11 DEF ServerInv

-----------------------------------------------------------------------------
(* Clients and signals.                                                     *)

LEMMA ConnectStep ==
  ASSUME ServerInv, NEW k \in Conns, Connect(k)
  PROVE  ServerInv'
<1> USE ThreadsAssumption, NoneAssumption DEF kernelVars, clientVars, pthreadVars, listVars,
          waitVars, eventVars, listenerVars, handlerVars
<1>1. TypeOK'
  BY NiceOpsAssumption, MaxFaultsAssumption DEF ServerInv, TypeOK, Connect, Threads,
     pthreadVars, listVars, waitVars, eventVars, listenerVars, handlerVars, kernelVars,
     clientVars
<1>2. PcOK'
  BY Types DEF ServerInv, PcOK, Connect, Handles, Threads, pthreadVars, listVars,
     waitVars, eventVars, listenerVars, handlerVars, kernelVars, clientVars
<1>3. ReadyOK'
  BY Types DEF ServerInv, ReadyOK, PcOK, WaitingOK, BusyOK, Connect, Waits, Handles,
     Threads, pthreadVars, listVars, waitVars, eventVars, listenerVars, handlerVars,
     kernelVars, clientVars
<1>4. WaitingOK'
  BY Types DEF ServerInv, WaitingOK, PcOK, ReadyOK, BusyOK, FdOK, Connect, Waits,
     Handles, Threads, pthreadVars, listVars, waitVars, eventVars, listenerVars,
     handlerVars, kernelVars, clientVars
<1>5. BusyOK'
  BY Types DEF ServerInv, BusyOK, PcOK, ReadyOK, WaitingOK, Connect, Waits, Handles,
     Threads, pthreadVars, listVars, waitVars, eventVars, listenerVars, handlerVars,
     kernelVars, clientVars
<1>6. SleepingOK'
  BY Types DEF ServerInv, SleepingOK, PcOK, WaitingOK, Connect, Waits, Handles,
     Threads, pthreadVars, listVars, waitVars, eventVars, listenerVars, handlerVars,
     kernelVars, clientVars
<1>7. KeptOK'
  BY Types DEF ServerInv, KeptOK, PcOK, Connect, Waits, Handles, Threads, pthreadVars,
     listVars, waitVars, eventVars, listenerVars, handlerVars, kernelVars, clientVars
<1>8. FdOK'
  BY Types DEF ServerInv, FdOK, PcOK, Connect, Handles, Threads, pthreadVars, listVars,
     waitVars, eventVars, listenerVars, handlerVars, kernelVars, clientVars
<1>9. ConnOK'
  <2>1. backlog \in Seq(Conns) /\ ~InSeq(k, backlog) /\ Distinct(backlog) /\ conn[k] = "idle"
    BY DEF ServerInv, TypeOK, ConnOK, Connect
  <2>2. /\ \A x : InSeq(x, Append(backlog, k)) <=> x = k \/ InSeq(x, backlog)
        /\ Distinct(Append(backlog, k))
    BY <2>1, AppendFacts
  <2>3. /\ backlog' = Append(backlog, k) /\ hpc' = hpc
        /\ conn' = [conn EXCEPT ![k] = "backlog"]
    BY DEF Connect
  <2> QED BY <2>1, <2>2, <2>3, Types DEF ServerInv, ConnOK, Handles
<1>10. ArmedOK'
  BY ArmedFrame DEF ServerInv, Connect
<1>11. DoneOK'
  BY Types DEF ServerInv, DoneOK, PcOK, Connect, Handles, Threads, pthreadVars,
     listVars, waitVars, eventVars, listenerVars, handlerVars, kernelVars, clientVars
<1> QED BY <1>1, <1>2, <1>3, <1>4, <1>5, <1>6, <1>7, <1>8, <1>9, <1>10, <1>11 DEF ServerInv

LEMMA PeerStep ==
  ASSUME ServerInv, NEW k \in Conns, NEW p \in {"data", "eof", "reset"}, NEW from,
         Peer(k, p, from)
  PROVE  ServerInv'
<1> USE ThreadsAssumption, NoneAssumption DEF kernelVars, clientVars, pthreadVars, listVars,
          waitVars, eventVars, listenerVars, handlerVars
<1>1. TypeOK'
  BY DEF ServerInv, TypeOK, Peer
<1>2. PcOK'
  BY Types DEF ServerInv, PcOK, Peer, Handles, Threads, pthreadVars, listVars,
     waitVars, eventVars, listenerVars, handlerVars, kernelVars, clientVars
<1>3. ReadyOK'
  BY Types DEF ServerInv, ReadyOK, PcOK, WaitingOK, BusyOK, Peer, Waits, Handles,
     Threads, pthreadVars, listVars, waitVars, eventVars, listenerVars, handlerVars,
     kernelVars, clientVars
<1>4. WaitingOK'
  BY Types DEF ServerInv, WaitingOK, PcOK, ReadyOK, BusyOK, FdOK, Peer, Waits,
     Handles, Threads, pthreadVars, listVars, waitVars, eventVars, listenerVars,
     handlerVars, kernelVars, clientVars
<1>5. BusyOK'
  BY Types DEF ServerInv, BusyOK, PcOK, ReadyOK, WaitingOK, Peer, Waits, Handles,
     Threads, pthreadVars, listVars, waitVars, eventVars, listenerVars, handlerVars,
     kernelVars, clientVars
<1>6. SleepingOK'
  BY Types DEF ServerInv, SleepingOK, PcOK, WaitingOK, Peer, Waits, Handles,
     Threads, pthreadVars, listVars, waitVars, eventVars, listenerVars, handlerVars,
     kernelVars, clientVars
<1>7. KeptOK'
  BY Types DEF ServerInv, KeptOK, PcOK, Peer, Waits, Handles, Threads,
     pthreadVars, listVars, waitVars, eventVars, listenerVars, handlerVars, kernelVars,
     clientVars
<1>8. FdOK'
  BY Types DEF ServerInv, FdOK, PcOK, Peer, Handles, Threads, pthreadVars,
     listVars, waitVars, eventVars, listenerVars, handlerVars, kernelVars, clientVars
<1>9. ConnOK'
  BY Types DEF ServerInv, ConnOK, PcOK, Peer, Handles, Threads, pthreadVars,
     listVars, waitVars, eventVars, listenerVars, handlerVars, kernelVars, clientVars
<1>10. ArmedOK'
  BY ArmedFrame DEF ServerInv, Peer
<1>11. DoneOK'
  BY Types DEF ServerInv, DoneOK, PcOK, Peer, Handles, Threads, pthreadVars,
     listVars, waitVars, eventVars, listenerVars, handlerVars, kernelVars, clientVars
<1> QED BY <1>1, <1>2, <1>3, <1>4, <1>5, <1>6, <1>7, <1>8, <1>9, <1>10, <1>11 DEF ServerInv

LEMMA DrainStep ==
  ASSUME ServerInv, NEW k \in Conns, Drain(k)
  PROVE  ServerInv'
<1> USE ThreadsAssumption, NoneAssumption DEF kernelVars, clientVars, pthreadVars, listVars,
          waitVars, eventVars, listenerVars, handlerVars
<1>1. TypeOK'
  BY NiceOpsAssumption, MaxFaultsAssumption DEF ServerInv, TypeOK, Drain, Threads,
     pthreadVars, listVars, waitVars, eventVars, listenerVars, handlerVars, kernelVars,
     clientVars
<1>2. PcOK'
  BY Types DEF ServerInv, PcOK, Drain, Handles, Threads, pthreadVars, listVars,
     waitVars, eventVars, listenerVars, handlerVars, kernelVars, clientVars
<1>3. ReadyOK'
  BY Types DEF ServerInv, ReadyOK, PcOK, WaitingOK, BusyOK, Drain, Waits, Handles,
     Threads, pthreadVars, listVars, waitVars, eventVars, listenerVars, handlerVars,
     kernelVars, clientVars
<1>4. WaitingOK'
  BY Types DEF ServerInv, WaitingOK, PcOK, ReadyOK, BusyOK, FdOK, Drain, Waits,
     Handles, Threads, pthreadVars, listVars, waitVars, eventVars, listenerVars,
     handlerVars, kernelVars, clientVars
<1>5. BusyOK'
  BY Types DEF ServerInv, BusyOK, PcOK, ReadyOK, WaitingOK, Drain, Waits, Handles,
     Threads, pthreadVars, listVars, waitVars, eventVars, listenerVars, handlerVars,
     kernelVars, clientVars
<1>6. SleepingOK'
  BY Types DEF ServerInv, SleepingOK, PcOK, WaitingOK, Drain, Waits, Handles, Threads,
     pthreadVars, listVars, waitVars, eventVars, listenerVars, handlerVars, kernelVars,
     clientVars
<1>7. KeptOK'
  BY Types DEF ServerInv, KeptOK, PcOK, Drain, Waits, Handles, Threads, pthreadVars,
     listVars, waitVars, eventVars, listenerVars, handlerVars, kernelVars, clientVars
<1>8. FdOK'
  BY Types DEF ServerInv, FdOK, PcOK, Drain, Handles, Threads, pthreadVars, listVars,
     waitVars, eventVars, listenerVars, handlerVars, kernelVars, clientVars
<1>9. ConnOK'
  BY Types DEF ServerInv, ConnOK, PcOK, Drain, Handles, Threads, pthreadVars, listVars,
     waitVars, eventVars, listenerVars, handlerVars, kernelVars, clientVars
<1>10. ArmedOK'
  BY ArmedFrame DEF ServerInv, Drain
<1>11. DoneOK'
  BY Types DEF ServerInv, DoneOK, PcOK, Drain, Handles, Threads, pthreadVars, listVars,
     waitVars, eventVars, listenerVars, handlerVars, kernelVars, clientVars
<1> QED BY <1>1, <1>2, <1>3, <1>4, <1>5, <1>6, <1>7, <1>8, <1>9, <1>10, <1>11 DEF ServerInv

LEMMA SignalStep ==
  ASSUME ServerInv, Signal
  PROVE  ServerInv'
<1> USE ThreadsAssumption, NoneAssumption DEF kernelVars, clientVars, pthreadVars, listVars,
          waitVars, eventVars, listenerVars, handlerVars
<1>1. TypeOK'
  BY NiceOpsAssumption, MaxFaultsAssumption DEF ServerInv, TypeOK, Signal, Threads,
     pthreadVars, listVars, waitVars, eventVars, listenerVars, handlerVars, kernelVars,
     clientVars
<1>2. PcOK'
  BY Types DEF ServerInv, PcOK, Signal, Handles, Threads, pthreadVars, listVars,
     waitVars, eventVars, listenerVars, handlerVars, kernelVars, clientVars
<1>3. ReadyOK'
  BY Types DEF ServerInv, ReadyOK, PcOK, WaitingOK, BusyOK, Signal, Waits, Handles,
     Threads, pthreadVars, listVars, waitVars, eventVars, listenerVars, handlerVars,
     kernelVars, clientVars
<1>4. WaitingOK'
  BY Types DEF ServerInv, WaitingOK, PcOK, ReadyOK, BusyOK, FdOK, Signal, Waits,
     Handles, Threads, pthreadVars, listVars, waitVars, eventVars, listenerVars,
     handlerVars, kernelVars, clientVars
<1>5. BusyOK'
  BY Types DEF ServerInv, BusyOK, PcOK, ReadyOK, WaitingOK, Signal, Waits, Handles,
     Threads, pthreadVars, listVars, waitVars, eventVars, listenerVars, handlerVars,
     kernelVars, clientVars
<1>6. SleepingOK'
  BY Types DEF ServerInv, SleepingOK, PcOK, WaitingOK, Signal, Waits, Handles, Threads,
     pthreadVars, listVars, waitVars, eventVars, listenerVars, handlerVars, kernelVars,
     clientVars
<1>7. KeptOK'
  BY Types DEF ServerInv, KeptOK, PcOK, Signal, Waits, Handles, Threads, pthreadVars,
     listVars, waitVars, eventVars, listenerVars, handlerVars, kernelVars, clientVars
<1>8. FdOK'
  BY Types DEF ServerInv, FdOK, PcOK, Signal, Handles, Threads, pthreadVars, listVars,
     waitVars, eventVars, listenerVars, handlerVars, kernelVars, clientVars
<1>9. ConnOK'
  BY Types DEF ServerInv, ConnOK, PcOK, Signal, Handles, Threads, pthreadVars,
     listVars, waitVars, eventVars, listenerVars, handlerVars, kernelVars, clientVars
<1>10. ArmedOK'
  BY ArmedFrame DEF ServerInv, Signal
<1>11. DoneOK'
  BY Types DEF ServerInv, DoneOK, PcOK, Signal, Handles, Threads, pthreadVars,
     listVars, waitVars, eventVars, listenerVars, handlerVars, kernelVars, clientVars
<1> QED BY <1>1, <1>2, <1>3, <1>4, <1>5, <1>6, <1>7, <1>8, <1>9, <1>10, <1>11 DEF ServerInv

-----------------------------------------------------------------------------
(* The invariant.                                                           *)

LEMMA InitServer ==
  ASSUME Init
  PROVE  ServerInv
<1> USE ThreadsAssumption, NoneAssumption, NiceOpsAssumption, MaxFaultsAssumption,
        SlowAssumption
<1>a. \A s \in Scheds : \A x : /\ InSeq(x, ready[s]) <=> x = s
                               /\ Distinct(ready[s])
                               /\ ~InSeq(x, defer[s]) /\ Distinct(defer[s])
  <2> TAKE s \in Scheds
  <2> TAKE x
  <2>1. ready[s] = <<s>> /\ defer[s] = <<>>
    BY DEF Init
  <2>2. Distinct(<<s>>) /\ \A y : InSeq(y, <<s>>) <=> y = s
    BY OneFacts
  <2>3. ~InSeq(x, <<>>) /\ Distinct(<<>>)
    BY EmptyFacts
  <2> QED BY <2>1, <2>2, <2>3
<1>b. \A k \in Conns : ~Handles(k) /\ ~InSeq(k, backlog)
  BY EmptyFacts DEF Init, Handles
<1>c. \A s \in Scheds : <<s>> \in Seq(Threads)
  BY DEF Threads
<1>1. TypeOK
  BY <1>c DEF Init, TypeOK, Threads
<1>2. PcOK
  BY DEF Init, PcOK
<1>3. ReadyOK
  <2>1. \A s \in Scheds : /\ lpc[s] = "check" /\ cur[s] = None
                          /\ busy[s] = {} /\ waiting[s] = {}
    <3>1. /\ lpc = [s \in Scheds |-> "check"] /\ cur = [s \in Scheds |-> None]
          /\ busy = [s \in Scheds |-> {}] /\ waiting = [s \in Scheds |-> {}]
      BY DEF Init
    <3> QED BY <3>1
  <2>2. \A s \in Scheds : Distinct(ready[s]) /\ \A x : InSeq(x, ready[s]) => x = s
    BY <1>a
  <2>3. \A s \in Scheds : cur[s] # s /\ s \notin busy[s] /\ ~Waits(s, s) /\ s \notin Conns
    BY <2>1 DEF Waits
  <2> QED BY <2>1, <2>2, <2>3 DEF ReadyOK
<1>4. WaitingOK /\ SleepingOK /\ ArmedOK
  BY DEF Init, WaitingOK, SleepingOK, ArmedOK
<1>5. BusyOK
  BY <1>a DEF Init, BusyOK
<1>6. KeptOK
  BY <1>a, <1>b DEF Init, KeptOK
<1>7. FdOK
  BY <1>b DEF Init, FdOK
<1>8. ConnOK
  BY <1>b, EmptyFacts DEF Init, ConnOK
<1>9. DoneOK
  BY DEF Init, DoneOK
<1> QED BY <1>1, <1>2, <1>3, <1>4, <1>5, <1>6, <1>7, <1>8, <1>9 DEF ServerInv

LEMMA StutterServer ==
  ASSUME ServerInv, UNCHANGED vars
  PROVE  ServerInv'
<1> USE DEF vars, kernelVars, clientVars, pthreadVars, listVars, waitVars, eventVars,
            listenerVars, handlerVars
<1>1. TypeOK'
  BY DEF ServerInv, TypeOK
<1>2. PcOK' /\ ReadyOK' /\ WaitingOK' /\ BusyOK' /\ SleepingOK'
  BY DEF ServerInv, PcOK, ReadyOK, WaitingOK, BusyOK, SleepingOK, Waits, Handles
<1>3. KeptOK' /\ FdOK' /\ ConnOK' /\ DoneOK'
  BY DEF ServerInv, KeptOK, FdOK, ConnOK, DoneOK, Waits, Handles
<1>4. ArmedOK'
  BY ArmedFrame DEF ServerInv
<1> QED BY <1>1, <1>2, <1>3, <1>4 DEF ServerInv

LEMMA ServerStep ==
  ASSUME ServerInv, [Next]_vars
  PROVE  ServerInv'
<1>1. ASSUME NEW s \in Scheds, Scheduler(s) PROVE ServerInv'
  BY <1>1, ExpireDoneStep, ReadyResumeStep, ReadyEmptyStep, DeferResumeStep,
     DeferEmptyStep,
     PollStep, ReadEventStep, WriteEventStep, EventsDoneStep DEF Scheduler
<1>2. ASSUME NEW s \in Scheds, Listener(s) PROVE ServerInv'
  BY <1>2, StopStep, ReniceStep, AcceptStep, AcceptLeakStep, AcceptAbortedStep,
     AcceptWaitStep, AcceptErrorStep, AcceptUnsetStep, ReturnStep DEF Listener
<1>3. ASSUME NEW s \in Scheds, NEW k \in Conns, Handler(s, k) PROVE ServerInv'
  BY <1>3, StartFailsStep, ReturnOpenStep, RecvStep, RecvWaitStep, SendStep, SendWaitStep,
     CloseStep DEF Handler
<1>4. CASE Environment
  BY <1>4, ConnectStep, PeerStep, DrainStep, LogDoneStep, SignalStep
     DEF Environment, PeerSends, PeerShuts, PeerResets
<1>5. CASE UNCHANGED vars
  BY <1>5, StutterServer
<1> QED BY <1>1, <1>2, <1>3, <1>4, <1>5, ExpireStep DEF Next, SchedStep, Stopped

(* Lists, trees, registrations and descriptors say what ServerInv says.     *)
THEOREM ServerInvariance == Spec => []ServerInv
<1>1. Init => ServerInv
  BY InitServer
<1>2. ServerInv /\ [Next]_vars => ServerInv'
  BY ServerStep
<1> QED BY <1>1, <1>2, PTL DEF Spec

(* sync_server.c and lthread_run(): the variables keep their types.         *)
THEOREM ServerTypeCorrect == Spec => []TypeOK
<1>1. ServerInv => TypeOK
  BY DEF ServerInv
<1> QED BY <1>1, ServerInvariance, PTL

(* Each lthread waits for exactly one resumption, on its own scheduler, and *)
(* one that was freed for none (lthread_run(), lthread_close()).            *)
THEOREM ResumedOnceHolds == Spec => []ResumedOnce
<1> USE ThreadsAssumption, NoneAssumption
<1>1. ServerInv => ResumedOnce
  <2> SUFFICES ASSUME ServerInv, NEW s \in Scheds, NEW x \in Threads
               PROVE  IF x \in LiveOf(s) THEN \E p \in Places(s, x) : Places(s, x) = {p}
                                         ELSE Places(s, x) = {}
    BY DEF ResumedOnce
  <2> DEFINE R == {<<"ready", i>> : i \in {i \in 1..Len(ready[s]) : ready[s][i] = x}}
             W == {<<"waiting", w.fd, w.ev>> : w \in WaitsOf(s, x)}
             B == {p \in {<<"busy", 0>>} : x \in busy[s]}
             C == {p \in {<<"run", 0>>} : Running(s, x)}
  <2>a. Places(s, x) = R \cup W \cup B \cup C
    BY DEF Places
  <2>b. x \in LiveOf(s) <=> \/ x \in Scheds /\ x = s /\ lpc[s] # "gone"
                            \/ x \in Conns /\ hsched[x] = s /\ Handles(x)
    BY DEF LiveOf, Handles, Threads
  <2>c. Running(s, x) <=> cur[s] = x
    BY DEF ServerInv, PcOK, Running, Threads
  <2>d. InSeq(x, ready[s]) => /\ cur[s] # x /\ x \notin busy[s] /\ ~Waits(s, x)
                              /\ x \in LiveOf(s)
    BY <2>b DEF ServerInv, ReadyOK, Threads, Handles
  <2>e. Waits(s, x) => cur[s] # x /\ x \notin busy[s] /\ x \in LiveOf(s)
    BY <2>b, WaiterFacts DEF ServerInv, WaitingOK, Waits, Threads
  <2>f. x \in busy[s] => cur[s] # x /\ x \in LiveOf(s)
    BY <2>b DEF ServerInv, BusyOK, Threads, Handles
  <2>g. cur[s] = x => x \in LiveOf(s)
    BY <2>b DEF ServerInv, PcOK, Threads
  <2>h. x \in LiveOf(s) => InSeq(x, ready[s]) \/ Waits(s, x) \/ x \in busy[s] \/ cur[s] = x
    BY <2>b DEF ServerInv, KeptOK
  <2>i. ~InSeq(x, ready[s]) => R = {}
    BY DEF InSeq
  <2>j. ~Waits(s, x) => W = {}
    BY DEF Waits, WaitsOf
  <2>k. x \notin busy[s] => B = {}
    OBVIOUS
  <2>l. cur[s] # x => C = {}
    BY <2>c
  <2>1. CASE InSeq(x, ready[s])
    <3>1. PICK i \in 1..Len(ready[s]) : ready[s][i] = x
      BY <2>1 DEF InSeq
    <3>2. \A j \in 1..Len(ready[s]) : ready[s][j] = x => j = i
      BY <3>1 DEF ServerInv, ReadyOK, Distinct
    <3>3. R = {<<"ready", i>>}
      BY <3>1, <3>2
    <3>4. Places(s, x) = {<<"ready", i>>} /\ x \in LiveOf(s)
      BY <2>1, <2>a, <2>d, <2>j, <2>k, <2>l, <3>3
    <3> QED BY <3>4
  <2>2. CASE Waits(s, x)
    <3>1. PICK w \in waiting[s] : w.lt = x
      BY <2>2 DEF Waits
    <3>2. WaitsOf(s, x) = {w}
      BY <3>1, OneWait DEF WaitsOf
    <3>3. W = {<<"waiting", w.fd, w.ev>>}
      BY <3>2
    <3>4. Places(s, x) = {<<"waiting", w.fd, w.ev>>} /\ x \in LiveOf(s)
      BY <2>2, <2>a, <2>d, <2>e, <2>i, <2>k, <2>l, <3>3
    <3> QED BY <3>4
  <2>3. CASE x \in busy[s]
    <3>1. B = {<<"busy", 0>>}
      BY <2>3
    <3>2. Places(s, x) = {<<"busy", 0>>} /\ x \in LiveOf(s)
      BY <2>3, <2>a, <2>d, <2>e, <2>f, <2>i, <2>j, <2>l, <3>1
    <3> QED BY <3>2
  <2>4. CASE cur[s] = x
    <3>1. C = {<<"run", 0>>}
      BY <2>4, <2>c
    <3>2. Places(s, x) = {<<"run", 0>>} /\ x \in LiveOf(s)
      BY <2>4, <2>a, <2>d, <2>e, <2>f, <2>g, <2>i, <2>j, <2>k, <3>1
    <3> QED BY <3>2
  <2>5. CASE ~InSeq(x, ready[s]) /\ ~Waits(s, x) /\ x \notin busy[s] /\ cur[s] # x
    BY <2>5, <2>a, <2>h, <2>i, <2>j, <2>k, <2>l
  <2> QED BY <2>1, <2>2, <2>3, <2>4, <2>5
<1> QED BY <1>1, ServerInvariance, PTL

(* lthread_sched.c:359: one waiter for a descriptor and an event, and the   *)
(* descriptor is still the one of its own connection.                       *)
THEOREM WaitersMatchHolds == Spec => []WaitersMatch
<1>1. ServerInv => WaitersMatch
  <2> SUFFICES ASSUME ServerInv, NEW s \in Scheds, NEW v \in waiting[s], NEW w \in waiting[s]
               PROVE  /\ v.fd = w.fd /\ v.ev = w.ev => v = w
                      /\ w.fd # Listen => fdtab[w.fd] = w.lt
    BY DEF WaitersMatch
  <2>1. v.fd = w.fd => v = w
    BY OneWait
  <2>2. w.fd # Listen => fdtab[w.fd] = w.lt
    BY WaiterFacts DEF Threads
  <2> QED BY <2>1, <2>2
<1> QED BY <1>1, ServerInvariance, PTL

(* _lthread_sched_event(): a waiter has an armed registration, or its event *)
(* is in the batch that lthread_run() has yet to work off.                  *)
THEOREM WaitersArmedHolds == Spec => []WaitersArmed
<1>1. ServerInv => WaitersArmed
  <2> SUFFICES ASSUME ServerInv, NEW s \in Scheds
               PROVE  /\ \A w \in waiting[s] :
                           \/ [fd |-> w.fd, ev |-> w.ev] \in armed[s]
                           \/ \E e \in events[s] : e.fd = w.fd
                           \/ spc[s] \in {"run", "write"} /\ evfd[s] # None /\ evfd[s].fd = w.fd
                      /\ \A k \in sleeping[s] : WaitsOf(s, k) # {}
    BY DEF WaitersArmed
  <2>1. evfd[s] # None => spc[s] \in {"run", "write"}
    BY DEF ServerInv, PcOK
  <2>2. \A w \in waiting[s] :
          \/ [fd |-> w.fd, ev |-> w.ev] \in armed[s]
          \/ \E e \in events[s] : e.fd = w.fd
          \/ evfd[s] # None /\ evfd[s].fd = w.fd /\ w.ev = "write"
    BY DEF ServerInv, ArmedOK
  <2>3. \A k \in sleeping[s] : WaitsOf(s, k) # {}
    BY DEF ServerInv, SleepingOK, Waits, WaitsOf
  <2> QED BY <2>1, <2>2, <2>3
<1> QED BY <1>1, ServerInvariance, PTL

(* client_connection_handler(): a handler's descriptor is open and its own, *)
(* and an open descriptor has a handler or was leaked.                      *)
THEOREM DescriptorsOwnedHolds == Spec => []DescriptorsOwned
<1>1. ServerInv => DescriptorsOwned
  BY DEF ServerInv, FdOK, DescriptorsOwned, Handles
<1> QED BY <1>1, ServerInvariance, PTL

(* _lthread_sched_isdone(): a scheduler that is freed has nothing left.     *)
THEOREM ServerDoneHolds == Spec => []DoneIsDone
<1>1. ServerInv => DoneIsDone
  <2> SUFFICES ASSUME ServerInv, NEW s \in Scheds, spc[s] = "done"
               PROVE  LiveOf(s) = {} /\ defer[s] = <<>>
    BY DEF DoneIsDone
  <2>1. lpc[s] = "gone" /\ \A k \in Conns : hsched[k] = s => ~Handles(k)
    BY DEF ServerInv, DoneOK
  <2>2. LiveOf(s) = {}
    BY <2>1 DEF LiveOf, Handles
  <2>3. busy[s] = {}
    BY <2>1, Types DEF ServerInv, BusyOK, Handles, Threads
  <2>4. defer[s] = <<>>
    <3> SUFFICES ASSUME defer[s] # <<>> PROVE FALSE
      OBVIOUS
    <3>1. defer[s] \in Seq(Threads)
      BY DEF ServerInv, TypeOK
    <3>2. Head(defer[s]) \in Threads /\ InSeq(Head(defer[s]), defer[s])
      BY <3>1, HeadFacts
    <3> QED BY <3>2, <2>3 DEF ServerInv, BusyOK
  <2> QED BY <2>2, <2>4
<1> QED BY <1>1, ServerInvariance, PTL

(* A handler that is about to answer has heard of its client. *)
Asked == \A k \in Conns : hpc[k] = "send" => peer[k] # "quiet"

LEMMA AskedStep ==
  ASSUME ServerInv, Asked, [Next]_vars
  PROVE  Asked'
<1> USE DEF kernelVars, clientVars, pthreadVars, listVars, waitVars, eventVars,
            listenerVars, handlerVars, Asked
<1>0. DOMAIN hpc = Conns /\ DOMAIN peer = Conns
  BY DEF ServerInv, TypeOK
<1>1. ASSUME NEW s \in Scheds, Scheduler(s) PROVE Asked'
  <2>1. CASE UNCHANGED <<hpc, peer>>
    BY <2>1
  <2>2. ASSUME NEW e, NEW ev, NEW next, Wake(s, e, ev, next)
        PROVE  hpc' = hpc \/ \E h \in Conns : hpc' = [hpc EXCEPT ![h] = "close"]
    BY <2>2 DEF Wake
  <2>3. CASE ReadEvent(s) \/ WriteEvent(s)
    BY <2>2, <2>3, <1>0 DEF ReadEvent, WriteEvent
  <2> QED BY <1>1, <2>1, <2>3 DEF Scheduler, ExpireDone, ReadyResume, ReadyEmpty,
                                  DeferResume, DeferEmpty, Poll, EventsDone
<1>2. ASSUME NEW s \in Scheds, NEW k \in Conns, Expire(s, k) PROVE Asked'
  BY <1>0, <1>2 DEF Expire
<1>3. ASSUME NEW s \in Scheds, Listener(s) PROVE Asked'
  <2>1. CASE Accept(s)
    <3>1. hpc' = [hpc EXCEPT ![Head(backlog)] = "start"] /\ peer' = peer
      BY <2>1 DEF Accept
    <3> QED BY <3>1, <1>0
  <2>2. CASE UNCHANGED <<hpc, peer>>
    BY <2>2
  <2>3. CASE AcceptAborted(s) \/ AcceptUnset(s)
    <3>1. /\ hpc' = hpc /\ peer' = [peer EXCEPT ![Head(backlog)] = "quiet"]
          /\ backlog # <<>>
      BY <2>3 DEF AcceptAborted, AcceptUnset, Forget
    <3>2. hpc[Head(backlog)] = "none"
      BY <3>1, FirstFacts
    <3> QED BY <3>1, <3>2, <1>0
  <2> QED BY <1>3, <2>1, <2>2, <2>3 DEF Listener, Stop, Renice, AcceptLeak, AcceptWait,
                                       AcceptError, Return
<1>4. ASSUME NEW s \in Scheds, NEW k \in Conns, Handler(s, k) PROVE Asked'
  <2>1. CASE StartFails(s, k) \/ ReturnOpen(s, k) \/ RecvWait(s, k)
    BY <2>1, <1>0 DEF StartFails, ReturnOpen, RecvWait, HGoto
  <2>2. CASE Recv(s, k)
    BY <2>2, <1>0 DEF Recv, HGoto
  <2>3. CASE Send(s, k)
    BY <2>3, <1>0 DEF Send, HGoto
  <2>4. CASE SendWait(s, k)
    BY <2>4 DEF SendWait
  <2>5. CASE Close(s, k)
    <3>1. /\ peer' = [peer EXCEPT ![k] = "quiet"]
          /\ \A h \in Conns : hpc'[h] = "send" => hpc[h] = "send" /\ h # k
      BY <2>5 DEF Close, Forget
    <3> QED BY <3>1, <1>0
  <2> QED BY <1>4, <2>1, <2>2, <2>3, <2>4, <2>5 DEF Handler
<1>5. CASE Environment
  <2>1. ASSUME NEW k \in Conns, PeerSends(k) \/ PeerShuts(k) \/ PeerResets(k)
        PROVE  Asked'
    <3>1. PICK p \in {"data", "eof", "reset"} : peer' = [peer EXCEPT ![k] = p]
      BY <2>1 DEF PeerSends, PeerShuts, PeerResets, Peer
    <3>2. hpc' = hpc
      BY <2>1 DEF PeerSends, PeerShuts, PeerResets, Peer
    <3> QED BY <3>1, <3>2, <1>0
  <2>2. CASE UNCHANGED <<hpc, peer>>
    BY <2>2
  <2> QED BY <1>5, <2>1, <2>2 DEF Environment, Connect, Drain, LogDone, Signal
<1>6. CASE UNCHANGED vars
  BY <1>6 DEF vars
<1> QED BY <1>1, <1>2, <1>3, <1>4, <1>5, <1>6 DEF Next, SchedStep, Stopped

(* client_connection_handler(): who is answered has sent something or ended *)
(* its stream itself, and has not reset the connection.                     *)
THEOREM AnswersRequestHolds == Spec => AnswersRequest
<1> DEFINE P == \A k \in Conns :
                  conn'[k] = "answered" /\ conn[k] # "answered" =>
                    peer[k] \in {"data", "eof"}
<1>1. Init => Asked
  BY DEF Init, Asked
<1>2. ServerInv /\ Asked /\ [Next]_vars => Asked'
  BY AskedStep
<1>3. ServerInv /\ Asked /\ [Next]_vars => [P]_vars
  <2> SUFFICES ASSUME ServerInv, Asked, Next, NEW k \in Conns,
                      conn'[k] = "answered", conn[k] # "answered"
               PROVE  peer[k] \in {"data", "eof"}
    OBVIOUS
  <2>a. conn \in [Conns -> {"idle", "backlog", "accepted", "answered", "closed", "leaked"}]
        /\ peer[k] \in {"quiet", "data", "eof", "reset"}
    BY DEF ServerInv, TypeOK
  <2>b. conn' # conn
    BY <2>a
  <2>c. \A h, c : conn' = [conn EXCEPT ![h] = c] => c = "answered" /\ h = k
    BY <2>a
  <2>1. \A s \in Scheds : ~Scheduler(s)
    BY <2>b DEF Scheduler, ExpireDone, ReadyResume, ReadyEmpty, DeferResume, DeferEmpty,
                Poll, ReadEvent, WriteEvent, EventsDone, kernelVars
  <2>2. \A s \in Scheds, h \in Conns : ~Expire(s, h)
    BY <2>b DEF Expire, kernelVars
  <2>3. \A s \in Scheds : ~Listener(s)
    <3> TAKE s \in Scheds
    <3>1. ~Accept(s)
      <4>1. Accept(s) => conn' = [conn EXCEPT ![Head(backlog)] = "accepted"]
        BY DEF Accept
      <4> QED BY <4>1, <2>c
    <3>2. ~AcceptLeak(s) /\ ~AcceptAborted(s) /\ ~AcceptUnset(s)
      BY <2>c DEF AcceptLeak, AcceptAborted, AcceptUnset
    <3>3. ~(Stop(s) \/ Renice(s) \/ AcceptWait(s) \/ AcceptError(s) \/ Return(s))
      BY <2>b DEF Stop, Renice, AcceptWait, AcceptError, Return, kernelVars
    <3> QED BY <3>1, <3>2, <3>3 DEF Listener
  <2>4. ~Environment /\ ~Stopped
    BY <2>b, <2>c DEF Environment, Connect, PeerSends, PeerShuts, PeerResets, Peer, Drain,
                      LogDone, Signal, Stopped, kernelVars, vars
  <2>5. PICK s \in Scheds, h \in Conns : Handler(s, h)
    BY <2>1, <2>2, <2>3, <2>4 DEF Next, SchedStep
  <2>6. Send(s, h)
    BY <2>b, <2>c, <2>5 DEF Handler, StartFails, ReturnOpen, Recv, RecvWait, SendWait,
       Close,
                            kernelVars
  <2>7. h = k /\ peer[k] # "reset" /\ hpc[k] = "send"
    BY <2>6, <2>a, <2>c DEF Send, In
  <2> QED BY <2>7, <2>a DEF Asked
<1> QED BY <1>1, <1>2, <1>3, ServerInvariance, PTL DEF Spec, AnswersRequest
=============================================================================
