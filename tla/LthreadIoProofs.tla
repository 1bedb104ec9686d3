-------------------------- MODULE LthreadIoProofs --------------------------
(***************************************************************************)
(* Proofs about LthreadIo, for any number of lthreads and workers: that an *)
(* lthread handed over is in one place of the other side, and that only a  *)
(* signal between a worker's check and its wait is missed.  IoInv says,    *)
(* place by place, whom the workers and defer may hold.                    *)
(***************************************************************************)
EXTENDS LthreadIo, TLAPS

IoPcs == {"check", "io", "defer", "trigger", "towait", "wait"}

IoTypeOK ==
  /\ ioAt \in [IoLthreads -> {"ready", "run", "io", "freed"}]
  /\ ioDone \in [IoLthreads -> BOOLEAN]
  /\ ioCancelled \subseteq IoLthreads
  /\ ioRuns \in IoLthreads \cup {Nobody}
  /\ ioAdding \in Workers \cup {-1}
  /\ ioSelector \in Workers
  /\ ioDefer \in Seq(IoLthreads)
  /\ ioQueue \in [Workers -> Seq(IoLthreads)]
  /\ ioHand \in [Workers -> IoLthreads \cup {Nobody}]
  /\ ioPc \in [Workers -> IoPcs]
  /\ ioMissed \subseteq Workers

InSeq(x, q) == \E i \in 1..Len(q) : q[i] = x
Distinct(q) == \A i, j \in 1..Len(q) : q[i] = q[j] => i = j

(* A worker's queue holds an lthread once, and no other place holds it. *)
QueueOK ==
  \A w \in Workers :
    /\ Distinct(ioQueue[w])
    /\ \A x \in IoLthreads : InSeq(x, ioQueue[w]) =>
         /\ ioAt[x] = "io"
         /\ \A v \in Workers : ioHand[v] # x
         /\ \A v \in Workers \ {w} : ~InSeq(x, ioQueue[v])
         /\ ~InSeq(x, ioDefer)

(* A worker has an lthread in its hands exactly while it works for it. *)
HandOK ==
  \A w \in Workers :
    /\ ioPc[w] \in {"io", "defer"} <=> ioHand[w] # Nobody
    /\ ioHand[w] # Nobody =>
         /\ ioAt[ioHand[w]] = "io"
         /\ \A v \in Workers \ {w} : ioHand[v] # ioHand[w]
         /\ ~InSeq(ioHand[w], ioDefer)
    /\ ioPc[w] = "defer" => ioDone[ioHand[w]]

(* Members of sched->defer have their result. *)
DeferOK ==
  /\ Distinct(ioDefer)
  /\ \A x \in IoLthreads : InSeq(x, ioDefer) => ioAt[x] = "io" /\ ioDone[x]

(* Who waits for a request is somewhere, who runs is the current lthread. *)
KeptOK ==
  \A x \in IoLthreads :
    /\ ioAt[x] = "io" =>
         \/ InSeq(x, ioDefer)
         \/ \E w \in Workers : ioHand[w] = x
         \/ \E w \in Workers : InSeq(x, ioQueue[w])
    /\ ioRuns = x => ioAt[x] \in {"run", "io"}
    /\ ioAt[x] = "run" => ioRuns = x

(* A worker that waits or is about to has missed whatever its queue holds.  *)
MissedOK ==
  \A w \in Workers :
    ioPc[w] \in {"towait", "wait"} /\ ioQueue[w] # <<>> /\ ioAdding # w => w \in ioMissed

IoInv == IoTypeOK /\ QueueOK /\ HandOK /\ DeferOK /\ KeptOK /\ MissedOK

-----------------------------------------------------------------------------
(* Membership and distinctness through the operations on a queue.           *)

LEMMA EmptyFacts ==
  ASSUME NEW x
  PROVE  ~InSeq(x, <<>>) /\ Distinct(<<>>)
BY DEF InSeq, Distinct

LEMMA TailFacts ==
  ASSUME NEW S, NEW q \in Seq(S), q # <<>>
  PROVE  /\ Head(q) \in S
         /\ Tail(q) \in Seq(S)
         /\ InSeq(Head(q), q)
         /\ \A x : InSeq(x, q) <=> x = Head(q) \/ InSeq(x, Tail(q))
         /\ Distinct(q) => Distinct(Tail(q)) /\ ~InSeq(Head(q), Tail(q))
BY DEF InSeq, Distinct

LEMMA AppendFacts ==
  ASSUME NEW S, NEW q \in Seq(S), NEW y \in S
  PROVE  /\ Append(q, y) \in Seq(S)
         /\ Append(q, y) # <<>>
         /\ \A x : InSeq(x, Append(q, y)) <=> x = y \/ InSeq(x, q)
         /\ Distinct(q) /\ ~InSeq(y, q) => Distinct(Append(q, y))
BY DEF InSeq, Distinct

-----------------------------------------------------------------------------
(* The scheduler and the lthread it runs: one lemma for each action.        *)

LEMMA IoInitInv ==
  ASSUME IoInit
  PROVE  IoInv
<1> USE IoAssumption DEF IoInit, Workers
<1>1. IoTypeOK BY DEF IoTypeOK, IoPcs
<1>2. QueueOK BY EmptyFacts DEF QueueOK
<1>3. HandOK BY DEF HandOK
<1>4. DeferOK BY EmptyFacts DEF DeferOK
<1>5. KeptOK BY DEF KeptOK
<1>6. MissedOK BY DEF MissedOK
<1> QED BY <1>1, <1>2, <1>3, <1>4, <1>5, <1>6 DEF IoInv

LEMMA IoReadyStep ==
  ASSUME IoInv, IoReady
  PROVE  IoInv'
<1> USE IoAssumption DEF IoInv, IoReady, IoResume, ioWork
<1>1. IoTypeOK' BY DEF IoTypeOK
<1>2. QueueOK' BY DEF IoTypeOK, QueueOK
<1>3. HandOK' BY DEF IoTypeOK, HandOK
<1>4. DeferOK' BY DEF IoTypeOK, DeferOK
<1>5. KeptOK' BY ZenonT(60) DEF IoTypeOK, KeptOK
<1>6. MissedOK' BY DEF MissedOK
<1> QED BY <1>1, <1>2, <1>3, <1>4, <1>5, <1>6

(* The head of defer is nowhere else, so nobody holds it when it goes on. *)
LEMMA IoDeferredStep ==
  ASSUME IoInv, IoDeferred
  PROVE  IoInv'
<1> USE IoAssumption DEF IoInv, IoDeferred, IoResume
<1> DEFINE y == Head(ioDefer)
<1>0. /\ ioDefer \in Seq(IoLthreads) /\ ioDefer # <<>>
      /\ ioDefer' = Tail(ioDefer)
  BY DEF IoTypeOK
<1>a. /\ y \in IoLthreads
      /\ Tail(ioDefer) \in Seq(IoLthreads)
      /\ \A x : InSeq(x, ioDefer) <=> x = y \/ InSeq(x, ioDefer')
      /\ Distinct(ioDefer') /\ ~InSeq(y, ioDefer')
  BY <1>0, TailFacts DEF DeferOK
<1>1. IoTypeOK' BY <1>a DEF IoTypeOK
<1>2. QueueOK' BY <1>a DEF IoTypeOK, QueueOK
<1>3. HandOK' BY <1>a DEF IoTypeOK, HandOK
<1>4. DeferOK' BY <1>a DEF IoTypeOK, DeferOK
<1>5. KeptOK'
  <2>1. ioAt'[y] \in {"run", "freed"} /\ (ioAt'[y] = "run" <=> ioRuns' = y)
    BY <1>a DEF IoTypeOK
  <2>2. \A x \in IoLthreads \ {y} : /\ ioAt'[x] = ioAt[x]
                                   /\ ioRuns' # x
                                   /\ ioRuns # x
    BY <1>a DEF IoTypeOK
  <2> QED BY <1>a, <2>1, <2>2 DEF KeptOK
<1>6. MissedOK' BY DEF MissedOK
<1> QED BY <1>1, <1>2, <1>3, <1>4, <1>5, <1>6

(* Who runs is in no place, so its worker's queue may take it. *)
LEMMA IoAddStep ==
  ASSUME IoInv, IoAdd
  PROVE  IoInv'
<1> USE IoAssumption DEF IoInv, IoAdd
<1> DEFINE y == ioRuns
           w == ioSelector
<1>0. y \in IoLthreads /\ w \in Workers /\ ioQueue[w] \in Seq(IoLthreads)
  BY DEF IoTypeOK
<1>n. (w + 1) % IoWorkers \in Workers
  BY <1>0 DEF Workers
<1>a. /\ ioQueue'[w] = Append(ioQueue[w], y)
      /\ \A v \in Workers \ {w} : ioQueue'[v] = ioQueue[v]
  BY <1>0 DEF IoTypeOK
<1>b. /\ ~InSeq(y, ioDefer)
      /\ \A v \in Workers : ~InSeq(y, ioQueue[v]) /\ ioHand[v] # y
  BY <1>0 DEF QueueOK, HandOK, DeferOK
<1>c. /\ ioQueue'[w] \in Seq(IoLthreads)
      /\ \A x : InSeq(x, ioQueue'[w]) <=> x = y \/ InSeq(x, ioQueue[w])
      /\ Distinct(ioQueue'[w])
  BY <1>0, <1>a, <1>b, AppendFacts DEF QueueOK
<1>1. IoTypeOK' BY <1>0, <1>a, <1>c, <1>n DEF IoTypeOK
<1>2. QueueOK' BY <1>0, <1>a, <1>b, <1>c DEF IoTypeOK, QueueOK
<1>3. HandOK' BY <1>0, <1>b DEF IoTypeOK, HandOK
<1>4. DeferOK' BY <1>0, <1>b DEF IoTypeOK, DeferOK
<1>5. KeptOK'
  <2>1. \A v \in Workers : \A x : InSeq(x, ioQueue[v]) => InSeq(x, ioQueue'[v])
    BY <1>a, <1>c
  <2>2. ioAt'[y] = "io" /\ InSeq(y, ioQueue'[w])
    BY <1>0, <1>c DEF IoTypeOK
  <2>3. \A x \in IoLthreads \ {y} : ioAt'[x] = ioAt[x]
    BY DEF IoTypeOK
  <2> QED BY <1>0, <2>1, <2>2, <2>3 DEF KeptOK
<1>6. MissedOK'
  <2> SUFFICES ASSUME NEW v \in Workers, v # w,
                      ioPc[v] \in {"towait", "wait"}, ioQueue'[v] # <<>>
               PROVE  v \in ioMissed
    BY DEF MissedOK
  <2>1. ioQueue[v] # <<>> BY <1>a
  <2>2. ioAdding # v BY DEF Workers
  <2> QED BY <2>1, <2>2 DEF MissedOK
<1> QED BY <1>1, <1>2, <1>3, <1>4, <1>5, <1>6

(* The signal is missed by a worker that is about to wait, and by no other. *)
LEMMA IoSignalStep ==
  ASSUME IoInv, IoSignal
  PROVE  IoInv'
<1> USE IoAssumption DEF IoInv, IoSignal, SignalTo
<1>0. ioAdding \in Workers BY DEF IoTypeOK
<1>1. IoTypeOK' BY <1>0 DEF IoTypeOK, IoPcs
<1>2. QueueOK' BY DEF QueueOK
<1>3. HandOK' BY <1>0 DEF HandOK, IoTypeOK
<1>4. DeferOK' BY DEF DeferOK
<1>5. KeptOK' BY DEF KeptOK
<1>6. MissedOK' BY <1>0 DEF MissedOK, IoTypeOK, Workers
<1> QED BY <1>1, <1>2, <1>3, <1>4, <1>5, <1>6

LEMMA IoYieldStep ==
  ASSUME IoInv, IoYield
  PROVE  IoInv'
<1> USE IoAssumption DEF IoInv, IoYield, ioWork
<1>1. IoTypeOK' BY DEF IoTypeOK
<1>2. QueueOK' BY DEF QueueOK
<1>3. HandOK' BY DEF HandOK
<1>4. DeferOK' BY DEF DeferOK
<1>5. KeptOK' BY DEF KeptOK, IoTypeOK
<1>6. MissedOK' BY DEF MissedOK
<1> QED BY <1>1, <1>2, <1>3, <1>4, <1>5, <1>6

LEMMA IoLeaveStep ==
  ASSUME IoInv, IoLeave
  PROVE  IoInv'
<1> USE IoAssumption DEF IoInv, IoLeave, ioWork
<1>0. ioRuns \in IoLthreads BY DEF IoTypeOK
<1>1. IoTypeOK' BY <1>0 DEF IoTypeOK
<1>2. QueueOK' BY <1>0 DEF QueueOK, IoTypeOK
<1>3. HandOK' BY <1>0 DEF HandOK, IoTypeOK
<1>4. DeferOK' BY <1>0 DEF DeferOK, IoTypeOK
<1>5. KeptOK' BY <1>0 DEF KeptOK, IoTypeOK
<1>6. MissedOK' BY DEF MissedOK
<1> QED BY <1>1, <1>2, <1>3, <1>4, <1>5, <1>6

LEMMA IoCancelStep ==
  ASSUME IoInv, IoCancel
  PROVE  IoInv'
<1> USE IoAssumption DEF IoInv, IoCancel, ioWork
<1>1. IoTypeOK' BY DEF IoTypeOK
<1>2. QueueOK' BY DEF QueueOK
<1>3. HandOK' BY DEF HandOK
<1>4. DeferOK' BY DEF DeferOK
<1>5. KeptOK' BY DEF KeptOK
<1>6. MissedOK' BY DEF MissedOK
<1> QED BY <1>1, <1>2, <1>3, <1>4, <1>5, <1>6

-----------------------------------------------------------------------------
(* The worker pthreads. *)

(* The head of the queue is nowhere else, so it may be held. *)
LEMMA WorkerTakesStep ==
  ASSUME IoInv, NEW w \in Workers, WorkerTakes(w)
  PROVE  IoInv'
<1> USE IoAssumption DEF IoInv, WorkerTakes, WorkerGoes, ioSched
<1> DEFINE y == Head(ioQueue[w])
<1>0. ioQueue[w] \in Seq(IoLthreads) BY DEF IoTypeOK
<1>a. /\ ioQueue'[w] = Tail(ioQueue[w])
      /\ \A v \in Workers \ {w} : ioQueue'[v] = ioQueue[v]
      /\ ioHand'[w] = y
      /\ \A v \in Workers \ {w} : ioHand'[v] = ioHand[v]
  BY DEF IoTypeOK
<1>c. /\ y \in IoLthreads /\ InSeq(y, ioQueue[w])
      /\ ioQueue'[w] \in Seq(IoLthreads)
      /\ \A x : InSeq(x, ioQueue[w]) <=> x = y \/ InSeq(x, ioQueue'[w])
      /\ Distinct(ioQueue'[w]) /\ ~InSeq(y, ioQueue'[w])
  BY <1>0, <1>a, TailFacts DEF QueueOK
<1>1. IoTypeOK' BY <1>a, <1>c DEF IoTypeOK, IoPcs
<1>2. QueueOK' BY <1>a, <1>c DEF IoTypeOK, QueueOK
<1>3. HandOK' BY <1>a, <1>c DEF IoTypeOK, HandOK, QueueOK
<1>4. DeferOK' BY DEF DeferOK
<1>5. KeptOK'
  <2> SUFFICES ASSUME NEW x \in IoLthreads, ioAt[x] = "io"
               PROVE  \/ InSeq(x, ioDefer)
                      \/ \E v \in Workers : ioHand'[v] = x
                      \/ \E v \in Workers : InSeq(x, ioQueue'[v])
    BY DEF KeptOK
  <2>1. CASE InSeq(x, ioDefer) BY <2>1
  <2>2. CASE x = y BY <2>2, <1>a
  <2>3. CASE \E v \in Workers : ioHand[v] = x
    <3>1. PICK v \in Workers : ioHand[v] = x BY <2>3
    <3>2. v # w BY <3>1 DEF HandOK, IoTypeOK
    <3> QED BY <3>1, <3>2, <1>a
  <2>4. CASE x # y /\ \E v \in Workers : InSeq(x, ioQueue[v])
    <3>1. PICK v \in Workers : InSeq(x, ioQueue[v]) BY <2>4
    <3> QED BY <3>1, <2>4, <1>a, <1>c
  <2> QED BY <2>1, <2>2, <2>3, <2>4 DEF KeptOK
<1>6. MissedOK' BY <1>a DEF MissedOK, IoTypeOK
<1> QED BY <1>1, <1>2, <1>3, <1>4, <1>5, <1>6

LEMMA WorkerIdleStep ==
  ASSUME IoInv, NEW w \in Workers, WorkerIdle(w)
  PROVE  IoInv'
<1> USE IoAssumption DEF IoInv, WorkerIdle, WorkerGoes, ioSched
<1>1. IoTypeOK' BY DEF IoTypeOK, IoPcs
<1>2. QueueOK' BY DEF QueueOK
<1>3. HandOK' BY DEF HandOK, IoTypeOK
<1>4. DeferOK' BY DEF DeferOK
<1>5. KeptOK' BY DEF KeptOK
<1>6. MissedOK' BY DEF MissedOK, IoTypeOK
<1> QED BY <1>1, <1>2, <1>3, <1>4, <1>5, <1>6

LEMMA WorkerIoStep ==
  ASSUME IoInv, NEW w \in Workers, WorkerIo(w)
  PROVE  IoInv'
<1> USE IoAssumption DEF IoInv, WorkerIo, WorkerGoes, ioSched
<1>0. ioHand[w] \in IoLthreads BY DEF IoTypeOK, HandOK
<1>1. IoTypeOK' BY <1>0 DEF IoTypeOK, IoPcs
<1>2. QueueOK' BY DEF QueueOK
<1>3. HandOK' BY <1>0 DEF HandOK, IoTypeOK
<1>4. DeferOK' BY <1>0 DEF DeferOK, IoTypeOK
<1>5. KeptOK' BY DEF KeptOK
<1>6. MissedOK' BY DEF MissedOK, IoTypeOK
<1> QED BY <1>1, <1>2, <1>3, <1>4, <1>5, <1>6

(* What the worker holds is nowhere else, so defer may take it. *)
LEMMA WorkerDefersStep ==
  ASSUME IoInv, NEW w \in Workers, WorkerDefers(w)
  PROVE  IoInv'
<1> USE IoAssumption DEF IoInv, WorkerDefers, WorkerGoes, ioSched
<1> DEFINE y == ioHand[w]
<1>0. y \in IoLthreads /\ ioDefer \in Seq(IoLthreads) BY DEF IoTypeOK, HandOK
<1>a. /\ ioHand'[w] = Nobody
      /\ \A v \in Workers \ {w} : ioHand'[v] = ioHand[v]
  BY DEF IoTypeOK
<1>b. /\ ~InSeq(y, ioDefer) /\ ioAt[y] = "io" /\ ioDone[y]
      /\ \A v \in Workers : ~InSeq(y, ioQueue[v])
      /\ \A v \in Workers \ {w} : ioHand[v] # y
  BY <1>0 DEF HandOK, QueueOK
<1>c. /\ ioDefer' \in Seq(IoLthreads)
      /\ \A x : InSeq(x, ioDefer') <=> x = y \/ InSeq(x, ioDefer)
      /\ Distinct(ioDefer')
  BY <1>0, <1>b, AppendFacts DEF DeferOK
<1>1. IoTypeOK' BY <1>a, <1>c DEF IoTypeOK, IoPcs
<1>2. QueueOK'
  <2> SUFFICES ASSUME NEW v \in Workers, NEW x \in IoLthreads, InSeq(x, ioQueue[v])
               PROVE  (\A u \in Workers : ioHand'[u] # x) /\ ~InSeq(x, ioDefer')
    BY DEF QueueOK
  <2>1. x # y BY <1>b
  <2> QED BY <2>1, <1>a, <1>c DEF QueueOK
<1>3. HandOK'
  <2> SUFFICES ASSUME NEW v \in Workers PROVE HandOK!(v)'
    BY DEF HandOK
  <2>1. CASE v = w BY <2>1, <1>a DEF HandOK, IoTypeOK
  <2>2. CASE v # w BY <2>2, <1>0, <1>a, <1>b, <1>c DEF HandOK, IoTypeOK
  <2> QED BY <2>1, <2>2
<1>4. DeferOK' BY <1>b, <1>c DEF DeferOK
<1>5. KeptOK' BY <1>0, <1>a, <1>c DEF KeptOK
<1>6. MissedOK' BY DEF MissedOK, IoTypeOK
<1> QED BY <1>1, <1>2, <1>3, <1>4, <1>5, <1>6

LEMMA WorkerTriggersStep ==
  ASSUME IoInv, NEW w \in Workers, WorkerTriggers(w)
  PROVE  IoInv'
<1> USE IoAssumption DEF IoInv, WorkerTriggers, WorkerGoes, ioSched
<1>1. IoTypeOK' BY DEF IoTypeOK, IoPcs
<1>2. QueueOK' BY DEF QueueOK
<1>3. HandOK' BY DEF HandOK, IoTypeOK
<1>4. DeferOK' BY DEF DeferOK
<1>5. KeptOK' BY DEF KeptOK
<1>6. MissedOK' BY DEF MissedOK, IoTypeOK
<1> QED BY <1>1, <1>2, <1>3, <1>4, <1>5, <1>6

LEMMA WorkerWaitsStep ==
  ASSUME IoInv, NEW w \in Workers, WorkerWaits(w)
  PROVE  IoInv'
<1> USE IoAssumption DEF IoInv, WorkerWaits, WorkerGoes, ioSched
<1>1. IoTypeOK' BY DEF IoTypeOK, IoPcs
<1>2. QueueOK' BY DEF QueueOK
<1>3. HandOK' BY DEF HandOK, IoTypeOK
<1>4. DeferOK' BY DEF DeferOK
<1>5. KeptOK' BY DEF KeptOK
<1>6. MissedOK' BY DEF MissedOK, IoTypeOK
<1> QED BY <1>1, <1>2, <1>3, <1>4, <1>5, <1>6

LEMMA WorkerWakesStep ==
  ASSUME IoInv, NEW w \in Workers, WorkerWakes(w)
  PROVE  IoInv'
<1> USE IoAssumption DEF IoInv, WorkerWakes, WorkerGoes, ioSched
<1>1. IoTypeOK' BY DEF IoTypeOK, IoPcs
<1>2. QueueOK' BY DEF QueueOK
<1>3. HandOK' BY DEF HandOK, IoTypeOK
<1>4. DeferOK' BY DEF DeferOK
<1>5. KeptOK' BY DEF KeptOK
<1>6. MissedOK' BY DEF MissedOK, IoTypeOK
<1> QED BY <1>1, <1>2, <1>3, <1>4, <1>5, <1>6

LEMMA IoStutter ==
  ASSUME IoInv, UNCHANGED ioVars
  PROVE  IoInv'
<1> USE DEF IoInv, ioVars, ioSched, ioWork
<1>1. IoTypeOK' BY DEF IoTypeOK
<1>2. QueueOK' BY DEF QueueOK
<1>3. HandOK' BY DEF HandOK
<1>4. DeferOK' BY DEF DeferOK
<1>5. KeptOK' BY DEF KeptOK
<1>6. MissedOK' BY DEF MissedOK
<1> QED BY <1>1, <1>2, <1>3, <1>4, <1>5, <1>6

-----------------------------------------------------------------------------
(* The places of the hand-over, the results of the requests and the missed  *)
(* signals agree in every reachable state of _lthread_io_add(), of the      *)
(* workers and of the scheduler.                                            *)
THEOREM IoInvariance == IoSpec => []IoInv
<1>1. IoInit => IoInv BY IoInitInv
<1>2. IoInv /\ [IoNext]_ioVars => IoInv'
  <2> SUFFICES ASSUME IoInv, [IoNext]_ioVars PROVE IoInv'
    OBVIOUS
  <2>1. CASE IoReady BY <2>1, IoReadyStep
  <2>2. CASE IoDeferred BY <2>2, IoDeferredStep
  <2>3. CASE IoAdd BY <2>3, IoAddStep
  <2>4. CASE IoSignal BY <2>4, IoSignalStep
  <2>5. CASE IoYield BY <2>5, IoYieldStep
  <2>6. CASE IoLeave BY <2>6, IoLeaveStep
  <2>7. CASE IoCancel BY <2>7, IoCancelStep
  <2>8. ASSUME NEW w \in Workers, WorkerTakes(w) PROVE IoInv' BY <2>8, WorkerTakesStep
  <2>9. ASSUME NEW w \in Workers, WorkerIdle(w) PROVE IoInv' BY <2>9, WorkerIdleStep
  <2>10. ASSUME NEW w \in Workers, WorkerIo(w) PROVE IoInv' BY <2>10, WorkerIoStep
  <2>11. ASSUME NEW w \in Workers, WorkerDefers(w) PROVE IoInv' BY <2>11, WorkerDefersStep
  <2>12. ASSUME NEW w \in Workers, WorkerTriggers(w) PROVE IoInv' BY <2>12, WorkerTriggersStep
  <2>13. ASSUME NEW w \in Workers, WorkerWaits(w) PROVE IoInv' BY <2>13, WorkerWaitsStep
  <2>14. ASSUME NEW w \in Workers, WorkerWakes(w) PROVE IoInv' BY <2>14, WorkerWakesStep
  <2>15. CASE UNCHANGED ioVars BY <2>15, IoStutter
  <2> QED BY <2>1, <2>2, <2>3, <2>4, <2>5, <2>6, <2>7, <2>8, <2>9, <2>10, <2>11, <2>12,
             <2>13, <2>14, <2>15 DEF IoNext
<1> QED BY <1>1, <1>2, PTL DEF IoSpec

(* An lthread that stands once in a queue has one index there. *)
LEMMA OneIndex ==
  ASSUME NEW q \in Seq(IoLthreads), Distinct(q), NEW x, InSeq(x, q)
  PROVE  \E i \in DOMAIN q : Indices(q, x) = {i}
BY DEF InSeq, Distinct, Indices

LEMMA NoIndex ==
  ASSUME NEW q \in Seq(IoLthreads), NEW x, ~InSeq(x, q)
  PROVE  Indices(q, x) = {}
BY DEF InSeq, Indices

(* What IoHandedOver says of one lthread follows, place by place. *)
LEMMA IoHandedOverFromInv ==
  ASSUME IoInv
  PROVE  IoHandedOver
<1> SUFFICES ASSUME NEW x \in IoLthreads PROVE IoHandedOver!(x)
  BY DEF IoHandedOver
<1> USE DEF IoInv
<1>t. /\ ioDefer \in Seq(IoLthreads)
      /\ \A w \in Workers : ioQueue[w] \in Seq(IoLthreads)
  BY DEF IoTypeOK
<1>1. ioRuns = x => ioAt[x] \in {"run", "io"}
  BY DEF KeptOK
<1>2. Indices(ioDefer, x) # {} => ioDone[x]
  BY <1>t, NoIndex DEF DeferOK
<1>3. CASE ioAt[x] # "io"
  <2>1. Indices(ioDefer, x) = {} BY <1>t, <1>3, NoIndex DEF DeferOK
  <2>2. \A w \in Workers : ioHand[w] # x BY <1>3, IoAssumption DEF HandOK
  <2>3. \A w \in Workers : Indices(ioQueue[w], x) = {} BY <1>t, <1>3, NoIndex DEF QueueOK
  <2>4. IoPlaces(x) = {} BY <2>1, <2>2, <2>3 DEF IoPlaces
  <2> QED BY <1>1, <1>2, <1>3, <2>4
<1>4. CASE ioAt[x] = "io"
  <2>1. CASE InSeq(x, ioDefer)
    <3>1. PICK i \in DOMAIN ioDefer : Indices(ioDefer, x) = {i}
      BY <1>t, <2>1, OneIndex DEF DeferOK
    <3>2. \A w \in Workers : ioHand[w] # x BY <2>1, IoAssumption DEF HandOK
    <3>3. \A w \in Workers : Indices(ioQueue[w], x) = {} BY <1>t, <2>1, NoIndex DEF QueueOK
    <3>4. IoPlaces(x) = {<<"defer", 0, i>>} BY <3>1, <3>2, <3>3 DEF IoPlaces
    <3> QED BY <1>1, <1>2, <1>4, <3>4
  <2>2. CASE \E w \in Workers : ioHand[w] = x
    <3>0. PICK w \in Workers : ioHand[w] = x BY <2>2
    <3>1. Indices(ioDefer, x) = {} BY <1>t, <3>0, NoIndex, IoAssumption DEF HandOK
    <3>2. {v \in Workers : ioHand[v] = x} = {w} BY <3>0, IoAssumption DEF HandOK
    <3>3. \A v \in Workers : Indices(ioQueue[v], x) = {} BY <1>t, <3>0, NoIndex DEF QueueOK
    <3>4. IoPlaces(x) = {<<"hand", w, 0>>} BY <3>1, <3>2, <3>3 DEF IoPlaces
    <3> QED BY <1>1, <1>2, <1>4, <3>4
  <2>3. CASE \E w \in Workers : InSeq(x, ioQueue[w])
    <3>0. PICK w \in Workers : InSeq(x, ioQueue[w]) BY <2>3
    <3>a. PICK i \in DOMAIN ioQueue[w] : Indices(ioQueue[w], x) = {i}
      BY <1>t, <3>0, OneIndex DEF QueueOK
    <3>1. Indices(ioDefer, x) = {} BY <1>t, <3>0, NoIndex DEF QueueOK
    <3>2. \A v \in Workers : ioHand[v] # x BY <3>0 DEF QueueOK
    <3>3. \A v \in Workers \ {w} : Indices(ioQueue[v], x) = {}
      BY <1>t, <3>0, NoIndex DEF QueueOK
    <3>4. IoPlaces(x) = {<<"queue", w, i>>} BY <3>a, <3>1, <3>2, <3>3 DEF IoPlaces
    <3> QED BY <1>1, <1>2, <1>4, <3>4
  <2> QED BY <1>4, <2>1, <2>2, <2>3 DEF KeptOK
<1> QED BY <1>3, <1>4

(* lthread_io.c: an lthread that waits for its request is in exactly one    *)
(* queue, hand or place of defer, none other is, and it comes back with its *)
(* result: for any number of lthreads and workers.                          *)
THEOREM IoHandedOverHolds == IoSpec => []IoHandedOver
BY IoInvariance, IoHandedOverFromInv, PTL

(* lthread_io.c: a worker that waits beside a request has missed a signal   *)
(* between its check and its wait, the one order that loses a request.      *)
THEOREM IoMissedOnlyHolds == IoSpec => []IoMissedOnly
<1>1. IoInv => IoMissedOnly BY DEF IoInv, MissedOK, IoMissedOnly
<1> QED BY <1>1, IoInvariance, PTL

=============================================================================
