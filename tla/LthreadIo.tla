----------------------------- MODULE LthreadIo -----------------------------
(***************************************************************************)
(* lthread_io_read() and lthread_io_write() (lthread_io.c): lthreads of    *)
(* one scheduler hand themselves to worker pthreads in turn, each with a   *)
(* queue, a mutex for it, and a condition variable it waits on without a   *)
(* predicate.  A worker that is done puts the lthread on sched->defer.     *)
(* Every step under a mutex is one action; the steps between are not.      *)
(***************************************************************************)
EXTENDS Integers, Sequences, FiniteSets

CONSTANTS
  IoLthreads,     \* lthreads, all of them detached
  IoWorkers,      \* IO_WORKERS
  Nobody          \* NULL

ASSUME IoAssumption == IoWorkers \in Nat \ {0} /\ Nobody \notin IoLthreads

VARIABLES
  ioAt,           \* lthread -> "ready", "run", "io" (its state has WAIT_IO), "freed"
  ioDone,         \* lthread -> io.ret and io.err are those of its request
  ioCancelled,    \* the lthreads with LT_ST_CANCELLED
  ioRuns,         \* sched->current_lthread
  ioAdding,       \* the worker that has yet to be signalled, -1 when none has
  ioSelector,     \* io_selector
  ioDefer,        \* sched->defer
  ioQueue,        \* worker -> lthreads
  ioHand,         \* worker -> lt
  ioPc,           \* worker -> where it is
  ioMissed        \* history: workers signalled between their check and their wait

ioSched == <<ioAt, ioCancelled, ioRuns, ioAdding, ioSelector>>
ioWork == <<ioDone, ioDefer, ioQueue, ioHand, ioPc, ioMissed>>
ioVars == <<ioSched, ioWork>>

Workers == 0..IoWorkers - 1

IoInit ==
  /\ ioAt = [x \in IoLthreads |-> "ready"]
  /\ ioDone = [x \in IoLthreads |-> FALSE]
  /\ ioCancelled = {} /\ ioRuns = Nobody /\ ioAdding = -1 /\ ioSelector = 0
  /\ ioDefer = <<>>
  /\ ioQueue = [w \in Workers |-> <<>>]
  /\ ioHand = [w \in Workers |-> Nobody]
  /\ ioPc = [w \in Workers |-> "check"]
  /\ ioMissed = {}

----------------------------------------------------------------------------
(* The scheduler and the lthread it runs. *)

(* _lthread_resume(), from ready or from defer: a cancelled one is freed.   *)
IoResume(x) ==
  /\ ioRuns = Nobody
  /\ IF x \in ioCancelled
     THEN ioAt' = [ioAt EXCEPT ![x] = "freed"] /\ UNCHANGED ioRuns
     ELSE ioAt' = [ioAt EXCEPT ![x] = "run"] /\ ioRuns' = x
  /\ UNCHANGED <<ioCancelled, ioAdding, ioSelector>>

IoReady == \E x \in IoLthreads :
  ioAt[x] = "ready" /\ IoResume(x) /\ UNCHANGED ioWork

(* lthread_run(), step 3. *)
IoDeferred ==
  /\ ioDefer # <<>>
  /\ IoResume(Head(ioDefer))
  /\ ioDefer' = Tail(ioDefer)
  /\ ioDone' = [ioDone EXCEPT ![Head(ioDefer)] = FALSE]
  /\ UNCHANGED <<ioQueue, ioHand, ioPc, ioMissed>>

(* _lthread_io_add() up to the end of its first critical section. *)
IoAdd ==
  /\ ioRuns # Nobody /\ ioAdding = -1 /\ ioAt[ioRuns] = "run"
  /\ ioAt' = [ioAt EXCEPT ![ioRuns] = "io"]
  /\ ioQueue' = [ioQueue EXCEPT ![ioSelector] = Append(@, ioRuns)]
  /\ ioAdding' = ioSelector
  /\ ioSelector' = (ioSelector + 1) % IoWorkers
  /\ UNCHANGED <<ioCancelled, ioRuns, ioDone, ioDefer, ioHand, ioPc, ioMissed>>

(* pthread_cond_signal() reaches a worker that waits, or nobody. *)
SignalTo(w) ==
  /\ ioPc' = [ioPc EXCEPT ![w] = IF @ = "wait" THEN "check" ELSE @]
  /\ ioMissed' = IF ioPc[w] = "towait" THEN ioMissed \cup {w} ELSE ioMissed

(* Mutant: io_selector, already advanced, is looked at again. *)
IoSignalNext ==
  /\ ioAdding # -1
  /\ SignalTo(ioSelector)
  /\ ioAdding' = -1
  /\ UNCHANGED <<ioAt, ioCancelled, ioRuns, ioSelector, ioDone, ioDefer, ioQueue, ioHand>>

IoSignal ==
  /\ ioAdding # -1
  /\ SignalTo(ioAdding)
  /\ ioAdding' = -1
  /\ UNCHANGED <<ioAt, ioCancelled, ioRuns, ioSelector, ioDone, ioDefer, ioQueue, ioHand>>

IoYield ==
  /\ ioRuns # Nobody /\ ioAdding = -1 /\ ioAt[ioRuns] = "io"
  /\ ioRuns' = Nobody
  /\ UNCHANGED <<ioAt, ioCancelled, ioAdding, ioSelector, ioWork>>

(* lthread_sleep(), and the end of the function. *)
IoLeave == \E to \in {"ready", "freed"} :
  /\ ioRuns # Nobody /\ ioAt[ioRuns] = "run"
  /\ ioAt' = [ioAt EXCEPT ![ioRuns] = to]
  /\ ioRuns' = Nobody
  /\ UNCHANGED <<ioCancelled, ioAdding, ioSelector, ioWork>>

(* Mutant: lthread_cancel() makes an lthread ready whatever it waits for. *)
IoCancelReadies == \E x \in IoLthreads :
  /\ ioRuns # Nobody /\ ioAt[ioRuns] = "run" /\ ioAt[x] = "io"
  /\ ioCancelled' = ioCancelled \cup {x}
  /\ ioAt' = [ioAt EXCEPT ![x] = "ready"]
  /\ UNCHANGED <<ioRuns, ioAdding, ioSelector, ioWork>>

(* lthread_cancel() of an lthread that waits for its request. *)
IoCancel == \E x \in IoLthreads :
  /\ ioRuns # Nobody /\ ioAt[ioRuns] = "run" /\ ioAt[x] = "io"
  /\ ioCancelled' = ioCancelled \cup {x}
  /\ UNCHANGED <<ioAt, ioRuns, ioAdding, ioSelector, ioWork>>

----------------------------------------------------------------------------
(* _lthread_io_worker() *)

WorkerGoes(w, from, to) == ioPc[w] = from /\ ioPc' = [ioPc EXCEPT ![w] = to]

WorkerTakes(w) ==
  /\ ioQueue[w] # <<>>
  /\ WorkerGoes(w, "check", "io")
  /\ ioHand' = [ioHand EXCEPT ![w] = Head(ioQueue[w])]
  /\ ioQueue' = [ioQueue EXCEPT ![w] = Tail(@)]
  /\ ioMissed' = ioMissed \ {w}
  /\ UNCHANGED <<ioSched, ioDone, ioDefer>>

WorkerIdle(w) ==
  /\ ioQueue[w] = <<>>
  /\ WorkerGoes(w, "check", "towait")
  /\ ioMissed' = ioMissed \ {w}
  /\ UNCHANGED <<ioSched, ioDone, ioDefer, ioQueue, ioHand>>

(* read() or write() *)
WorkerIo(w) ==
  /\ WorkerGoes(w, "io", "defer")
  /\ ioDone' = [ioDone EXCEPT ![ioHand[w]] = TRUE]
  /\ UNCHANGED <<ioSched, ioDefer, ioQueue, ioHand, ioMissed>>

WorkerDefers(w) ==
  /\ WorkerGoes(w, "defer", "trigger")
  /\ ioDefer' = Append(ioDefer, ioHand[w])
  /\ ioHand' = [ioHand EXCEPT ![w] = Nobody]
  /\ UNCHANGED <<ioSched, ioDone, ioQueue, ioMissed>>

(* _lthread_poller_ev_trigger() wakes the scheduler, which would have come  *)
(* back to defer after default_timeout.                                     *)
WorkerTriggers(w) ==
  /\ WorkerGoes(w, "trigger", "check")
  /\ UNCHANGED <<ioSched, ioDone, ioDefer, ioQueue, ioHand, ioMissed>>

WorkerWaits(w) ==
  /\ WorkerGoes(w, "towait", "wait")
  /\ UNCHANGED <<ioSched, ioDone, ioDefer, ioQueue, ioHand, ioMissed>>

(* pthread_cond_wait() may return by itself. *)
WorkerWakes(w) ==
  /\ WorkerGoes(w, "wait", "check")
  /\ UNCHANGED <<ioSched, ioDone, ioDefer, ioQueue, ioHand, ioMissed>>

IoNext ==
  \/ IoReady \/ IoDeferred \/ IoAdd \/ IoSignal \/ IoYield \/ IoLeave \/ IoCancel
  \/ \E w \in Workers :
       \/ WorkerTakes(w) \/ WorkerIdle(w) \/ WorkerIo(w) \/ WorkerDefers(w)
       \/ WorkerTriggers(w) \/ WorkerWaits(w) \/ WorkerWakes(w)

----------------------------------------------------------------------------
IoSpec == IoInit /\ [][IoNext]_ioVars

Indices(s, x) == {i \in DOMAIN s : s[i] = x}

(* Where the other side has x. *)
IoPlaces(x) ==
  {<<"defer", 0, i>> : i \in Indices(ioDefer, x)}
    \cup {<<"hand", w, 0>> : w \in {v \in Workers : ioHand[v] = x}}
    \cup (UNION {{<<"queue", w, i>> : i \in Indices(ioQueue[w], x)} : w \in Workers})

(* From lthread_io_read() or lthread_io_write() until the scheduler takes   *)
(* it back, an lthread is in one queue, or in the hands of one worker, or   *)
(* on defer, and nobody runs or frees it there, also when it is cancelled   *)
(* meanwhile or the worker is done before it has yielded; it comes back     *)
(* with the result of its request.                                          *)
IoHandedOver == \A x \in IoLthreads :
  /\ IF ioAt[x] = "io" THEN \E p \in IoPlaces(x) : IoPlaces(x) = {p}
                       ELSE IoPlaces(x) = {}
  /\ ioRuns = x => ioAt[x] \in {"run", "io"}
  /\ Indices(ioDefer, x) # {} => ioDone[x]

(* A request waits for a worker that waits only if its signal came while    *)
(* the worker was between finding its queue empty and waiting: no other     *)
(* order of their steps, of requests, answers and cancellations loses one.  *)
IoMissedOnly == \A w \in Workers :
  ioPc[w] = "wait" /\ ioQueue[w] # <<>> /\ ioAdding # w => w \in ioMissed
=============================================================================
