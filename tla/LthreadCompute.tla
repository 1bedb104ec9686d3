--------------------------- MODULE LthreadCompute ---------------------------
(***************************************************************************)
(* The hand-off of an lthread between its scheduler and a compute pthread: *)
(* src/src/thirdparty/lthread/lthread_compute.c with the parts of          *)
(* lthread_run(), _lthread_resume() and the poller it works with.  In      *)
(* sync_agent the one client of the hand-off is lthread_log(), which       *)
(* writes a log line on a compute pthread so that the scheduler need not   *)
(* block (src/src/agent/sync_agent.c:90-117).                              *)
(*                                                                         *)
(* One action is one critical section of a mutex, or one stretch of code   *)
(* of a thread between two accesses to state another thread uses.  An      *)
(* lthread of this program always detaches (sync_server_listen,            *)
(* client_connection_handler and lthread_log all call lthread_detach()),   *)
(* so an lthread that exits is freed by the scheduler that ran it.         *)
(***************************************************************************)
EXTENDS Naturals, Sequences, FiniteSets

CONSTANTS
  Scheds,    \* schedulers: one per pthread sync_server_start() creates
  Lthreads,  \* lthreads that can ever be created
  Comps,     \* compute schedulers that can exist at a time
  None,      \* a NULL pointer
  Root,      \* Root[s]: the lthread server_accept_loop() creates on s
  MaxLogs    \* bound: calls of lthread_log() by one lthread

ASSUME RootAssumption ==
  /\ Root \in [Scheds -> Lthreads]
  /\ \A s, t \in Scheds : Root[s] = Root[t] => s = t
ASSUME NoneAssumption == None \notin Lthreads \cup Scheds \cup Comps
ASSUME MaxLogsAssumption == MaxLogs \in Nat

VARIABLES
  alive,    \* FALSE once the process has died of a NULL dereference
  spc,      \* what each scheduler pthread does next
  cur,      \* the lthread its local variable lt points to
  loop,     \* the loop of lthread_run() that resumed it
  ready,    \* sched->ready
  defer,    \* sched->defer
  busy,     \* sched->busy
  trig,     \* the counter of sched->eventfd is not zero
  state,    \* lt->state, and whether lt is allocated
  lsched,   \* lt->sched
  lcomp,    \* lt->compute_sched
  logs,     \* calls of lthread_log() made so far
  cscheds,  \* the list compute_scheds
  cst,      \* compute_sched->compute_st
  cpc,      \* what each compute pthread does next; "none": it does not exist
  ccur,     \* the lthread its local variable lt points to
  cq        \* compute_sched->lthreads

schedVars == <<spc, cur, loop, ready, busy>>
sharedVars == <<defer, trig>>
lthreadVars == <<state, lsched, lcomp, logs>>
compVars == <<cscheds, cst, cpc, ccur, cq>>
vars == <<alive, schedVars, sharedVars, lthreadVars, compVars>>

(* "idle" stands for neither of the two compute bits. *)
States == {"unborn", "idle", "PENDING_RUNCOMPUTE", "RUNCOMPUTE", "freed"}
SchedPcs == {"top", "ready", "run", "add", "signal", "defer", "poll",
             "events", "done"}
CompPcs == {"none", "loop", "picked", "run", "requeue", "trigger", "wait",
            "waiting", "timedout"}

Roots == {Root[s] : s \in Scheds}

(* The code run by server_accept_loop() up to lthread_run(). *)
Init ==
  /\ alive = TRUE
  /\ spc = [s \in Scheds |-> "top"]
  /\ cur = [s \in Scheds |-> None]
  /\ loop = [s \in Scheds |-> "ready"]
  /\ ready = [s \in Scheds |-> <<Root[s]>>]
  /\ defer = [s \in Scheds |-> <<>>]
  /\ busy = [s \in Scheds |-> {}]
  /\ trig = [s \in Scheds |-> FALSE]
  /\ state = [lt \in Lthreads |->
                IF lt \in Roots THEN "idle" ELSE "unborn"]
  /\ lsched = [lt \in Lthreads |-> IF lt \in Roots
                                   THEN CHOOSE s \in Scheds : Root[s] = lt
                                   ELSE None]
  /\ lcomp = [lt \in Lthreads |-> None]
  /\ logs = [lt \in Lthreads |-> 0]
  /\ cscheds = {}
  /\ cst = [c \in Comps |-> "BUSY"]
  /\ cpc = [c \in Comps |-> "none"]
  /\ ccur = [c \in Comps |-> None]
  /\ cq = [c \in Comps |-> <<>>]

-----------------------------------------------------------------------------
(* The scheduler pthread s: lthread_run().                                  *)

(* while (!_lthread_sched_isdone(sched)); the last iteration frees sched.   *)
Top(s) ==
  /\ spc[s] = "top"
  /\ spc' = [spc EXCEPT ![s] =
               IF busy[s] = {} /\ ready[s] = <<>> THEN "done" ELSE "ready"]
  /\ UNCHANGED <<alive, cur, loop, ready, busy, sharedVars, lthreadVars, compVars>>

(* Step 2: take the first ready lthread and switch to it. *)
ReadyResume(s) ==
  /\ spc[s] = "ready"
  /\ ready[s] # <<>>
  /\ ready' = [ready EXCEPT ![s] = Tail(@)]
  /\ cur' = [cur EXCEPT ![s] = Head(ready[s])]
  /\ loop' = [loop EXCEPT ![s] = "ready"]
  /\ spc' = [spc EXCEPT ![s] = "run"]
  /\ UNCHANGED <<alive, busy, sharedVars, lthreadVars, compVars>>

ReadyEmpty(s) ==
  /\ spc[s] = "ready"
  /\ ready[s] = <<>>
  /\ spc' = [spc EXCEPT ![s] = "defer"]
  /\ UNCHANGED <<alive, cur, loop, ready, busy, sharedVars, lthreadVars, compVars>>

(* Mutant: the lthread deferred last is taken first. *)
DeferResumeLast(s) ==
  /\ spc[s] = "defer"
  /\ defer[s] # <<>>
  /\ LET lt == defer[s][Len(defer[s])]
     IN /\ defer' = [defer EXCEPT ![s] = SubSeq(@, 1, Len(@) - 1)]
        /\ busy' = [busy EXCEPT ![s] = @ \ {lt}]
        /\ cur' = [cur EXCEPT ![s] = lt]
  /\ loop' = [loop EXCEPT ![s] = "defer"]
  /\ spc' = [spc EXCEPT ![s] = "run"]
  /\ UNCHANGED <<alive, ready, trig, lthreadVars, compVars>>

(* Step 3: take an lthread back from a compute pthread, under defer_mutex,  *)
(* then off the busy list, and switch to it.                                *)
DeferResume(s) ==
  /\ spc[s] = "defer"
  /\ defer[s] # <<>>
  /\ defer' = [defer EXCEPT ![s] = Tail(@)]
  /\ busy' = [busy EXCEPT ![s] = @ \ {Head(defer[s])}]
  /\ cur' = [cur EXCEPT ![s] = Head(defer[s])]
  /\ loop' = [loop EXCEPT ![s] = "defer"]
  /\ spc' = [spc EXCEPT ![s] = "run"]
  /\ UNCHANGED <<alive, ready, trig, lthreadVars, compVars>>

DeferEmpty(s) ==
  /\ spc[s] = "defer"
  /\ defer[s] = <<>>
  /\ spc' = [spc EXCEPT ![s] = "poll"]
  /\ UNCHANGED <<alive, cur, loop, ready, busy, sharedVars, lthreadVars, compVars>>

(* Steps 4 and 5: epoll_wait() reports the eventfd, whose counter is then   *)
(* read back to zero; or it returns after at most default_timeout (3 s).    *)
PollEvent(s) ==
  /\ spc[s] = "poll"
  /\ trig[s]
  /\ spc' = [spc EXCEPT ![s] = "events"]
  /\ UNCHANGED <<alive, cur, loop, ready, busy, sharedVars, lthreadVars, compVars>>

PollTimeout(s) ==
  /\ spc[s] = "poll"
  /\ ~trig[s]
  /\ spc' = [spc EXCEPT ![s] = "top"]
  /\ UNCHANGED <<alive, cur, loop, ready, busy, sharedVars, lthreadVars, compVars>>

ClearTrigger(s) ==
  /\ spc[s] = "events"
  /\ trig' = [trig EXCEPT ![s] = FALSE]
  /\ spc' = [spc EXCEPT ![s] = "top"]
  /\ UNCHANGED <<alive, cur, loop, ready, busy, defer, lthreadVars, compVars>>

-----------------------------------------------------------------------------
(* The lthread that runs on s.                                              *)

(* lthread_create(): sync_server_listen, a root, creates the handlers. *)
Create(s, lt) ==
  /\ spc[s] = "run"
  /\ cur[s] = Root[s]
  /\ state[lt] = "unborn"
  /\ state' = [state EXCEPT ![lt] = "idle"]
  /\ lsched' = [lsched EXCEPT ![lt] = s]
  /\ ready' = [ready EXCEPT ![s] = Append(@, lt)]
  /\ UNCHANGED <<alive, spc, cur, loop, busy, sharedVars, lcomp, logs, compVars>>

(* fun() returns: _exec() sets EXITED, _lthread_resume() frees lt. *)
Exit(s) ==
  /\ spc[s] = "run"
  /\ state' = [state EXCEPT ![cur[s]] = "freed"]
  /\ cur' = [cur EXCEPT ![s] = None]
  /\ spc' = [spc EXCEPT ![s] = loop[s]]
  /\ UNCHANGED <<alive, loop, ready, busy, sharedVars, lsched, lcomp, logs, compVars>>

(* lthread_log() calls lthread_compute_begin(), all of it under sched_mutex. *)
MayLog(s) == spc[s] = "run" /\ logs[cur[s]] < MaxLogs

FreeComps == {c \in cscheds : cst[c] = "FREE"}

(* Queue the lthread at c and switch back to the scheduler. *)
HandOver(s, c) ==
  /\ state' = [state EXCEPT ![cur[s]] = "PENDING_RUNCOMPUTE"]
  /\ lcomp' = [lcomp EXCEPT ![cur[s]] = c]
  /\ logs' = [logs EXCEPT ![cur[s]] = @ + 1]
  /\ cq' = [cq EXCEPT ![c] = Append(@, cur[s])]
  /\ spc' = [spc EXCEPT ![s] = "add"]
  /\ UNCHANGED <<alive, cur, loop, ready, busy, sharedVars, lsched, ccur>>

BeginFree(s) ==
  /\ MayLog(s)
  /\ \E c \in FreeComps : HandOver(s, c)
  /\ UNCHANGED <<cscheds, cst, cpc>>

(* _lthread_compute_sched_create(); the zeroed compute_st reads BUSY. *)
BeginNew(s) ==
  /\ MayLog(s)
  /\ FreeComps = {}
  /\ \E c \in Comps :
       /\ cpc[c] = "none"
       /\ HandOver(s, c)
       /\ cscheds' = cscheds \cup {c}
       /\ cst' = [cst EXCEPT ![c] = "BUSY"]
       /\ cpc' = [cpc EXCEPT ![c] = "loop"]

(* The creation fails: use a compute scheduler of the list, if there is one. *)
BeginShared(s) ==
  /\ MayLog(s)
  /\ FreeComps = {}
  /\ \E c \in cscheds : HandOver(s, c)
  /\ UNCHANGED <<cscheds, cst, cpc>>

(* It fails and the list is empty: lthread_log() ignores the -1, writes the *)
(* line here, and lthread_compute_end() follows a NULL compute_sched.       *)
BeginFails(s) ==
  /\ MayLog(s)
  /\ cscheds = {}
  /\ alive' = FALSE
  /\ UNCHANGED <<schedVars, sharedVars, lthreadVars, compVars>>

(* Mutant: the lthread is not put on the busy list. *)
ComputeAddNotBusy(s) ==
  /\ spc[s] = "add"
  /\ state' = [state EXCEPT ![cur[s]] = "RUNCOMPUTE"]
  /\ spc' = [spc EXCEPT ![s] = "signal"]
  /\ UNCHANGED <<alive, cur, loop, ready, busy, sharedVars, lsched, lcomp, logs, compVars>>

(* Back in _lthread_resume(): _lthread_compute_add(), up to the mutex ...   *)
ComputeAdd(s) ==
  /\ spc[s] = "add"
  /\ busy' = [busy EXCEPT ![s] = @ \cup {cur[s]}]
  /\ state' = [state EXCEPT ![cur[s]] = "RUNCOMPUTE"]
  /\ spc' = [spc EXCEPT ![s] = "signal"]
  /\ UNCHANGED <<alive, cur, loop, ready, sharedVars, lsched, lcomp, logs, compVars>>

(* ... and the signal: it wakes the compute pthread only if it waits now.   *)
ComputeSignal(s) ==
  /\ spc[s] = "signal"
  /\ LET c == lcomp[cur[s]]
     IN cpc' = [cpc EXCEPT ![c] = IF @ = "waiting" THEN "loop" ELSE @]
  /\ cur' = [cur EXCEPT ![s] = None]
  /\ spc' = [spc EXCEPT ![s] = loop[s]]
  /\ UNCHANGED <<alive, loop, ready, busy, sharedVars, lthreadVars, cscheds, cst, ccur, cq>>

-----------------------------------------------------------------------------
(* The compute pthread c: _lthread_compute_run().                           *)

(* Mutants: the bit is not looked at; the lthread is left in the queue. *)
CompTakePending(c) ==
  /\ cpc[c] = "loop"
  /\ cq[c] # <<>>
  /\ ccur' = [ccur EXCEPT ![c] = Head(cq[c])]
  /\ cq' = [cq EXCEPT ![c] = Tail(@)]
  /\ cpc' = [cpc EXCEPT ![c] = "picked"]
  /\ UNCHANGED <<alive, schedVars, sharedVars, lthreadVars, cscheds, cst>>

CompTakeKeep(c) ==
  /\ cpc[c] = "loop"
  /\ cq[c] # <<>>
  /\ state[Head(cq[c])] # "PENDING_RUNCOMPUTE"
  /\ ccur' = [ccur EXCEPT ![c] = Head(cq[c])]
  /\ cpc' = [cpc EXCEPT ![c] = "picked"]
  /\ UNCHANGED <<alive, schedVars, sharedVars, lthreadVars, cscheds, cst, cq>>

(* Take the first lthread off the queue.  While its scheduler has not left  *)
(* its context yet (PENDING_RUNCOMPUTE) the pthread spins: no action.       *)
CompTake(c) ==
  /\ cpc[c] = "loop"
  /\ cq[c] # <<>>
  /\ state[Head(cq[c])] # "PENDING_RUNCOMPUTE"
  /\ ccur' = [ccur EXCEPT ![c] = Head(cq[c])]
  /\ cq' = [cq EXCEPT ![c] = Tail(@)]
  /\ cpc' = [cpc EXCEPT ![c] = "picked"]
  /\ UNCHANGED <<alive, schedVars, sharedVars, lthreadVars, cscheds, cst>>

CompIdle(c) ==
  /\ cpc[c] = "loop"
  /\ cq[c] = <<>>
  /\ cpc' = [cpc EXCEPT ![c] = "wait"]
  /\ UNCHANGED <<alive, schedVars, sharedVars, lthreadVars, cscheds, cst, ccur, cq>>

CompResume(c) ==
  /\ cpc[c] = "picked"
  /\ cst' = [cst EXCEPT ![c] = "BUSY"]
  /\ cpc' = [cpc EXCEPT ![c] = "run"]
  /\ UNCHANGED <<alive, schedVars, sharedVars, lthreadVars, cscheds, ccur, cq>>

(* The lthread has written its line: lthread_compute_end(). *)
CompEnd(c) ==
  /\ cpc[c] = "run"
  /\ cst' = [cst EXCEPT ![c] = "FREE"]
  /\ cpc' = [cpc EXCEPT ![c] = "requeue"]
  /\ UNCHANGED <<alive, schedVars, sharedVars, lthreadVars, cscheds, ccur, cq>>

(* Mutant: queues current_lthread, which has just been set to NULL. *)
CompDeferNull(c) ==
  /\ cpc[c] = "requeue"
  /\ defer' = [defer EXCEPT ![lsched[ccur[c]]] = Append(@, None)]
  /\ state' = [state EXCEPT ![ccur[c]] = "idle"]
  /\ cpc' = [cpc EXCEPT ![c] = "trigger"]
  /\ UNCHANGED <<alive, schedVars, trig, lsched, lcomp, logs, cscheds, cst, ccur, cq>>

(* Give it back to its scheduler, under defer_mutex ... *)
CompDefer(c) ==
  /\ cpc[c] = "requeue"
  /\ defer' = [defer EXCEPT ![lsched[ccur[c]]] = Append(@, ccur[c])]
  /\ state' = [state EXCEPT ![ccur[c]] = "idle"]
  /\ cpc' = [cpc EXCEPT ![c] = "trigger"]
  /\ UNCHANGED <<alive, schedVars, trig, lsched, lcomp, logs, cscheds, cst, ccur, cq>>

(* Mutant: the eventfd is not written. *)
CompTriggerLost(c) ==
  /\ cpc[c] = "trigger"
  /\ ccur' = [ccur EXCEPT ![c] = None]
  /\ cpc' = [cpc EXCEPT ![c] = "loop"]
  /\ UNCHANGED <<alive, schedVars, sharedVars, lthreadVars, cscheds, cst, cq>>

(* ... and wake that scheduler, read again from lt->sched after the unlock.  *)
CompTrigger(c) ==
  /\ cpc[c] = "trigger"
  /\ trig' = [trig EXCEPT ![lsched[ccur[c]]] = TRUE]
  /\ ccur' = [ccur EXCEPT ![c] = None]
  /\ cpc' = [cpc EXCEPT ![c] = "loop"]
  /\ UNCHANGED <<alive, schedVars, defer, lthreadVars, cscheds, cst, cq>>

(* pthread_cond_timedwait() starts to wait ... *)
CompWait(c) ==
  /\ cpc[c] = "wait"
  /\ cpc' = [cpc EXCEPT ![c] = "waiting"]
  /\ UNCHANGED <<alive, schedVars, sharedVars, lthreadVars, cscheds, cst, ccur, cq>>

(* Mutant: pthread_cond_wait(), as the io workers of lthread_io.c use it. *)
CompTimeoutNever(c) == FALSE /\ c \in Comps /\ UNCHANGED vars

(* ... and times out after THREAD_TIMEOUT_BEFORE_EXIT (60 s). *)
CompTimeout(c) ==
  /\ cpc[c] = "waiting"
  /\ cpc' = [cpc EXCEPT ![c] = "timedout"]
  /\ UNCHANGED <<alive, schedVars, sharedVars, lthreadVars, cscheds, cst, ccur, cq>>

(* Mutant: leave without looking at the queue again. *)
CompExitBlind(c) ==
  /\ cpc[c] = "timedout"
  /\ cscheds' = cscheds \ {c}
  /\ cpc' = [cpc EXCEPT ![c] = "none"]
  /\ UNCHANGED <<alive, schedVars, sharedVars, lthreadVars, cst, ccur, cq>>

(* Under sched_mutex and lthreads_mutex: leave, or go on if work came in.   *)
CompExit(c) ==
  /\ cpc[c] = "timedout"
  /\ IF cq[c] = <<>>
     THEN /\ cscheds' = cscheds \ {c}
          /\ cpc' = [cpc EXCEPT ![c] = "none"]
     ELSE /\ cpc' = [cpc EXCEPT ![c] = "loop"]
          /\ UNCHANGED cscheds
  /\ UNCHANGED <<alive, schedVars, sharedVars, lthreadVars, cst, ccur, cq>>

-----------------------------------------------------------------------------
(* All a scheduler does except to return from poll with nothing to report.  *)
SchedWork(s) ==
  \/ Top(s)
  \/ ReadyResume(s) \/ ReadyEmpty(s)
  \/ DeferResume(s) \/ DeferEmpty(s)
  \/ PollEvent(s) \/ ClearTrigger(s)
  \/ \E lt \in Lthreads : Create(s, lt)
  \/ Exit(s)
  \/ BeginFree(s) \/ BeginNew(s) \/ BeginShared(s) \/ BeginFails(s)
  \/ ComputeAdd(s) \/ ComputeSignal(s)

CompStep(c) ==
  \/ CompTake(c) \/ CompIdle(c) \/ CompResume(c) \/ CompEnd(c)
  \/ CompDefer(c) \/ CompTrigger(c)
  \/ CompWait(c) \/ CompTimeout(c) \/ CompExit(c)

(* Every pthread of sync_server_start() has returned, or the process died. *)
Stopped ==
  /\ \/ ~alive
     \/ /\ \A s \in Scheds : spc[s] = "done"
        /\ \A c \in Comps : cpc[c] = "none"
  /\ UNCHANGED vars

Next ==
  \/ alive /\ \E s \in Scheds : SchedWork(s) \/ PollTimeout(s)
  \/ alive /\ \E c \in Comps : CompStep(c)
  \/ Stopped

Spec == Init /\ [][Next]_vars

(* The operating system runs every pthread, a log line is written in finite *)
(* time, and a 60 s wait ends.  Nothing is assumed of the poll timeout.     *)
Fairness ==
  /\ \A s \in Scheds : WF_vars(alive /\ SchedWork(s))
  /\ \A c \in Comps : WF_vars(alive /\ CompStep(c))

LiveSpec == Spec /\ Fairness
-----------------------------------------------------------------------------
TypeOK ==
  /\ alive \in BOOLEAN
  /\ spc \in [Scheds -> SchedPcs]
  /\ cur \in [Scheds -> Lthreads \cup {None}]
  /\ loop \in [Scheds -> {"ready", "defer"}]
  /\ ready \in [Scheds -> Seq(Lthreads)]
  /\ defer \in [Scheds -> Seq(Lthreads)]
  /\ busy \in [Scheds -> SUBSET Lthreads]
  /\ trig \in [Scheds -> BOOLEAN]
  /\ state \in [Lthreads -> States]
  /\ lsched \in [Lthreads -> Scheds \cup {None}]
  /\ lcomp \in [Lthreads -> Comps \cup {None}]
  /\ logs \in [Lthreads -> 0..MaxLogs]
  /\ cscheds \in SUBSET Comps
  /\ cst \in [Comps -> {"BUSY", "FREE"}]
  /\ cpc \in [Comps -> CompPcs]
  /\ ccur \in [Comps -> Lthreads \cup {None}]
  /\ cq \in [Comps -> Seq(Lthreads)]

Allocated(lt) == state[lt] \notin {"unborn", "freed"}

RunsOnSched(s, lt) == spc[s] = "run" /\ cur[s] = lt
HeldByComp(c, lt) == cpc[c] \in {"picked", "run", "requeue"} /\ ccur[c] = lt
At(q, lt) == {i \in 1..Len(q) : q[i] = lt}

(* The same system as a hand-off: what Handoff sees of the state bits, of    *)
(* the hands of the compute pthreads, and of where each scheduler is.       *)
Stage == [lt \in Lthreads |->
            CASE state[lt] = "unborn" -> "none"
              [] state[lt] = "idle" -> "home"
              [] state[lt] = "PENDING_RUNCOMPUTE" -> "leaving"
              [] state[lt] = "freed" -> "gone"
              [] OTHER -> IF \E c \in Comps : HeldByComp(c, lt)
                          THEN "writing" ELSE "asked"]
Running == [s \in Scheds |-> IF spc[s] = "run" THEN cur[s] ELSE None]
Ended == {s \in Scheds : spc[s] = "done"}

H == INSTANCE Handoff WITH
       stage <- Stage, home <- lsched, back <- defer, on <- Running, over <- Ended

(* lthread_log() returns to its own scheduler: each request is written by   *)
(* one pthread that has the lthread to itself, after the scheduler has left *)
(* its context; those written come back in that order; and no scheduler is  *)
(* freed while one of its lthreads is away.                                 *)
HandoffPromise == H!Spec

(* Everywhere lt is run, or is found by a pthread that will run it. *)
Places(lt) ==
  {<<"sched", s, 0>> : s \in {s \in Scheds : RunsOnSched(s, lt)}}
    \cup {<<"comp", c, 0>> : c \in {c \in Comps : HeldByComp(c, lt)}}
    \cup (UNION {{<<"ready", s, i>> : i \in At(ready[s], lt)} : s \in Scheds})
    \cup (UNION {{<<"defer", s, i>> : i \in At(defer[s], lt)} : s \in Scheds})
    \cup (UNION {{<<"compute", c, i>> : i \in At(cq[c], lt)} : c \in Comps})

(* An lthread in use is in exactly one place, and a freed one in none: two  *)
(* pthreads never run one stack, no lthread is lost between the lists, and  *)
(* none is resumed after _lthread_free(), whatever the order in which the   *)
(* schedulers and the compute pthreads take their locks.                    *)
OnePlace ==
  \A lt \in Lthreads :
    IF Allocated(lt) THEN \E p \in Places(lt) : Places(lt) = {p}
                     ELSE Places(lt) = {}

(* A compute pthread restores a context only after the scheduler has come   *)
(* back from the _switch() that saves it, which is what                     *)
(* LT_ST_PENDING_RUNCOMPUTE is for: the lthread is queued before the switch. *)
SwitchedOut ==
  \A s \in Scheds, c \in Comps :
    spc[s] = "add" => ~HeldByComp(c, cur[s])

(* An lthread handed over is in the queue or the hands of a compute pthread *)
(* that exists and is listed: the pthread that times out after 60 s checks  *)
(* its queue again under sched_mutex, so no request is stranded.            *)
RequestHeld ==
  \A lt \in Lthreads :
    state[lt] \in {"PENDING_RUNCOMPUTE", "RUNCOMPUTE"} =>
      LET c == lcomp[lt]
      IN /\ c \in cscheds
         /\ cpc[c] # "none"
         /\ HeldByComp(c, lt) \/ At(cq[c], lt) # {}

(* _lthread_sched_isdone() looks neither at defer nor at the compute        *)
(* queues, and still lthread_run() frees a scheduler only when none of its  *)
(* lthreads is left anywhere.                                               *)
DoneIsDone ==
  \A s \in Scheds : spc[s] = "done" =>
    /\ defer[s] = <<>>
    /\ \A lt \in Lthreads : lsched[lt] = s => ~Allocated(lt)

(* A scheduler that sleeps in epoll_wait() with an lthread deferred to it   *)
(* has its eventfd raised, or a compute pthread is about to raise it.       *)
NoLostTrigger ==
  \A s \in Scheds :
    spc[s] = "poll" /\ defer[s] # <<>> =>
      \/ trig[s]
      \/ \E c \in Comps : cpc[c] = "trigger" /\ lsched[ccur[c]] = s

(* lthread_compute.c:249 "signal the prev scheduler": the pthread reads the *)
(* scheduler from the lthread it has just given away, so the lthread must   *)
(* not have been freed.                                                     *)
TriggerReadsLive ==
  \A c \in Comps : cpc[c] = "trigger" => Allocated(ccur[c])

(* A log line written on a compute pthread gives the lthread back to its    *)
(* own scheduler, although the signal to a compute pthread that has seen    *)
(* its queue empty and does not wait yet is lost.                           *)
HandoffReturns ==
  \A lt \in Lthreads :
    state[lt] = "PENDING_RUNCOMPUTE" ~>
      ~alive \/ \E s \in Scheds : lsched[lt] = s /\ RunsOnSched(s, lt)

(* Every lthread created exits and is freed in the end, even if epoll_wait() *)
(* never times out; only the return of lthread_run() itself, which polls    *)
(* once more after the last exit, is left to default_timeout.               *)
AllExit == <>(~alive \/ \A lt \in Lthreads : ~Allocated(lt))
=============================================================================
