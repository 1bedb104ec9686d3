----------------------------- MODULE SyncServer -----------------------------
(***************************************************************************)
(* The server of sync_agent: src/src/agent/sync_server.c on the lthread    *)
(* schedulers it starts (lthread_run() in lthread_sched.c, lthread_accept, *)
(* lthread_recv, lthread_send and lthread_close in lthread_socket.c, the   *)
(* one-shot epoll registrations of lthread_epoll.c).  Every scheduler is a *)
(* pthread with its own epoll instance and its own listener lthread; all   *)
(* listeners accept from one non-blocking listening socket.                *)
(*                                                                         *)
(* The listener of scheduler s is named s, the handler of connection k is  *)
(* named k.  A scheduler's own lists are touched by its pthread only, so an *)
(* action is the code between two system calls or two yields.  A log line  *)
(* written by lthread_log() is the two ends of the hand-off: the lthread   *)
(* leaves to the busy list and comes back on sched->defer; the module      *)
(* LthreadCompute has what happens in between.                             *)
(***************************************************************************)
EXTENDS Naturals, Sequences, FiniteSets, SequencesExt

CONSTANTS
  Scheds,     \* one scheduler per configured CPU
  Conns,      \* bound: the connections clients ever open
  Fds,        \* bound: descriptors left for accepted connections
  Listen,     \* the listening descriptor
  None,       \* a NULL pointer
  NiceOps,    \* _lthread_renice() yields at this many operations (5)
  Slow,       \* bound: connections whose send buffer may be full at first
  Moves,      \* bound: what happens, of "data", "eof", "reset", "signal"
  MaxFaults   \* bound: failing allocations and calls of accept(), fcntl()

ASSUME NiceOpsAssumption == NiceOps \in Nat \ {0}
ASSUME SlowAssumption == Slow \subseteq Conns
ASSUME MaxFaultsAssumption == MaxFaults \in Nat
ASSUME ListenAssumption == Listen \notin Fds
ASSUME ThreadsAssumption == Scheds \cap Conns = {}
ASSUME NoneAssumption ==
  /\ None \notin Scheds \cup Conns \cup Fds \cup {Listen}
  /\ None \notin [fd : Fds \cup {Listen}, eof : BOOLEAN]

VARIABLES
  cont,     \* _main_continue
  backlog,  \* connections the kernel has queued on the listening socket
  conn,     \* how far each connection has come
  peer,     \* what its client has done with it ("quiet" again once closed)
  full,     \* connections whose send buffer is full for now
  fdtab,    \* the connection behind each descriptor
  spc, cur, loop,                 \* the pthread of each scheduler
  ready, defer, busy,             \* its lists ...
  waiting, sleeping,              \* ... and its trees
  armed, events, evfd,            \* its epoll instance and event batch
  lpc, ops,                       \* the listeners
  hpc, hsched, hfd,               \* the handlers
  faults

kernelVars == <<backlog, conn, fdtab>>
clientVars == <<peer, full>>
pthreadVars == <<spc, cur, loop>>
listVars == <<ready, defer, busy>>
waitVars == <<waiting, sleeping, armed>>
eventVars == <<events, evfd>>
listenerVars == <<lpc, ops>>
handlerVars == <<hpc, hsched, hfd>>
vars == <<cont, kernelVars, clientVars, pthreadVars, listVars, waitVars,
          eventVars, listenerVars, handlerVars, faults>>

Threads == Scheds \cup Conns

Init ==
  /\ cont = TRUE
  /\ backlog = <<>>
  /\ conn = [k \in Conns |-> "idle"]
  /\ peer = [k \in Conns |-> "quiet"]
  /\ full \in SUBSET Slow
  /\ fdtab = [f \in Fds |-> None]
  /\ spc = [s \in Scheds |-> "expire"]
  /\ cur = [s \in Scheds |-> None]
  /\ loop = [s \in Scheds |-> "ready"]
  /\ ready = [s \in Scheds |-> <<s>>]
  /\ defer = [s \in Scheds |-> <<>>]
  /\ busy = [s \in Scheds |-> {}]
  /\ waiting = [s \in Scheds |-> {}]
  /\ sleeping = [s \in Scheds |-> {}]
  /\ armed = [s \in Scheds |-> {}]
  /\ events = [s \in Scheds |-> {}]
  /\ evfd = [s \in Scheds |-> None]
  /\ lpc = [s \in Scheds |-> "check"]
  /\ ops = [s \in Scheds |-> 0]
  /\ hpc = [k \in Conns |-> "none"]
  /\ hsched = [k \in Conns |-> None]
  /\ hfd = [k \in Conns |-> None]
  /\ faults = 0

-----------------------------------------------------------------------------
(* lthread_run() on scheduler s, with _lthread_resume() and the switch.     *)

Goto(s, pc) ==
  /\ spc' = [spc EXCEPT ![s] = pc]
  /\ UNCHANGED <<cur, loop>>

Run(s, x, from) ==
  /\ spc' = [spc EXCEPT ![s] = "run"]
  /\ cur' = [cur EXCEPT ![s] = x]
  /\ loop' = [loop EXCEPT ![s] = from]

Running(s, x) == spc[s] = "run" /\ cur[s] = x

(* The running lthread yields or exits: on with the loop that resumed it. *)
Yield(s) ==
  /\ spc' = [spc EXCEPT ![s] = loop[s]]
  /\ cur' = [cur EXCEPT ![s] = None]
  /\ UNCHANGED loop

(* Mutant: the busy list is not asked. *)
IsDoneNotBusy(s) == waiting[s] = {} /\ sleeping[s] = {} /\ ready[s] = <<>>

(* _lthread_sched_isdone(), and the while loop that asks it: lthread_run()   *)
(* frees the scheduler or starts its next iteration.                        *)
IsDone(s) ==
  waiting[s] = {} /\ busy[s] = {} /\ sleeping[s] = {} /\ ready[s] = <<>>

WaitsOf(s, x) == {w \in waiting[s] : w.lt = x}
ArmedOn(s, fd) == {a \in armed[s] : a.fd = fd}

(* Mutants: _lthread_cancel_event() is forgotten; lthread_recv() returns 0. *)
ExpireKeepsWait(s, k) ==
  /\ spc[s] = "expire"
  /\ k \in sleeping[s]
  /\ sleeping' = [sleeping EXCEPT ![s] = @ \ {k}]
  /\ hpc' = [hpc EXCEPT ![k] = "close"]
  /\ Run(s, k, "expire")
  /\ UNCHANGED <<cont, kernelVars, clientVars, listVars, waiting, armed, eventVars,
                 listenerVars, hsched, hfd, faults>>

ExpireAsData(s, k) ==
  /\ spc[s] = "expire"
  /\ k \in sleeping[s]
  /\ armed' = [armed EXCEPT ![s] = @ \ ArmedOn(s, hfd[k])]
  /\ waiting' = [waiting EXCEPT ![s] = @ \ WaitsOf(s, k)]
  /\ sleeping' = [sleeping EXCEPT ![s] = @ \ {k}]
  /\ hpc' = [hpc EXCEPT ![k] = "send"]
  /\ Run(s, k, "expire")
  /\ UNCHANGED <<cont, kernelVars, clientVars, listVars, eventVars,
                 listenerVars, hsched, hfd, faults>>

(* Step 1, _lthread_resume_expired(): any lthread in the sleeping tree may  *)
(* be late by now.  It leaves both trees and epoll; lthread_recv() returns  *)
(* -1 with ETIMEDOUT and the handler goes to close.                         *)
Expire(s, k) ==
  /\ spc[s] = "expire"
  /\ k \in sleeping[s]
  /\ armed' = [armed EXCEPT ![s] = @ \ ArmedOn(s, hfd[k])]
  /\ waiting' = [waiting EXCEPT ![s] = @ \ WaitsOf(s, k)]
  /\ sleeping' = [sleeping EXCEPT ![s] = @ \ {k}]
  /\ hpc' = [hpc EXCEPT ![k] = "close"]
  /\ Run(s, k, "expire")
  /\ UNCHANGED <<cont, kernelVars, clientVars, listVars, eventVars,
                 listenerVars, hsched, hfd, faults>>

ExpireDone(s) ==
  /\ spc[s] = "expire"
  /\ Goto(s, "ready")
  /\ UNCHANGED <<cont, kernelVars, clientVars, listVars, waitVars, eventVars,
                 listenerVars, handlerVars, faults>>

(* Step 2. *)
ReadyResume(s) ==
  /\ spc[s] = "ready"
  /\ ready[s] # <<>>
  /\ ready' = [ready EXCEPT ![s] = Tail(@)]
  /\ Run(s, Head(ready[s]), "ready")
  /\ UNCHANGED <<cont, kernelVars, clientVars, defer, busy, waitVars, eventVars,
                 listenerVars, handlerVars, faults>>

ReadyEmpty(s) ==
  /\ spc[s] = "ready"
  /\ ready[s] = <<>>
  /\ Goto(s, "defer")
  /\ UNCHANGED <<cont, kernelVars, clientVars, listVars, waitVars, eventVars,
                 listenerVars, handlerVars, faults>>

(* Step 3. *)
DeferResume(s) ==
  /\ spc[s] = "defer"
  /\ defer[s] # <<>>
  /\ defer' = [defer EXCEPT ![s] = Tail(@)]
  /\ busy' = [busy EXCEPT ![s] = @ \ {Head(defer[s])}]
  /\ Run(s, Head(defer[s]), "defer")
  /\ UNCHANGED <<cont, kernelVars, clientVars, ready, waitVars, eventVars,
                 listenerVars, handlerVars, faults>>

DeferEmpty(s) ==
  /\ spc[s] = "defer"
  /\ defer[s] = <<>>
  /\ Goto(s, "poll")
  /\ UNCHANGED <<cont, kernelVars, clientVars, listVars, waitVars, eventVars,
                 listenerVars, handlerVars, faults>>

(* What epoll reports: every registration asks for EPOLLRDHUP, the end of   *)
(* the client's stream, and a reset also raises EPOLLHUP.                   *)
Fires(a) ==
  IF a.fd = Listen THEN backlog # <<>>
  ELSE LET k == fdtab[a.fd]
       IN IF a.ev = "read" THEN peer[k] # "quiet"
                           ELSE k \notin full \/ peer[k] \in {"eof", "reset"}

IsEof(fd) == fd # Listen /\ peer[fdtab[fd]] = "reset"

(* Step 4, _lthread_poll(): the ready registrations, which are one-shot; an *)
(* empty batch when the timeout of at most 3 s ends.                        *)
Poll(s) ==
  /\ spc[s] = "poll"
  /\ LET F == {a \in armed[s] : Fires(a)}
     IN /\ armed' = [armed EXCEPT ![s] = @ \ F]
        /\ events' = [events EXCEPT ![s] = {[fd |-> a.fd, eof |-> IsEof(a.fd)] : a \in F}]
  /\ Goto(s, "events")
  /\ UNCHANGED <<cont, kernelVars, clientVars, listVars, waiting, sleeping, evfd,
                 listenerVars, handlerVars, faults>>

(* _lthread_desched_event(fd, ev) and the switch to the lthread found.  With *)
(* FDEOF set lthread_recv() and lthread_send() return at once: close.       *)
Wake(s, e, ev, next) ==
  LET W == {w \in waiting[s] : w.fd = e.fd /\ w.ev = ev}
  IN IF W = {}
     THEN Goto(s, next) /\ UNCHANGED <<waiting, sleeping, hpc>>
     ELSE \E w \in W :
            /\ waiting' = [waiting EXCEPT ![s] = @ \ {w}]
            /\ sleeping' = [sleeping EXCEPT ![s] = @ \ {w.lt}]
            /\ hpc' = IF e.eof /\ w.lt \in Conns
                      THEN [hpc EXCEPT ![w.lt] = "close"] ELSE hpc
            /\ Run(s, w.lt, next)

(* Step 5: for every event first its reader, then its writer. *)
ReadEvent(s) ==
  /\ spc[s] = "events"
  /\ \E e \in events[s] :
       /\ events' = [events EXCEPT ![s] = @ \ {e}]
       /\ evfd' = [evfd EXCEPT ![s] = e]
       /\ Wake(s, e, "read", "write")
  /\ UNCHANGED <<cont, kernelVars, clientVars, listVars, armed,
                 listenerVars, hsched, hfd, faults>>

WriteEvent(s) ==
  /\ spc[s] = "write"
  /\ evfd' = [evfd EXCEPT ![s] = None]
  /\ Wake(s, evfd[s], "write", "events")
  /\ UNCHANGED <<cont, kernelVars, clientVars, listVars, armed, events,
                 listenerVars, hsched, hfd, faults>>

EventsDone(s) ==
  /\ spc[s] = "events"
  /\ events[s] = {}
  /\ Goto(s, IF IsDone(s) THEN "done" ELSE "expire")
  /\ UNCHANGED <<cont, kernelVars, clientVars, listVars, waitVars, eventVars,
                 listenerVars, handlerVars, faults>>

-----------------------------------------------------------------------------
(* What a running lthread x of scheduler s does to its scheduler.           *)

(* Mutant: a descriptor that was registered once is not armed again. *)
WaitForOnce(s, x, f, ev, timed) ==
  /\ armed' = [armed EXCEPT ![s] = IF ev = "write" THEN @ ELSE @ \cup {[fd |-> f, ev |-> ev]}]
  /\ waiting' = [waiting EXCEPT ![s] = @ \cup {[fd |-> f, ev |-> ev, lt |-> x]}]
  /\ sleeping' = [sleeping EXCEPT ![s] = IF timed THEN @ \cup {x} ELSE @]
  /\ Yield(s)

(* _lthread_sched_event(): the registration (EPOLL_CTL_MOD) replaces an     *)
(* older one; with a timeout of 0 the lthread is not put to sleep.          *)
WaitFor(s, x, f, ev, timed) ==
  /\ armed' = [armed EXCEPT ![s] = (@ \ ArmedOn(s, f)) \cup {[fd |-> f, ev |-> ev]}]
  /\ waiting' = [waiting EXCEPT ![s] = @ \cup {[fd |-> f, ev |-> ev, lt |-> x]}]
  /\ sleeping' = [sleeping EXCEPT ![s] = IF timed THEN @ \cup {x} ELSE @]
  /\ Yield(s)

(* lthread_log(): away to a compute pthread; LogDone brings it back. *)
Away(s, x) ==
  /\ busy' = [busy EXCEPT ![s] = @ \cup {x}]
  /\ UNCHANGED <<ready, defer>>
  /\ Yield(s)

LogDone(s, x) ==
  /\ x \in busy[s] \ ToSet(defer[s])
  /\ defer' = [defer EXCEPT ![s] = Append(@, x)]
  /\ UNCHANGED <<cont, kernelVars, clientVars, pthreadVars, ready, busy, waitVars,
                 eventVars, listenerVars, handlerVars, faults>>

MayFail == faults < MaxFaults /\ faults' = faults + 1

-----------------------------------------------------------------------------
(* The listener lthread of s: sync_server_listen() and lthread_accept().    *)

At(s, pc) == Running(s, s) /\ lpc[s] = pc
LGoto(s, pc) == lpc' = [lpc EXCEPT ![s] = pc]

(* while (_main_continue): a listener that is told to stop returns. *)
Stop(s) ==
  /\ At(s, "check")
  /\ ~cont
  /\ LGoto(s, "gone")
  /\ Yield(s)
  /\ UNCHANGED <<cont, kernelVars, clientVars, listVars, waitVars, eventVars,
                 ops, handlerVars, faults>>

(* Mutant: one operation too many. *)
ReniceLate(s) ==
  /\ (At(s, "check") /\ cont) \/ At(s, "renice")
  /\ LGoto(s, "accept")
  /\ IF ops[s] < NiceOps
     THEN ops' = [ops EXCEPT ![s] = @ + 1] /\ UNCHANGED <<pthreadVars, ready>>
     ELSE /\ ops' = [ops EXCEPT ![s] = 0]
          /\ ready' = [ready EXCEPT ![s] = Append(@, s)]
          /\ Yield(s)
  /\ UNCHANGED <<cont, kernelVars, clientVars, defer, busy, waitVars, eventVars,
                 handlerVars, faults>>

(* _lthread_renice(), first in the loop of lthread_accept(): back to the    *)
(* ready list every NiceOps operations.                                     *)
Renice(s) ==
  /\ (At(s, "check") /\ cont) \/ At(s, "renice")
  /\ LGoto(s, "accept")
  /\ IF ops[s] + 1 < NiceOps
     THEN ops' = [ops EXCEPT ![s] = @ + 1] /\ UNCHANGED <<pthreadVars, ready>>
     ELSE /\ ops' = [ops EXCEPT ![s] = 0]
          /\ ready' = [ready EXCEPT ![s] = Append(@, s)]
          /\ Yield(s)
  /\ UNCHANGED <<cont, kernelVars, clientVars, defer, busy, waitVars, eventVars,
                 handlerVars, faults>>

FreeFds == {f \in Fds : fdtab[f] = None}

(* accept() takes the first connection; its descriptor is f. *)
TakeFirst(f) ==
  /\ backlog # <<>>
  /\ fdtab[f] = None
  /\ backlog' = Tail(backlog)
  /\ fdtab' = [fdtab EXCEPT ![f] = Head(backlog)]

(* A connection is closed: what was in its buffers is gone with it. *)
Forget(k) ==
  /\ peer' = [peer EXCEPT ![k] = "quiet"]
  /\ full' = full \ {k}

(* Mutant: the handlers share one _connection_t. *)
AcceptShared(s) ==
  /\ At(s, "accept")
  /\ \E f \in Fds :
       /\ TakeFirst(f)
       /\ LET k == Head(backlog)
          IN /\ conn' = [conn EXCEPT ![k] = "accepted"]
             /\ hpc' = [hpc EXCEPT ![k] = "start"]
             /\ hsched' = [hsched EXCEPT ![k] = s]
             /\ hfd' = [h \in Conns |-> f]
             /\ ready' = [ready EXCEPT ![s] = Append(@, k)]
  /\ LGoto(s, "check")
  /\ UNCHANGED <<cont, clientVars, pthreadVars, defer, busy, waitVars, eventVars,
                 ops, faults>>

(* The connection is given to a handler lthread of its own. *)
Accept(s) ==
  /\ At(s, "accept")
  /\ \E f \in Fds :
       /\ TakeFirst(f)
       /\ LET k == Head(backlog)
          IN /\ conn' = [conn EXCEPT ![k] = "accepted"]
             /\ hpc' = [hpc EXCEPT ![k] = "start"]
             /\ hsched' = [hsched EXCEPT ![k] = s]
             /\ hfd' = [hfd EXCEPT ![k] = f]
             /\ ready' = [ready EXCEPT ![s] = Append(@, k)]
  /\ LGoto(s, "check")
  /\ UNCHANGED <<cont, clientVars, pthreadVars, defer, busy, waitVars, eventVars,
                 ops, faults>>

(* lthread_create() fails and nobody looks: the descriptor is leaked. *)
AcceptLeak(s) ==
  /\ At(s, "accept")
  /\ MayFail
  /\ \E f \in Fds : TakeFirst(f)
  /\ conn' = [conn EXCEPT ![Head(backlog)] = "leaked"]
  /\ LGoto(s, "check")
  /\ UNCHANGED <<cont, clientVars, pthreadVars, listVars, waitVars, eventVars,
                 ops, handlerVars>>

(* ECONNABORTED: a client that is gone already; try again. *)
AcceptAborted(s) ==
  /\ At(s, "accept")
  /\ backlog # <<>>
  /\ peer[Head(backlog)] = "reset"
  /\ backlog' = Tail(backlog)
  /\ conn' = [conn EXCEPT ![Head(backlog)] = "closed"]
  /\ Forget(Head(backlog))
  /\ LGoto(s, "renice")
  /\ UNCHANGED <<cont, fdtab, pthreadVars, listVars, waitVars, eventVars,
                 ops, handlerVars, faults>>

(* Mutant: the wait is not registered with epoll. *)
AcceptWaitUnarmed(s) ==
  /\ At(s, "accept")
  /\ backlog = <<>> \/ FreeFds = {}
  /\ waiting' = [waiting EXCEPT ![s] = @ \cup {[fd |-> Listen, ev |-> "read", lt |-> s]}]
  /\ Yield(s)
  /\ ops' = [ops EXCEPT ![s] = 0]
  /\ LGoto(s, "renice")
  /\ UNCHANGED <<cont, kernelVars, clientVars, listVars, sleeping, armed, eventVars,
                 handlerVars, faults>>

(* EWOULDBLOCK (another listener was first) or EMFILE: wait, no timeout. *)
AcceptWait(s) ==
  /\ At(s, "accept")
  /\ backlog = <<>> \/ FreeFds = {}
  /\ WaitFor(s, s, Listen, "read", FALSE)
  /\ ops' = [ops EXCEPT ![s] = 0]
  /\ LGoto(s, "renice")
  /\ UNCHANGED <<cont, kernelVars, clientVars, listVars, eventVars,
                 handlerVars, faults>>

(* Any other error: the listener logs it and returns for good. *)
AcceptError(s) ==
  /\ At(s, "accept")
  /\ MayFail
  /\ Away(s, s)
  /\ LGoto(s, "return")
  /\ UNCHANGED <<cont, kernelVars, clientVars, waitVars, eventVars, ops, handlerVars>>

(* fcntl() fails on the accepted descriptor: it is closed, and the listener *)
(* takes the -1 for an error of accept().                                   *)
AcceptUnset(s) ==
  /\ At(s, "accept")
  /\ MayFail
  /\ backlog # <<>> /\ FreeFds # {}
  /\ backlog' = Tail(backlog)
  /\ conn' = [conn EXCEPT ![Head(backlog)] = "closed"]
  /\ Forget(Head(backlog))
  /\ Away(s, s)
  /\ LGoto(s, "return")
  /\ UNCHANGED <<cont, fdtab, waitVars, eventVars, ops, handlerVars>>

Return(s) ==
  /\ At(s, "return")
  /\ LGoto(s, "gone")
  /\ Yield(s)
  /\ UNCHANGED <<cont, kernelVars, clientVars, listVars, waitVars, eventVars,
                 ops, handlerVars, faults>>

-----------------------------------------------------------------------------
(* The handler lthread of connection k: client_connection_handler().        *)

In(s, k, pc) == k \in Conns /\ Running(s, k) /\ hpc[k] = pc
HGoto(k, pc) ==
  /\ hpc' = [hpc EXCEPT ![k] = pc]
  /\ UNCHANGED <<hsched, hfd>>

(* malloc() of the buffer fails: log, return; fd and conn stay behind. *)
StartFails(s, k) ==
  /\ In(s, k, "start")
  /\ MayFail
  /\ HGoto(k, "return")
  /\ Away(s, k)
  /\ UNCHANGED <<cont, kernelVars, clientVars, waitVars, eventVars, listenerVars>>

ReturnOpen(s, k) ==
  /\ In(s, k, "return")
  /\ HGoto(k, "gone")
  /\ conn' = [conn EXCEPT ![k] = "leaked"]
  /\ Yield(s)
  /\ UNCHANGED <<cont, backlog, fdtab, clientVars, listVars, waitVars, eventVars,
                 listenerVars, faults>>

(* lthread_recv() with a timeout of 2000 ms: a request, or 0 at the end of  *)
(* the stream, which is answered as well; an error; or EAGAIN and a timed   *)
(* wait.                                                                    *)
Recv(s, k) ==
  /\ In(s, k, "start") \/ In(s, k, "recv")
  /\ peer[k] # "quiet"
  /\ HGoto(k, IF peer[k] = "reset" THEN "close" ELSE "send")
  /\ UNCHANGED <<cont, kernelVars, clientVars, pthreadVars, listVars, waitVars,
                 eventVars, listenerVars, faults>>

(* Mutant: without the timeout. *)
RecvWaitForever(s, k) ==
  /\ In(s, k, "start") \/ In(s, k, "recv")
  /\ peer[k] = "quiet"
  /\ WaitFor(s, k, hfd[k], "read", FALSE)
  /\ HGoto(k, "recv")
  /\ UNCHANGED <<cont, kernelVars, clientVars, listVars, eventVars,
                 listenerVars, faults>>

RecvWait(s, k) ==
  /\ In(s, k, "start") \/ In(s, k, "recv")
  /\ peer[k] = "quiet"
  /\ WaitFor(s, k, hfd[k], "read", TRUE)
  /\ HGoto(k, "recv")
  /\ UNCHANGED <<cont, kernelVars, clientVars, listVars, eventVars,
                 listenerVars, faults>>

(* lthread_send() of the 51-byte answer, no timeout.  The send buffer of a  *)
(* new socket is full only when the kernel is short of memory.              *)
Send(s, k) ==
  /\ In(s, k, "send")
  /\ k \notin full \/ peer[k] = "reset"
  /\ HGoto(k, "close")
  /\ conn' = [conn EXCEPT ![k] = IF peer[k] = "reset" THEN @ ELSE "answered"]
  /\ UNCHANGED <<cont, backlog, fdtab, clientVars, pthreadVars, listVars, waitVars,
                 eventVars, listenerVars, faults>>

SendWait(s, k) ==
  /\ In(s, k, "send")
  /\ k \in full /\ peer[k] # "reset"
  /\ WaitFor(s, k, hfd[k], "write", FALSE)
  /\ UNCHANGED <<cont, kernelVars, clientVars, listVars, eventVars,
                 listenerVars, handlerVars, faults>>

(* Mutant: the descriptor is not closed. *)
CloseLeaks(s, k) ==
  /\ In(s, k, "close")
  /\ HGoto(k, "gone")
  /\ armed' = [armed EXCEPT ![s] = @ \ ArmedOn(s, hfd[k])]
  /\ conn' = [conn EXCEPT ![k] = "closed"]
  /\ Yield(s)
  /\ UNCHANGED <<cont, backlog, fdtab, clientVars, listVars, waiting, sleeping,
                 eventVars, listenerVars, faults>>

(* lthread_close(): wake whoever waits on the descriptor, with FDEOF, close *)
(* it, which takes it out of epoll; then the handler exits and is freed.    *)
Close(s, k) ==
  /\ In(s, k, "close")
  /\ LET W == {w \in waiting[s] : w.fd = hfd[k]}
         woken == {w.lt : w \in W}
     IN /\ waiting' = [waiting EXCEPT ![s] = @ \ W]
        /\ sleeping' = [sleeping EXCEPT ![s] = @ \ woken]
        /\ ready' = [ready EXCEPT ![s] = @ \o SetToSeq(woken)]
        /\ hpc' = [h \in Conns |-> IF h = k THEN "gone"
                                   ELSE IF h \in woken THEN "close" ELSE hpc[h]]
  /\ armed' = [armed EXCEPT ![s] = @ \ ArmedOn(s, hfd[k])]
  /\ fdtab' = [fdtab EXCEPT ![hfd[k]] = None]
  /\ conn' = [conn EXCEPT ![k] = "closed"]
  /\ Forget(k)
  /\ Yield(s)
  /\ UNCHANGED <<cont, backlog, defer, busy, eventVars, listenerVars,
                 hsched, hfd, faults>>

-----------------------------------------------------------------------------
(* Clients, the kernel, and signals.                                        *)

Connect(k) ==
  /\ conn[k] = "idle"
  /\ conn' = [conn EXCEPT ![k] = "backlog"]
  /\ backlog' = Append(backlog, k)
  /\ UNCHANGED <<cont, fdtab, clientVars, pthreadVars, listVars, waitVars, eventVars,
                 listenerVars, handlerVars, faults>>

(* A client does p with its connection, in one of the states from: it sends *)
(* a request, ends its stream, or resets the connection.                    *)
Peer(k, p, from) ==
  /\ p \in Moves
  /\ conn[k] \in {"backlog", "accepted", "answered"}
  /\ peer[k] \in from
  /\ peer' = [peer EXCEPT ![k] = p]
  /\ UNCHANGED <<cont, kernelVars, full, pthreadVars, listVars, waitVars, eventVars,
                 listenerVars, handlerVars, faults>>

PeerSends(k) == Peer(k, "data", {"quiet"})
PeerShuts(k) == Peer(k, "eof", {"quiet", "data"})
PeerResets(k) == Peer(k, "reset", {"quiet", "data", "eof"})

(* What a send buffer does matters only while its connection is accepted. *)
Drain(k) ==
  /\ k \in full
  /\ conn[k] = "accepted"
  /\ full' = full \ {k}
  /\ UNCHANGED <<cont, kernelVars, peer, pthreadVars, listVars, waitVars, eventVars,
                 listenerVars, handlerVars, faults>>

(* signal_handle() for SIGTERM, SIGUSR1 or SIGINT. *)
Signal ==
  /\ "signal" \in Moves
  /\ cont
  /\ cont' = FALSE
  /\ UNCHANGED <<kernelVars, clientVars, pthreadVars, listVars, waitVars, eventVars,
                 listenerVars, handlerVars, faults>>

Listener(s) ==
  \/ Stop(s) \/ Renice(s)
  \/ Accept(s) \/ AcceptLeak(s) \/ AcceptAborted(s) \/ AcceptWait(s) \/ AcceptError(s)
  \/ AcceptUnset(s) \/ Return(s)

Handler(s, k) ==
  \/ StartFails(s, k) \/ ReturnOpen(s, k)
  \/ Recv(s, k) \/ RecvWait(s, k) \/ Send(s, k) \/ SendWait(s, k)
  \/ Close(s, k)

Scheduler(s) ==
  \/ ExpireDone(s) \/ ReadyResume(s) \/ ReadyEmpty(s)
  \/ DeferResume(s) \/ DeferEmpty(s)
  \/ Poll(s) \/ ReadEvent(s) \/ WriteEvent(s) \/ EventsDone(s)

SchedStep(s) ==
  \/ Scheduler(s)
  \/ \E k \in Conns : Expire(s, k)
  \/ Listener(s)
  \/ \E k \in Conns : Handler(s, k)

Environment ==
  \/ \E k \in Conns :
       Connect(k) \/ PeerSends(k) \/ PeerShuts(k) \/ PeerResets(k) \/ Drain(k)
  \/ \E s \in Scheds, x \in Threads : LogDone(s, x)
  \/ Signal

(* Every thread of sync_server_start() has been joined. *)
Stopped == (\A s \in Scheds : spc[s] = "done") /\ UNCHANGED vars

Next ==
  \/ \E s \in Scheds : SchedStep(s)
  \/ Environment
  \/ Stopped

Spec == Init /\ [][Next]_vars

(* Every pthread is run; a 2000 ms timeout that stays in the sleeping tree  *)
(* is late at some later iteration (strong, as step 1 comes and goes); log  *)
(* lines get written (LthreadCompute, HandoffReturns); buffers drain.       *)
Fairness ==
  /\ \A s \in Scheds : WF_vars(SchedStep(s))
  /\ \A s \in Scheds, k \in Conns : SF_vars(Expire(s, k))
  /\ \A s \in Scheds, x \in Threads : WF_vars(LogDone(s, x))
  /\ \A k \in Conns : WF_vars(Drain(k))

LiveSpec == Spec /\ Fairness

-----------------------------------------------------------------------------
TypeOK ==
  /\ cont \in BOOLEAN
  /\ backlog \in Seq(Conns)
  /\ conn \in [Conns -> {"idle", "backlog", "accepted", "answered", "closed", "leaked"}]
  /\ peer \in [Conns -> {"quiet", "data", "eof", "reset"}]
  /\ full \in SUBSET Conns
  /\ fdtab \in [Fds -> Conns \cup {None}]
  /\ spc \in [Scheds -> {"expire", "ready", "run", "defer", "poll",
                         "events", "write", "done"}]
  /\ cur \in [Scheds -> Threads \cup {None}]
  /\ loop \in [Scheds -> {"expire", "ready", "defer", "write", "events"}]
  /\ ready \in [Scheds -> Seq(Threads)]
  /\ defer \in [Scheds -> Seq(Threads)]
  /\ busy \in [Scheds -> SUBSET Threads]
  /\ waiting \in [Scheds -> SUBSET [fd : Fds \cup {Listen}, ev : {"read", "write"}, lt : Threads]]
  /\ sleeping \in [Scheds -> SUBSET Conns]
  /\ armed \in [Scheds -> SUBSET [fd : Fds \cup {Listen}, ev : {"read", "write"}]]
  /\ events \in [Scheds -> SUBSET [fd : Fds \cup {Listen}, eof : BOOLEAN]]
  /\ evfd \in [Scheds -> [fd : Fds \cup {Listen}, eof : BOOLEAN] \cup {None}]
  /\ lpc \in [Scheds -> {"check", "renice", "accept", "return", "gone"}]
  /\ ops \in [Scheds -> 0..NiceOps-1]
  /\ hpc \in [Conns -> {"none", "start", "recv", "send", "close", "return", "gone"}]
  /\ hsched \in [Conns -> Scheds \cup {None}]
  /\ hfd \in [Conns -> Fds \cup {None}]
  /\ faults \in 0..MaxFaults

(* The lthreads of scheduler s that have not been freed. *)
LiveOf(s) ==
  (IF lpc[s] = "gone" THEN {} ELSE {s})
    \cup {k \in Conns : hsched[k] = s /\ hpc[k] \notin {"none", "gone"}}

(* Every way in which scheduler s can come to resume x, or runs it now. *)
Places(s, x) ==
  {<<"ready", i>> : i \in {i \in 1..Len(ready[s]) : ready[s][i] = x}}
    \cup {<<"waiting", w.fd, w.ev>> : w \in WaitsOf(s, x)}
    \cup {p \in {<<"busy", 0>>} : x \in busy[s]}
    \cup {p \in {<<"run", 0>>} : Running(s, x)}

(* Each lthread waits for exactly one resumption, on its own scheduler: a   *)
(* timeout and an event on the same descriptor, a close, and the trees and  *)
(* lists they go through, resume it once, and none is forgotten or resumed  *)
(* after it was freed.                                                      *)
ResumedOnce ==
  \A s \in Scheds, x \in Threads :
    IF x \in LiveOf(s) THEN \E p \in Places(s, x) : Places(s, x) = {p}
                       ELSE Places(s, x) = {}

(* lthread_sched.c:359 asserts one waiter for a descriptor and an event;    *)
(* and a waiter's descriptor is still the one of its own connection, though *)
(* descriptors are reused while a batch of events is worked off.            *)
WaitersMatch ==
  \A s \in Scheds : \A v, w \in waiting[s] :
    /\ v.fd = w.fd /\ v.ev = w.ev => v = w
    /\ w.fd # Listen => fdtab[w.fd] = w.lt

(* A waiting lthread can be woken: its registration is armed, or its event  *)
(* is in the batch that step 5 has yet to work off; one that sleeps waits.  *)
WaitersArmed ==
  \A s \in Scheds :
    /\ \A w \in waiting[s] :
         \/ [fd |-> w.fd, ev |-> w.ev] \in armed[s]
         \/ \E e \in events[s] : e.fd = w.fd
         \/ spc[s] \in {"run", "write"} /\ evfd[s] # None /\ evfd[s].fd = w.fd
    /\ \A k \in sleeping[s] : WaitsOf(s, k) # {}

(* A handler's descriptor is open and is its connection's until it closes   *)
(* it; an open descriptor without a handler is one the failure of an        *)
(* allocation has leaked.                                                   *)
DescriptorsOwned ==
  /\ \A k \in Conns :
       hpc[k] \in {"start", "recv", "send", "close"} => fdtab[hfd[k]] = k
  /\ \A f \in Fds : fdtab[f] # None =>
       \/ hpc[fdtab[f]] \notin {"none", "gone"} /\ hfd[fdtab[f]] = f
       \/ conn[fdtab[f]] = "leaked"

(* lthread_run() frees a scheduler that no lthread needs any more. *)
DoneIsDone ==
  \A s \in Scheds : spc[s] = "done" => LiveOf(s) = {} /\ defer[s] = <<>>

(* The answer goes to a client that has sent a request or ended its stream: *)
(* recv() returned for this very connection, with a number or with 0 (the   *)
(* handler does not tell them apart).  A client that does neither gets none, *)
(* be it after its 2000 ms or because an event of another connection, a     *)
(* reused descriptor or a close has woken its handler; and none goes to a   *)
(* connection that was reset.                                               *)
AnswersRequest ==
  [][\A k \in Conns :
       conn'[k] = "answered" /\ conn[k] # "answered" => peer[k] \in {"data", "eof"}]_vars

(* A connection accepted is closed or leaked in the end, on every path of   *)
(* client_connection_handler(), whatever the client does.                   *)
Served ==
  \A k \in Conns : conn[k] = "accepted" ~> conn[k] \in {"closed", "leaked"}

(* A queued connection is accepted by some listener, also after another     *)
(* listener has ended with the connection it was woken for, or a descriptor *)
(* is leaked: no wake-up is lost when several listeners are woken for one   *)
(* connection, or when descriptors run out and come back.  Only when no     *)
(* listener or no descriptor is left does it wait for ever.                 *)
Accepted ==
  \A k \in Conns :
    conn[k] = "backlog" ~>
      \/ conn[k] # "backlog"
      \/ \A s \in Scheds : lpc[s] \in {"return", "gone"}
      \/ \A f \in Fds : fdtab[f] # None /\ conn[fdtab[f]] = "leaked"

(* sync_agent.c:267 on SIGTERM: "sync_agent will exit normally". *)
StopsOnSignal == ~cont ~> \A s \in Scheds : spc[s] = "done"
=============================================================================
