----------------------------- MODULE LthreadApi -----------------------------
(***************************************************************************)
(* The calls of an lthread on its own scheduler: sleep, wakeup, condition  *)
(* variables, join, detach, cancel and exit (lthread.c), and the scheduler *)
(* that resumes (lthread_run(), lthread_sched.c).  Everything runs on one  *)
(* pthread: an lthread runs until it yields.                               *)
(* Deadlines are whatever the callers pass, so any sleeping lthread may be *)
(* the next to expire.  Each lthread waits on a descriptor of its own.     *)
(* What the calls take for granted is in their guards: lthread_wakeup() is *)
(* for an lthread in lthread_sleep() (it does nothing to one that runs or  *)
(* is ready), lthread_cancel() for one that sleeps or waits for its        *)
(* descriptor; an lthread is joined by one other at most, while it is      *)
(* neither detached nor cancelled, and not detached from then on.          *)
(***************************************************************************)
EXTENDS Integers, Sequences, FiniteSets

CONSTANTS
  Lthreads,       \* all struct lthread of the run
  Root,           \* the one that is created before lthread_run()
  None            \* NULL

ASSUME ApiAssumption == Root \in Lthreads /\ None \notin Lthreads

VARIABLES
  at,             \* lthread -> where it is: running or ready, or the call it is in
  flags,          \* lthread -> its state, the bits that these calls use
  ltJoin,         \* lthread -> lt_join
  target,         \* lthread -> whom it joins
  ready,          \* sched->ready
  waiting,        \* sched->waiting
  blocked,        \* the blocked_lthreads of a condition variable
  current,        \* sched->current_lthread
  phase,          \* where lthread_run() is
  events,         \* the lthreads whose descriptors are left in eventlist
  buried          \* the cancelled lthread of which _lthread_resume() reads the state

lts == <<at, flags, ltJoin, target>>
apiVars == <<lts, ready, waiting, blocked, current, phase, events, buried>>

Is(flag) == {x \in Lthreads : flag \in flags[x]}

Sleeping == Is("SLEEPING")

Unborn == {x \in Lthreads : at[x] = "unborn"}

Freed == {x \in Lthreads : at[x] = "freed"}

(* _lthread_desched_sleep() *)
Desched(f, x) ==
  [f EXCEPT ![x] = IF "SLEEPING" \in @ THEN @ \ {"SLEEPING", "EXPIRED"} ELSE @]

ApiInit ==
  /\ at = [x \in Lthreads |-> IF x = Root THEN "new" ELSE "unborn"]
  /\ flags = [x \in Lthreads |-> {}]
  /\ ltJoin = [x \in Lthreads |-> None]
  /\ target = [x \in Lthreads |-> None]
  /\ ready = <<Root>> /\ waiting = {} /\ blocked = <<>>
  /\ current = None /\ phase = "top" /\ events = {} /\ buried = None

Spots(s, x) == {i \in DOMAIN s : s[i] = x}

(* TAILQ_REMOVE() of x, which is in s once. *)
Others(s, x) ==
  IF Spots(s, x) = {} THEN s
  ELSE LET k == CHOOSE i \in Spots(s, x) : TRUE
       IN [i \in 1..Len(s) - 1 |-> IF i < k THEN s[i] ELSE s[i + 1]]

----------------------------------------------------------------------------
(* _lthread_resume() *)

(* The end of a cancelled or exited lthread x, with flags f and the others *)
(* in r: its joiner is ready, then it is freed if it is detached.          *)
Bury(x, f, r) ==
  /\ flags' = IF ltJoin[x] = None THEN f ELSE Desched(f, ltJoin[x])
  /\ ready' = IF ltJoin[x] = None THEN r ELSE Append(r, ltJoin[x])
  /\ ltJoin' = [ltJoin EXCEPT ![x] = None]
  /\ at' = [at EXCEPT ![x] = IF "DETACH" \in f[x] THEN "freed" ELSE "dead"]

TimedOut(x, call, f) == at[x] = call /\ "EXPIRED" \in f[x]

(* Mutant: lt_join is left on the target when lthread_join() times out. *)
UnjoinNever(x, f) == ltJoin

(* lt_join after x has gone on from lthread_join(). *)
Unjoin(x, f) ==
  IF TimedOut(x, "join", f) THEN [ltJoin EXCEPT ![target[x]] = None] ELSE ltJoin

(* What the call that x was in does when it goes on, with flags f: the      *)
(* waiting calls leave the busy list, one that timed out takes itself back, *)
(* and lthread_join() of an lthread that has ended frees it.  The first run *)
(* begins in _lthread_init(), which sets the whole state: a detach that was *)
(* made before is forgotten.                                                *)
GoOn(x, f) ==
  /\ flags' = [f EXCEPT ![x] = IF at[x] = "new" THEN {} ELSE @ \ {"BUSY"}]
  /\ blocked' = IF TimedOut(x, "cond", f) THEN Others(blocked, x) ELSE blocked
  /\ ltJoin' = Unjoin(x, f)
  /\ at' = [y \in Lthreads |->
              IF y = x THEN "run"
              ELSE IF y = target[x] /\ ~TimedOut(x, "join", f) THEN "freed"
              ELSE at[y]]
  /\ target' = [target EXCEPT ![x] = None]
  /\ current' = x

----------------------------------------------------------------------------
(* lthread_run() *)

IsDone == waiting = {} /\ Is("BUSY") = {} /\ Sleeping = {} /\ ready = <<>>

Top ==
  /\ phase = "top"
  /\ phase' = IF IsDone THEN "done" ELSE "expire"
  /\ UNCHANGED <<lts, ready, waiting, blocked, current, events, buried>>

(* A turn of _lthread_resume_expired(). *)
Expire ==
  /\ phase = "expire" /\ current = None
  /\ \E x \in Sleeping :
       /\ waiting' = waiting \ {x}
       /\ GoOn(x, [Desched(flags, x) EXCEPT ![x] = @ \cup {"EXPIRED"}])
  /\ UNCHANGED <<ready, phase, events, buried>>

ExpireDone ==
  /\ phase = "expire" /\ current = None
  /\ phase' = "ready"
  /\ UNCHANGED <<lts, ready, waiting, blocked, current, events, buried>>

(* The head of ready, popped: a cancelled one never runs again.  Its state  *)
(* is read once more when it may be freed already (ReadBuried).             *)
ReadyResume ==
  /\ phase = "ready" /\ current = None /\ ready # <<>>
  /\ "CANCELLED" \notin flags[Head(ready)]
  /\ ready' = Tail(ready)
  /\ GoOn(Head(ready), flags)
  /\ UNCHANGED <<waiting, phase, events, buried>>

ReadyCancelled ==
  /\ phase = "ready" /\ current = None /\ ready # <<>>
  /\ "CANCELLED" \in flags[Head(ready)]
  /\ Bury(Head(ready), flags, Tail(ready))
  /\ phase' = "buried" /\ buried' = Head(ready)
  /\ UNCHANGED <<target, waiting, blocked, current, events>>

(* The busy list is left by one that is on it.  Freed memory may hold any    *)
(* state: with the bit, LIST_REMOVE() follows links that are none.          *)
ReadBuried ==
  /\ phase = "buried"
  /\ \/ /\ phase' = "ready" /\ buried' = None
        /\ flags' = [flags EXCEPT ![buried] = @ \ {"BUSY"}]
     \/ /\ at[buried] = "freed"
        /\ phase' = "broken"
        /\ UNCHANGED <<flags, buried>>
  /\ UNCHANGED <<at, ltJoin, target, ready, waiting, blocked, current, events>>

(* _lthread_poll(): any of the descriptors waited for may be ready. *)
Poll ==
  /\ phase = "ready" /\ current = None /\ ready = <<>>
  /\ phase' = "events"
  /\ events' \in SUBSET waiting
  /\ UNCHANGED <<lts, ready, waiting, blocked, current, buried>>

(* An event: who waits for it is looked up again, and resumed at once. *)
Event ==
  /\ phase = "events" /\ current = None
  /\ \E x \in events :
       /\ events' = events \ {x}
       /\ IF x \in waiting
          THEN waiting' = waiting \ {x} /\ GoOn(x, Desched(flags, x))
          ELSE UNCHANGED <<lts, waiting, blocked, current>>
  /\ UNCHANGED <<ready, phase, buried>>

EventsDone ==
  /\ phase = "events" /\ current = None /\ events = {}
  /\ phase' = "top"
  /\ UNCHANGED <<lts, ready, waiting, blocked, current, events, buried>>

----------------------------------------------------------------------------
(* The calls of the lthread that runs. *)

(* _lthread_yield() in a call, and the rest of _lthread_resume() and of     *)
(* _lthread_resume_expired().                                               *)
Yield(call, set) ==
  /\ at' = [at EXCEPT ![current] = call]
  /\ flags' = [flags EXCEPT ![current] =
                 IF phase = "expire" THEN (@ \cup set) \ {"EXPIRED"} ELSE @ \cup set]
  /\ current' = None

Timed(timeout) == IF timeout THEN {"SLEEPING"} ELSE {}

Create == \E x \in Unborn :
  /\ current # None
  /\ at' = [at EXCEPT ![x] = "new"]
  /\ ready' = Append(ready, x)
  /\ UNCHANGED <<flags, ltJoin, target, waiting, blocked, current, phase, events, buried>>

(* lthread_sleep(); 0 goes to the end of ready, as _lthread_renice() does.  *)
Sleep == \E timeout \in BOOLEAN :
  /\ current # None
  /\ ready' = IF timeout THEN ready ELSE Append(ready, current)
  /\ Yield("sleep", Timed(timeout))
  /\ UNCHANGED <<ltJoin, target, waiting, blocked, phase, events, buried>>

(* _lthread_sched_event() *)
WaitFd == \E timeout \in BOOLEAN :
  /\ current # None
  /\ waiting' = waiting \cup {current}
  /\ Yield("fd", Timed(timeout))
  /\ UNCHANGED <<ltJoin, target, ready, blocked, phase, events, buried>>

CondWait == \E timeout \in BOOLEAN :
  /\ current # None
  /\ blocked' = Append(blocked, current)
  /\ Yield("cond", {"BUSY"} \cup Timed(timeout))
  /\ UNCHANGED <<ltJoin, target, ready, waiting, phase, events, buried>>

(* Mutant: the signalled lthread stays in the sleeping tree. *)
CondSignalStillTimed ==
  /\ current # None /\ blocked # <<>>
  /\ blocked' = Tail(blocked) /\ ready' = Append(ready, Head(blocked))
  /\ UNCHANGED <<lts, waiting, current, phase, events, buried>>

CondSignal ==
  /\ current # None /\ blocked # <<>>
  /\ blocked' = Tail(blocked)
  /\ flags' = Desched(flags, Head(blocked))
  /\ ready' = Append(ready, Head(blocked))
  /\ UNCHANGED <<at, ltJoin, target, waiting, current, phase, events, buried>>

CondBroadcast ==
  /\ current # None /\ Len(blocked) > 1
  /\ blocked' = <<>>
  /\ flags' = [x \in Lthreads |->
                 IF \E i \in DOMAIN blocked : blocked[i] = x THEN Desched(flags, x)[x]
                 ELSE flags[x]]
  /\ ready' = ready \o blocked
  /\ UNCHANGED <<at, ltJoin, target, waiting, current, phase, events, buried>>

Wakeup == \E x \in Sleeping :
  /\ current # None /\ at[x] = "sleep"
  /\ ready' = Append(ready, x)
  /\ flags' = Desched(flags, x)
  /\ UNCHANGED <<at, ltJoin, target, waiting, blocked, current, phase, events, buried>>

(* lthread_cancel(): off the trees and to the end of ready. *)
Cancel == \E x \in Lthreads :
  /\ current # None
  /\ (at[x] = "sleep" /\ x \in Sleeping) \/ x \in waiting
  /\ flags' = [Desched(flags, x) EXCEPT ![x] = @ \cup {"CANCELLED"}]
  /\ waiting' = waiting \ {x}
  /\ ready' = Append(ready, x)
  /\ UNCHANGED <<at, ltJoin, target, blocked, current, phase, events, buried>>

(* lthread_detach() and lthread_detach2() *)
Detach == \E x \in Lthreads :
  /\ current # None
  /\ at[x] \notin {"unborn", "dead", "freed"} /\ ltJoin[x] = None
  /\ flags' = [flags EXCEPT ![x] = @ \cup {"DETACH"}]
  /\ UNCHANGED <<at, ltJoin, target, ready, waiting, blocked, current, phase, events, buried>>

(* lthread_exit(), or the end of the function: _exec(). *)
Exit ==
  /\ current # None
  /\ Bury(current, [flags EXCEPT ![current] = @ \cup {"EXITED"}], ready)
  /\ current' = None
  /\ UNCHANGED <<target, waiting, blocked, phase, events, buried>>

(* lthread_join() of an lthread that has not exited; of one that has, it    *)
(* leaves its mark and fails.                                               *)
Join == \E x \in Lthreads \ {current}, timeout \in BOOLEAN :
  /\ current # None
  /\ at[x] \notin {"unborn", "freed"} /\ ltJoin[x] = None
  /\ {"DETACH", "CANCELLED"} \cap flags[x] = {}
  /\ ltJoin' = [ltJoin EXCEPT ![x] = current]
  /\ IF "EXITED" \in flags[x] THEN UNCHANGED <<at, flags, target, current>>
     ELSE /\ target' = [target EXCEPT ![current] = x]
          /\ Yield("join", {"BUSY"} \cup Timed(timeout))
  /\ UNCHANGED <<ready, waiting, blocked, phase, events, buried>>

Scheduler ==
  \/ Top \/ Expire \/ ExpireDone \/ ReadyResume \/ ReadyCancelled
  \/ ReadBuried \/ Poll \/ Event \/ EventsDone

Calls ==
  \/ Create \/ Sleep \/ WaitFd \/ CondWait \/ CondSignal \/ CondBroadcast
  \/ Wakeup \/ Cancel \/ Detach \/ Exit \/ Join

ApiNext == Scheduler \/ Calls

----------------------------------------------------------------------------
ApiSpec == ApiInit /\ [][ApiNext]_apiVars

Alive(x) == at[x] \notin {"unborn", "dead", "freed"}

(* The places from which the scheduler, a signal, an event or the end of    *)
(* another lthread will resume x.                                           *)
Sources(x) ==
  {<<"ready", i>> : i \in Spots(ready, x)}
    \cup {<<"cond", i>> : i \in Spots(blocked, x)}
    \cup {<<"fd", y>> : y \in waiting \cap {x}}
    \cup {<<"sleep", y>> : y \in {z \in Sleeping \cap {x} : at[z] = "sleep"}}
    \cup {<<"join", y>> : y \in {z \in Lthreads : Alive(z) /\ ltJoin[z] = x}}

(* Every lthread that is alive and does not run will be resumed from one    *)
(* place and not from two, through timeouts, signals, cancellations and     *)
(* joins in every order; only a waiting call is in the sleeping tree, and   *)
(* the scheduler ends only when nobody is left.                             *)
NobodyLost ==
  /\ \A x \in Lthreads : Alive(x) =>
       IF x = current THEN Sources(x) = {}
       ELSE \E p \in Sources(x) : Sources(x) = {p}
  /\ \A x \in Sleeping : at[x] \in {"sleep", "fd", "cond", "join"} /\ Spots(ready, x) = {}
  /\ phase = "done" => \A x \in Lthreads : ~Alive(x)

(* Nothing remembers an lthread that was freed: no queue, no tree, no       *)
(* joiner, and nobody who would be made ready for it; the scheduler looks   *)
(* at it again only where it buries a cancelled one (lthread.c:158).  One   *)
(* that ends with the mark of lthread_detach() is freed there and then; the *)
(* mark itself does not outlive a first run that comes after it.            *)
FreedForgotten ==
  /\ \A x \in Freed :
       /\ Sources(x) = {}
       /\ x # current
       /\ x \notin Sleeping
       /\ \A y \in Lthreads : target[y] # x
       /\ x = buried => "CANCELLED" \in flags[x]
  /\ \A x \in Is("DETACH") : at[x] # "dead"
=============================================================================
