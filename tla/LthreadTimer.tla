---------------------------- MODULE LthreadTimer ----------------------------
(***************************************************************************)
(* Time in lthread_run() (lthread_sched.c): lthread_sleep() puts an lthread*)
(* in the sleeping tree under the microsecond at which it is due, moved on *)
(* past those that are taken; the poll waits for the first of the tree, by *)
(* a timespec that epoll_wait() gets in milliseconds, and after a signal   *)
(* for all of it again; step 1 resumes those that are due.  Between two    *)
(* polls the lthreads work for a time of Work.                             *)
(***************************************************************************)
EXTENDS Integers, FiniteSets, FiniteSetsExt

CONSTANTS
  Sleepers,       \* lthreads
  NoSleeper,      \* NULL
  Msecs,          \* the arguments of lthread_sleep()
  Work,           \* microseconds from step 1 to the poll
  Arrivals,       \* microseconds of an epoll_wait() after which an event or a signal comes
  Turns,          \* the turns of the loop of _lthread_poll(): 1024
  Horizon         \* bound: no sleep begins after this microsecond, and no
                  \* timeout is 0 because an lthread is ready

ASSUME TimerAssumption ==
  /\ NoSleeper \notin Sleepers
  /\ IsFiniteSet(Sleepers)
  /\ Msecs \subseteq Nat \ {0}
  /\ Work \subseteq Nat /\ \E longest \in Work : \A w \in Work : w <= longest
  /\ Arrivals \subseteq Nat /\ Turns \in Nat \ {0} /\ Horizon \in Nat

VARIABLES
  clock,          \* _lthread_usec_now() - sched->birth
  wake,           \* lthread -> sleep_usecs, 0 when it does not sleep
  asked,          \* history: lthread -> the last sleep it asked for
  late,           \* history: lthread -> [by, lost]: how late it was resumed from it, or 0
  poll,           \* [usecs, turns, lost]: t and i of _lthread_poll(); history: the
                  \* microseconds of the turns that a signal ended
  runs,           \* sched->current_lthread
  step            \* the step of lthread_run()

timerVars == <<clock, wake, asked, late, poll, runs, step>>

Asleep == {x \in Sleepers : wake[x] # 0}

FirstDue == Min({wake[x] : x \in Asleep})

TimerInit ==
  /\ clock = 0 /\ runs = NoSleeper /\ step = "expire"
  /\ wake = [x \in Sleepers |-> 0]
  /\ asked = [x \in Sleepers |-> [till |-> 0, msecs |-> 0]]
  /\ late = [x \in Sleepers |-> [by |-> 0, lost |-> 0]]
  /\ poll = [usecs |-> 0, turns |-> 0, lost |-> 0]

(* _lthread_sched_sleep(): the tree has no two equal keys. *)
TimerSleep ==
  /\ runs # NoSleeper /\ clock <= Horizon
  /\ \E msecs \in Msecs :
       LET till == clock + 1000 * msecs
           free == (till..till + Cardinality(Asleep)) \ {wake[x] : x \in Asleep}
       IN /\ wake' = [wake EXCEPT ![runs] = Min(free)]
          /\ asked' = [asked EXCEPT ![runs] = [till |-> till, msecs |-> msecs]]
  /\ late' = [late EXCEPT ![runs] = [by |-> 0, lost |-> 0]]
  /\ runs' = NoSleeper
  /\ UNCHANGED <<clock, poll, step>>

(* It waits for something else, or has called lthread_sleep(0). *)
TimerYield ==
  /\ runs # NoSleeper
  /\ runs' = NoSleeper
  /\ UNCHANGED <<clock, wake, asked, late, poll, step>>

(* _lthread_resume_expired(): the first of the tree is due. *)
TimerExpire ==
  /\ step = "expire" /\ runs = NoSleeper
  /\ \E x \in Asleep :
       /\ wake[x] = FirstDue /\ wake[x] <= clock
       /\ wake' = [wake EXCEPT ![x] = 0]
       /\ late' = [late EXCEPT ![x] = [by |-> clock - asked[x].till, lost |-> poll.lost]]
       /\ runs' = x
  /\ UNCHANGED <<clock, asked, poll, step>>

TimerExpireDone ==
  /\ step = "expire" /\ runs = NoSleeper
  /\ \A x \in Asleep : wake[x] > clock
  /\ step' = "ready"
  /\ UNCHANGED <<clock, wake, asked, late, poll, runs>>

(* Steps 2, 3 and 5 resume lthreads that are not asleep. *)
TimerRun ==
  /\ step \in {"ready", "events"} /\ runs = NoSleeper
  /\ runs' \in Sleepers \ Asleep
  /\ UNCHANGED <<clock, wake, asked, late, poll, step>>

TimerWork ==
  /\ step = "ready" /\ runs = NoSleeper
  /\ Asleep # {} \/ clock <= Horizon
  /\ \E w \in Work : clock' = clock + w
  /\ step' = "poll"
  /\ UNCHANGED <<wake, asked, late, poll, runs>>

(* _lthread_min_timeout(), in microseconds; without sleepers 3 s. *)
MinTimeout ==
  IF Asleep = {} THEN 3000000
  ELSE IF FirstDue > clock THEN FirstDue - clock ELSE 0

(* Mutant: the rest of a second is taken the same way for a short timeout. *)
PollMsecsLongOnly(usecs) == 1000 * (usecs \div 1000000) + (usecs % 1000)

(* The timespec of _lthread_poll(), and the milliseconds epoll_wait() gets: *)
(* the nanoseconds beside whole seconds are usecs % 1000 milliseconds.      *)
PollMsecs(usecs) ==
  IF usecs >= 1000000 THEN 1000 * (usecs \div 1000000) + (usecs % 1000) ELSE usecs \div 1000

(* The timespec is taken once, before the loop; it is 0 when an lthread is   *)
(* in sched->ready.                                                         *)
TimerPollBegins ==
  /\ step = "poll"
  /\ \E ready \in BOOLEAN :
       /\ ready => Asleep # Sleepers /\ clock <= Horizon
       /\ poll' = [usecs |-> IF ready THEN 0 ELSE 1000 * PollMsecs(MinTimeout),
                   turns |-> 0, lost |-> 0]
  /\ step' = "wait"
  /\ UNCHANGED <<clock, wake, asked, late, runs>>

(* EINTR: the next turn waits for the whole timespec again; after the last   *)
(* turn there are no events.                                                *)
TimerSignal ==
  /\ step = "wait"
  /\ \E w \in Arrivals :
       /\ w <= poll.usecs
       /\ clock' = clock + w
       /\ poll' = [poll EXCEPT !.turns = @ + 1, !.lost = @ + w]
  /\ step' = IF poll'.turns = Turns THEN "expire" ELSE "wait"
  /\ UNCHANGED <<wake, asked, late, runs>>

(* The timeout passes, or an event for an lthread that is not asleep comes. *)
TimerPoll ==
  /\ step = "wait"
  /\ \/ clock' = clock + poll.usecs /\ step' = "expire"
     \/ /\ Asleep # Sleepers
        /\ \E w \in Arrivals : w <= poll.usecs /\ clock' = clock + w
        /\ step' = "events"
  /\ UNCHANGED <<wake, asked, late, poll, runs>>

TimerEventsDone ==
  /\ step = "events" /\ runs = NoSleeper
  /\ step' = "expire"
  /\ UNCHANGED <<clock, wake, asked, late, poll, runs>>

TimerNext ==
  \/ TimerSleep \/ TimerYield \/ TimerExpire \/ TimerExpireDone \/ TimerRun
  \/ TimerWork \/ TimerPollBegins \/ TimerSignal \/ TimerPoll \/ TimerEventsDone

TimerSpec == TimerInit /\ [][TimerNext]_timerVars

-----------------------------------------------------------------------------
(* Nobody is resumed before the end of its sleep.  It is late by the work   *)
(* of one turn and the microseconds by which it was moved on; by what the   *)
(* last poll had waited when signals ended its turns, up to 1024 times the  *)
(* timeout, since each turn waits for all of it again; and a sleep of a     *)
(* second or more by up to 999 ms on top of that, since the poll takes the  *)
(* wrong digits for the rest of a second.                                   *)
WakesOnTime == \A x \in Sleepers :
  /\ late[x].by >= 0
  /\ late[x].by <= Max(Work) + Cardinality(Sleepers) + late[x].lost
                     + IF asked[x].msecs >= 1000 THEN 999000 ELSE 0
=============================================================================
