---------------------------- MODULE LthreadPoll ----------------------------
(***************************************************************************)
(* lthread_poll(): lthreads of one scheduler wait for several descriptors  *)
(* each (_lthread_sched_events_poll(), _lthread_desched_events() and the   *)
(* fifth step of lthread_run(), lthread_sched.c) over one-shot epoll       *)
(* registrations (lthread_epoll.c).                                        *)
(* What the calls take for granted: an array names a descriptor once and   *)
(* at least one valid one, and no two lthreads wait for the same one.      *)
(***************************************************************************)
EXTENDS Integers, Sequences, FiniteSets

CONSTANTS
  Pollers,        \* lthreads
  FdsOf,          \* lthread -> its descriptors
  Wants           \* the events members of the user's arrays

ASSUME PollAssumption ==
  /\ DOMAIN FdsOf = Pollers
  /\ \A x, y \in Pollers : x # y => FdsOf[x] \cap FdsOf[y] = {}
  /\ \A x \in Pollers : FdsOf[x] \subseteq Nat /\ IsFiniteSet(FdsOf[x])
  /\ Wants \subseteq (SUBSET {"IN", "OUT"}) \ {{}}

VARIABLES
  pollers,        \* lthread -> [at, fds, revents, ready, timed, ret]
  multi,          \* sched->waiting_multi: <<fd, event>> -> lthread
  armed,          \* the one-shot registrations that have not fired
  registered,     \* the descriptors epoll knows
  eventlist,      \* sched->eventlist, its first num_new_events entries
  pollReady,      \* sched->ready
  pollPhase       \* where lthread_run() is

pollVars == <<pollers, multi, armed, registered, eventlist, pollReady, pollPhase>>

(* The event an entry of the user's array is registered for, and its key.   *)
EventOf(wanted) == IF "IN" \in wanted THEN "READ" ELSE "WRITE"

FdKey(x, fd) == <<fd, EventOf(pollers[x].fds[fd])>>

(* fds: the valid entries of the user's array; ret: what its last call      *)
(* returned, timed: it is in the sleeping tree.                             *)
PollInit ==
  /\ pollers = [x \in Pollers |-> [at |-> "run", fds |-> <<>>, revents |-> <<>>,
                                   ready |-> 0, timed |-> FALSE, ret |-> 0]]
  /\ multi = <<>> /\ armed = {} /\ registered = {} /\ eventlist = <<>>
  /\ pollReady = <<>> /\ pollPhase = "expire"

Entries(x, fds) ==
  [k \in {<<fd, EventOf(fds[fd])>> : fd \in DOMAIN fds} |-> x]

(* _lthread_sched_events_poll() up to its yield; a negative timeout becomes *)
(* 0, which is none.                                                        *)
PollCall(x) ==
  /\ pollPhase = "ready" /\ pollers[x].at = "run"
  /\ \E S \in (SUBSET FdsOf[x]) \ {{}}, timeout \in BOOLEAN :
     \E fds \in [S -> Wants] :
       LET new == Entries(x, fds)
       IN /\ pollers' = [pollers EXCEPT ![x] =
                 [@ EXCEPT !.at = "poll", !.fds = fds, !.timed = timeout,
                           !.revents = [fd \in S |-> {}]]]
          /\ multi' = [k \in DOMAIN multi \cup DOMAIN new |->
                         IF k \in DOMAIN new THEN x ELSE multi[k]]
          /\ armed' = armed \cup S /\ registered' = registered \cup S
  /\ UNCHANGED <<eventlist, pollReady, pollPhase>>

(* The rest of that function. *)
PollReturn(p) ==
  [p EXCEPT !.at = "run", !.ret = p.ready, !.ready = 0, !.fds = <<>>]

----------------------------------------------------------------------------
(* The revents that an event gives: POLLOUT is not looked at after POLLIN.  *)
Revents(e) ==
  (e.events \cap {"HUP"})
  \cup (IF "IN" \in e.events THEN {"IN"} ELSE e.events \cap {"OUT"})

(* What the events that are left, the current one included, say of fd.      *)
Reported(fd) ==
  UNION {Revents(eventlist[i]) : i \in {j \in DOMAIN eventlist : eventlist[j].fd = fd}}

(* Mutant: only the descriptor of the event is withdrawn. *)
WithdrawOne(x) ==
  LET fd == CHOOSE f \in DOMAIN pollers[x].fds : TRUE
  IN /\ multi' = [k \in DOMAIN multi \ {FdKey(x, fd)} |-> multi[k]]
     /\ armed' = armed \ {fd}
     /\ registered' = registered \ {fd}

(* _lthread_desched_events() once it has found x: every entry of its array  *)
(* leaves waiting_multi and epoll.                                          *)
Withdraw(x) ==
  LET fds == DOMAIN pollers[x].fds
      keys == {FdKey(x, fd) : fd \in fds}
  IN /\ multi' = [k \in DOMAIN multi \ keys |-> multi[k]]
     /\ armed' = armed \ fds
     /\ registered' = registered \ fds

(* Its other effects on an lthread that did not expire: the array and the   *)
(* count of ready entries are filled in, all its events are marked.         *)
Reports(x) ==
  LET p == pollers[x]
      rev == [fd \in DOMAIN p.fds |-> Reported(fd)]
      fired == {fd \in DOMAIN p.fds : rev[fd] \cap {"IN", "OUT"} # {}}
  IN /\ pollers' = [pollers EXCEPT ![x] =
          [p EXCEPT !.at = "ready", !.revents = rev, !.timed = FALSE,
                    !.ready = @ + Cardinality(fired)]]
     /\ eventlist' = [i \in 1..Len(eventlist) - 1 |->
          IF eventlist[i].fd \in DOMAIN p.fds THEN [eventlist[i] EXCEPT !.fd = -1]
          ELSE eventlist[i]]
     /\ pollReady' = Append(pollReady, x)

(* lthread_run(), step 1: an expired lthread is resumed at once. *)
PollExpire(x) ==
  /\ pollPhase = "expire" /\ pollers[x].at = "poll" /\ pollers[x].timed
  /\ Withdraw(x)
  /\ pollers' = [pollers EXCEPT ![x] = PollReturn([@ EXCEPT !.timed = FALSE])]
  /\ UNCHANGED <<eventlist, pollReady, pollPhase>>

PollExpireDone ==
  /\ pollPhase = "expire"
  /\ pollPhase' = "ready"
  /\ UNCHANGED <<pollers, multi, armed, registered, eventlist, pollReady>>

(* Step 2 *)
PollResume ==
  /\ pollPhase = "ready" /\ pollReady # <<>>
  /\ pollReady' = Tail(pollReady)
  /\ pollers' = [pollers EXCEPT ![Head(pollReady)] = PollReturn(@)]
  /\ UNCHANGED <<multi, armed, registered, eventlist, pollPhase>>

(* The events epoll may report for a descriptor: what it is armed for, a    *)
(* hang-up, or both.                                                        *)
Occurring(fd) ==
  LET want == IF <<fd, "READ">> \in DOMAIN multi THEN "IN" ELSE "OUT"
  IN {[fd |-> fd, events |-> e] : e \in {{want}, {"HUP"}, {want, "HUP"}}}

(* Step 4: epoll_wait() disarms what it reports. *)
PollWait ==
  /\ pollPhase = "ready" /\ pollReady = <<>>
  /\ pollPhase' = "events"
  /\ \E n \in 0..Cardinality(armed) :
       \E fds \in {f \in [1..n -> armed] : \A i, j \in 1..n : i # j => f[i] # f[j]} :
         /\ eventlist' \in {l \in [1..n -> UNION {Occurring(fd) : fd \in armed}] :
                              \A i \in 1..n : l[i].fd = fds[i]}
         /\ armed' = armed \ {fds[i] : i \in 1..n}
  /\ UNCHANGED <<pollers, multi, registered, pollReady>>

(* What the event may be looked up by: without EPOLLIN and EPOLLOUT the key *)
(* is not set, and may have any value or be the key of nobody.              *)
LookedUp(e) ==
  IF "IN" \in e.events THEN {<<e.fd, "READ">>}
  ELSE IF "OUT" \in e.events THEN {<<e.fd, "WRITE">>}
  ELSE DOMAIN multi \cup {<<-1, "READ">>}

(* Step 5, from the last event down: a marked one is skipped. *)
PollEvent ==
  /\ pollPhase = "events" /\ eventlist # <<>>
  /\ LET e == eventlist[Len(eventlist)]
     IN IF e.fd = -1
        THEN /\ eventlist' = SubSeq(eventlist, 1, Len(eventlist) - 1)
             /\ UNCHANGED <<pollers, multi, armed, registered, pollReady>>
        ELSE \E key \in LookedUp(e) :
             IF key \in DOMAIN multi
             THEN Withdraw(multi[key]) /\ Reports(multi[key])
             ELSE /\ eventlist' = SubSeq(eventlist, 1, Len(eventlist) - 1)
                  /\ UNCHANGED <<pollers, multi, armed, registered, pollReady>>
  /\ UNCHANGED pollPhase

PollEventsDone ==
  /\ pollPhase = "events" /\ eventlist = <<>>
  /\ pollPhase' = "expire"
  /\ UNCHANGED <<pollers, multi, armed, registered, eventlist, pollReady>>

PollNext ==
  \/ \E x \in Pollers : PollCall(x) \/ PollExpire(x)
  \/ PollExpireDone \/ PollResume \/ PollWait \/ PollEvent \/ PollEventsDone

PollSpec == PollInit /\ [][PollNext]_pollVars

----------------------------------------------------------------------------
(* Through events, expiries and hang-ups in every order, the table holds    *)
(* the entries of the lthreads that still wait and no others (a descriptor  *)
(* left in it would wake an lthread that has gone on, and fail an assertion *)
(* of its next call), each of them is known to epoll; a woken lthread is    *)
(* ready once and cannot expire any more; and lthread_poll() returns how    *)
(* many entries of the array, of this call, have POLLIN or POLLOUT.         *)
PollSound ==
  LET polling == {x \in Pollers : pollers[x].at = "poll"}
      woken == {x \in Pollers : pollers[x].at = "ready"}
  IN /\ DOMAIN multi = UNION {{FdKey(x, fd) : fd \in DOMAIN pollers[x].fds} : x \in polling}
     /\ \A k \in DOMAIN multi : multi[k] \in polling /\ k[1] \in FdsOf[multi[k]]
     /\ registered = {k[1] : k \in DOMAIN multi}
     /\ \A x \in Pollers :
          /\ Cardinality({i \in DOMAIN pollReady : pollReady[i] = x}) = IF x \in woken THEN 1 ELSE 0
          /\ pollers[x].timed => x \in polling
          /\ LET rev == pollers[x].revents
                 n == Cardinality({fd \in DOMAIN rev : rev[fd] \cap {"IN", "OUT"} # {}})
             IN /\ x \in woken => pollers[x].ready = n
                /\ pollers[x].at = "run" => pollers[x].ret = n
=============================================================================
