# sync_agent: specifications, model checking and proofs

`sync_agent` is a small C server.  Its server mode starts one pthread per CPU;
each runs an *lthread* scheduler (a library of coroutines vendored under
`src/src/thirdparty/lthread` and driven by the agent), with a listener
coroutine that accepts connections and one handler coroutine for each
connection.  Log lines are written on separate *compute* pthreads so that a
scheduler does not block.  Most of what can go wrong lies in that machinery:
coroutines that travel between lists owned by different threads, one-shot
epoll registrations, timeouts that race data, signals that are lost.

All paths below are relative to the repository; line numbers are those of
the commit the models were written from.  `PROJECT.json` maps every definition
to its lines, and lists hazards, runs, mutants, findings and theorems.

## 1. Inventory

`thirdparty/` and so on stand for directories under `src/src/`.

| component | state | operations | what makes it correct |
|---|---|---|---|
| **sync_server** `agent/sync_server.c` | listening socket, `_main_continue`, one `_connection_t` and buffer per handler | `server_accept_loop`, `sync_server_listen`, `client_connection_handler`, start and join | a queued connection is accepted, an accepted one is closed on every path, a descriptor belongs to one handler, the program stops on a signal |
| **lthread scheduler** `lthread_sched.c`, `lthread.c` | per scheduler: `ready`, `defer`, `busy`, the `waiting` and `sleeping` trees, the epoll event batch; per lthread: state bits, `fd_wait`, `ops` | the five steps of `lthread_run`, create, resume, yield, exit, renice, expire, `_lthread_sched_event`, `_lthread_desched_event` | each coroutine is resumed exactly once for each wait; a scheduler ends only when nothing of it is left |
| **sockets and poller** `lthread_socket.c`, `lthread_epoll.c`, `lthread_poller.c` | the epoll interest list, the eventfd | `lthread_accept`, `lthread_recv`, `lthread_send`, `lthread_close`, one-shot registrations, trigger | a waiter has an armed registration; an event wakes the waiter of that descriptor and no other |
| **compute pthreads** `lthread_compute.c` | the global list `compute_scheds`, a queue and FREE/BUSY flag each, four kinds of mutex, two condition variables | `lthread_compute_begin`, `_end`, `_lthread_compute_add`, `_lthread_compute_run` | no coroutine is run by two pthreads, before it is switched out, or never again |
| **calls of lthread.c** | per lthread: state bits, `lt_join`; `blocked_lthreads` of a condition variable | sleep, wakeup, condition variables, join, detach, cancel, exit | everybody who waits is resumed from one place; a freed lthread is remembered nowhere |
| **lthread_io** `lthread_io.c` | two io workers with a queue, a mutex and a condition variable each | `lthread_io_read/write`, `_lthread_io_worker` | a request is served once and comes back; no caller in the agent |
| **lthread_log, signals, main** `agent/sync_agent.c` | `_main_continue`, `_config` | `lthread_log`, `signal_handle`, argument parsing, daemon, start-up | a log line returns control to its coroutine; the process starts in the mode and with the log of its configuration |
| **equeue** `core/base/equeue.c` | ring buffer, `front`, `rear`, `size`, lock | push (doubles when full), pop, head, count | a FIFO queue through every growth and for several threads |
| **sync_config, eproperty, estring** `agent/sync_config.c`, `core/base/eproperty.c`, `estring.c` | the configuration with its sets and its map | a line to key and value, the item handler, the two list handlers, load, dump, free | the configuration says what the file says, for repeated keys and hosts too |
| **elog, esyslog** `core/base/elog.c`, `esyslog.c` | destination, descriptor, level | `log_set_*`, `log_by_level` | the descriptor in use is open |
| **simple_set, hashset, hashmap** `thirdparty/hashset`, `thirdparty/hashmap` | open addressing with and without marks of removed items; rows of doubly linked chains | add, remove, contains, set algebra, walk, rehash | behave like a set and a function, at every size |
| **cfuhash, tree.h, queue.h** `thirdparty/lthread` | the table of `lthread_poll`; the trees and lists of a scheduler | put, get, delete, rehash, merge; red-black insert and remove; LIST and TAILQ macros | every entry is found; trees stay balanced, lists linked both ways |
| **sync_client**, `lthread_kqueue.c`, `eother.c`, `ememory.c` | | | stub, other platform, I/O helpers |

How they interact: `sync_server` calls the socket wrappers; those put the
running coroutine into the scheduler's trees and register with epoll, and yield.
`lthread_run` resumes coroutines from five places.  `lthread_log` moves the
coroutine to a compute pthread under `sched_mutex`; the pthread gives it back on
`sched->defer` under `defer_mutex` and writes the scheduler's eventfd.
`signal_handle` clears `_main_continue`, which only the listener reads.

The hard behaviours are the hazards of `PROJECT.json`; those without a
property say why in their `note`.

## 2. The modules

### LthreadCompute: the hand-off between a scheduler and a compute pthread

`LthreadCompute.tla` models `lthread_compute.c` with the parts of `lthread_run`
(`lthread_sched.c`), `_lthread_resume`/`_lthread_yield` (`lthread.c`) and the
eventfd trigger (`lthread_epoll.c`) it works with.  An action is one critical
section, or the code of one thread between two accesses to shared state.

| in the code | in the model |
|---|---|
| program counter of a scheduler pthread in `lthread_run`; its local `lt`; which of the loops resumed it | `spc`, `cur`, `loop` |
| `sched->ready`, `->defer`, `->busy`, the eventfd | `ready`, `defer`, `busy`, `trig` |
| `LT_ST_PENDING_RUNCOMPUTE`, `LT_ST_RUNCOMPUTE`, neither; not allocated, freed | `state` |
| `lt->sched`, `lt->compute_sched` | `lsched`, `lcomp` |
| `compute_scheds`; a pthread's place in `_lthread_compute_run`; its local `lt`; its queue; `compute_st` | `cscheds`, `cpc`, `ccur`, `cq`, `cst` |
| the process follows a NULL pointer (`lthread_compute_begin` returned -1 and nobody looked) | `alive = FALSE` |

Points of the code the model keeps exactly: the coroutine is queued *before* it
is switched out; the `FREE` flag is read under a mutex but written without one,
so two requests may share a pthread; the pthread looks at its queue, lets the
mutex go and only then starts to wait, so a signal in between is lost; it looks
again, under `sched_mutex`, when its 60 s wait ends; it reads `lt->sched`
again after the coroutine has been given away; `_lthread_sched_isdone` looks at
`busy` and not at `defer`.  A compute pthread that finds a `PENDING_RUNCOMPUTE`
head spins; the model has no action for that.

Deliberate over-approximations: a request takes *any* free listed compute
scheduler where the code takes the first (`BeginFree`), and any listed one when
creation fails (`BeginShared`); creation may fail at any time.  A spurious
return of `pthread_cond_timedwait` is not modelled: it would only add the step
from the wait to the loop, which a signal also takes.

### Handoff: what `lthread_log` relies on

`Handoff.tla` is the same system without queues, lists of pthreads, flags, signals and
timeouts: an lthread is at home, leaving its scheduler, asked for, being written, or
given back, and its scheduler runs, is between two lthreads, or is over.
`lthread_compute_begin` and `lthread_compute_end` promise `lthread_log` that a line is
written by one pthread, not before the scheduler has left the lthread's context; that the
lthreads come back to their own scheduler in the order in which they were written; and
that the scheduler does not end before.  `LthreadCompute` is mapped to it by the state
bits and the hands of the compute pthreads (`Stage`), `lt->sched`, `sched->defer`, and
the places of the schedulers (`Running`, `Ended`).

### SyncServer: listeners and handlers on their schedulers

`SyncServer.tla` models `sync_server.c` with `lthread_accept`, `lthread_recv`,
`lthread_send`, `lthread_close`, the five steps of `lthread_run`, the waiting and
sleeping trees and epoll.  Since the lists of a scheduler belong to its pthread,
an action is the code between two system calls or two yields.

| in the code | in the model |
|---|---|
| the kernel: accept queue, connection, what its client has done, send buffer, descriptor table | `backlog`, `conn`, `peer`, `full`, `fdtab` |
| `lthread_run`'s step, the coroutine it runs, and the loop to go on with | `spc`, `cur`, `loop` |
| `sched->waiting`, `sched->sleeping`, the epoll interest list (one-shot, so an entry goes when it fires) | `waiting`, `sleeping`, `armed` |
| `sched->eventlist` and the event being worked off | `events`, `evfd` |
| a listener's place in `sync_server_listen`/`lthread_accept`; its `ops` | `lpc`, `ops` |
| a handler's place, scheduler and `conn->fd` | `hpc`, `hsched`, `hfd` |
| `_main_continue` | `cont` |

Each of these is an action of its own: a timeout (`Expire`), the ready and defer
loops, `_lthread_poll`, the reader and then the writer of each event, `Renice`,
every outcome of `accept` (a connection, `ECONNABORTED`, `EWOULDBLOCK` or
`EMFILE`, an error that ends the listener, a connection that `fcntl` fails for, which is closed
and ends the listener too) and of `lthread_create` (the
connection leaks), a failing `malloc` of the handler's buffer (the handler returns
without closing), data / end of stream / reset at `lthread_recv`, a full send buffer,
`lthread_close`, connects, and the signal.  A client sends a request (`PeerSends`), only ends its
stream (`PeerShuts`) or resets the connection (`PeerResets`): the handler answers after the first
two, since it does not look at the number that `lthread_recv` returns beyond its sign.  Descriptor numbers are
reused as soon as they are closed, also while a batch of events is half done.

`lthread_log` appears as two ends: `Away` puts the coroutine on `busy`, `LogDone` puts
it on `defer` at some later time: the hand-off of `Handoff`, whose stages between are
nothing to the server.  `LthreadCompute` implements them and shows (`HandoffReturns`)
what the fairness of `LogDone` assumes here.

Abstracted: contents of requests and answers; the order in which one `epoll_wait`
batch lists its events (any order); time (any sleeping coroutine may be late
at any iteration); `FDEOF` is shown by what it makes the wrappers do, which for a
handler is to go to `close`.  Handlers never reach five operations, so
`_lthread_renice` does nothing for them.  The unchecked `malloc` of `_connection_t`
is not modelled, nor the index error of `pths[]`: the model has no state that could say
anything about them.

### EQueue and Fifo: the growing ring buffer and what its header promises

`EQueue.tla` models `equeue.c`.  A push that grows the buffer is cut where it
changes the fields (`PushStart`, `Realloc` or `ReallocFailure`, `Move`, `Store`)
since `queue_element_count` reads them without the lock.  `Fifo.tla` is the
promise of `equeue.h`: one sequence, each call one step.  `EQueue` is mapped to
it by `Items`, the data between `front` and `rear` in the slots as they lie at
the moment (by `orgSize` while the wrapped part has not been moved), and by the
results of the calls.  `queue_head` of an empty queue returns whatever the slot
holds; `Fifo` promises nothing there.  Not modelled: `queue_destroy`,
`queue_size`, the sizes at which `int` overflows (`MAX_QUEUE_SIZE` is defined
and never used).

### LthreadApi: the calls of `lthread.c` on one scheduler

`LthreadApi.tla` models sleep, wakeup, condition variables, join, detach, cancel and
exit with `_lthread_resume` and the steps of `lthread_run`.  Everything runs on one
pthread, so an action is the code from one yield to the next.

| in the code | in the model |
|---|---|
| where an lthread is: new, running or ready, or in which call | `at` |
| `LT_ST_SLEEPING`, `EXPIRED`, `CANCELLED`, `DETACH`, `EXITED`, `BUSY` (on the busy list) | `flags` |
| `lt->lt_join`, and the argument of `lthread_join` | `ltJoin`, `target` |
| `sched->ready`, the `waiting` tree, `cond->blocked_lthreads` | `ready`, `waiting`, `blocked` |
| the step of `lthread_run`, the lthread it runs, the batch of events | `phase`, `current`, `events` |
| the cancelled lthread whose state is read again, freed or not | `buried` |

Deadlines are whatever the callers pass, so any sleeping lthread may be the next to
expire.  Two things of the code are kept although nobody would write them so: a cancelled
lthread is freed, if it was detached, *before* its state is read for the busy list (`ReadBuried`, which may go
wrong when the memory says so: `phase = "broken"`), and the first run of an lthread sets its whole
state, so that a `lthread_detach2` made before is forgotten (`GoOn`).  What the calls take for granted stands in their guards and in the header of the
module: `lthread_wakeup` is for an lthread in `lthread_sleep`, `lthread_cancel` for one
that sleeps or waits for its descriptor, and an lthread has one joiner at most and is not
detached once it has one.  The code checks none of this; the model says
what holds for callers that respect it.

### LthreadIo: the two io workers

`LthreadIo.tla` models `lthread_io.c` for one scheduler: every step under a mutex is an
action, and so is each stretch between two.  A worker that has seen its queue
empty lets `lthreads_mutex` go before it takes `run_mutex` to wait, without a timeout and
without looking again; the history variable `ioMissed` holds the workers that were
signalled in that gap.  `IoMissedOnly` says that this gap is the one way to leave a request
lying: a request whose worker waits is in a queue whose signal came there.

### LthreadPoll: waiting for several descriptors

`LthreadPoll.tla` models `_lthread_sched_events_poll`, `_lthread_desched_events` and the
fifth step of `lthread_run`, with the one-shot registrations of `lthread_epoll.c`.
`multi` is the table `sched->waiting_multi` (a key is a descriptor and an event), `armed`
and `registered` are what epoll knows, `eventlist` is the batch, worked off from its last
event down.  An event that is only a hang-up is looked up by a key that was never set:
any key.  The guards hold what the calls assert: an array names a descriptor once,
and no two lthreads wait for the same one.

### LthreadSocket: the socket calls against a kernel that takes and gives parts

`LthreadSocket.tla` models recv, recv_exact, readline, send, sendmsg, writev, connect and
wait: one attempt is one action, the kernel takes or gives any number of bytes up to what
is asked, and between two attempts more bytes, the end of the stream, a hang-up, an expiry
or the `lthread_close` of another lthread may come.  A byte is its number in the
stream, so a byte lost, repeated or out of order shows.  `lthread_writev` is cut finer: the
kernel gathers the array entry by entry (`Writes`, `Gathers`, `Written`), and each turn of
the `for` loop that passes the entries already sent, or cuts the first that is not, is an
action (`PassesOrCuts`, `ForEnds`), so that what the array holds between two turns is a state.
When the last entry is empty, the loop goes round once more after all is sent, and the call
returns the 0 of a `writev` of nothing.

### LthreadTimer: time in `lthread_run`

`LthreadTimer.tla` has the arithmetic that the other modules leave abstract:
`lthread_sleep` puts an lthread in the tree under the microsecond at which it is due, moved
on past keys that are taken; `_lthread_min_timeout` gives the time to the first; the poll
makes a `timespec` of it, and milliseconds of that.  A wait of a second and more loses its
milliseconds on the way up or down (`usecs % 1000` is taken for the rest of a
second).  The `timespec` is made once, before the loop of `_lthread_poll`: a signal ends a turn of it
(`TimerSignal`) and the next turn waits for all of it again, up to `Turns` times (1024 in the code).
The property `WakesOnTime` says what is true all the same, never early, and late by
no more than the work of a turn, the keys moved on, what the last poll had waited when signals
came (`lost`), and 999 ms for sleeps of a second and more.  No document of the repository promises
a bound.

### The containers

`ContainerKeys` holds the strings that key them, with any hash function.

| module | source | what is kept |
|---|---|---|
| `SimpleSet` | `hashset/set.c` | the array of slots with its counters; growth at a quarter, the new layout after a removal, union, intersection, differences, subset tests, with allocations that fail in any addition |
| `HashSet` | `hashset/hashset.c` | slots, marks of removed items, both counters, growth at the load limits, a second copy stored past a mark |
| `HashMap` with `PrimeTable` | `hashmap/hashmap.c`, `hash_fcn.c`, `prime_table.c` | rows as chains of linked nodes with their `prev` pointers, the number of rows, rehash, the walk with its saved next entry |
| `CfuHash` | `lthread/cfuhash.c` | buckets as chains, growth and shrinking, iteration, copy, merge |
| `RbTree` | `lthread/tree.h` | parents, children and colours of the red-black macros, pointer by pointer, with both fix-ups |
| `Queues` | `lthread/queue.h` | next and previous links and `tqh_last` of LIST and TAILQ |

Each keeps the pointers and counters of the code beside what its callers mean (a set, a
function, an order), and its property says that the two agree.  `HashMap` is run with
`Splay = FALSE`, the only mode that the program asks for; the branches of the other mode
are in the model.  The loops of `hashmap.c` over a row and over all rows are said without
recursion: `Meets` is reachability, "k is in every set that holds the start and is closed under
the link", which TLC evaluates over the subsets of four keys and TLAPS can reason about.  Links
of a freed node leave the domain of `next` and `prev`, so a pointer to it cannot be followed.
`SimpleSet` has a second set, `other`, built by additions: the other operand of the set algebra,
in any layout that additions give it.  Its loops over the slots are recursive functions, and
`__relayout_nodes` is the first of its passes after which another changes nothing.
The loops of `CfuHash` are one operator, `Repeat`, with the body of the loop as a function of
the number of the turn and of the state; those of `RbTree` are operators for one turn
(`InsertTurn`, `RemoveTurn`, `Descend`, ...), repeated until another turn changes nothing.  The mirrored halves of
the macros are one definition with a direction.

### Elog, PropertyLine, SyncAgent: the start of the program

`Elog.tla` holds the statics of `elog.c` and `esyslog.c` and the descriptors of the
process: level, destination, `log_fd`, the syslog socket.  The kernel gives the lowest
free descriptor, so that a descriptor the log has closed and still names is soon that of
somebody else.  `write` and `sendto` may take a line or not; `elog.c` looks at the result of
`sendto` only, so that a line that a file did not take is dropped with the result 1.  `lost` is history.

`PropertyLine.tla` takes a line of a configuration file from `fgets` to the item handler
character by character, since what can go wrong is in the characters (`"space"`, `"return"`,
`"newline"`, `"hash"`, `"equals"` and two letters): white space, a comment after a value, a line
without `=`, a key that is empty (`trim_str` then runs backwards out of the buffer: `inside` is
FALSE).

`SyncAgent.tla` has `main` from its arguments to the choice of the mode, every turn of
`property_read` over lines that are a key and a value, the handlers of `sync_config.c` over
`SimpleSet` and `HashMap`, the log over `Elog`, and `create_daemon_process` with each
failure.  Memory may run out in each copy of a value, which refuses the line, and in each addition
to a set or to the map, which nobody looks at: `short` (history) holds the names that it may have cost.  An entry of `subscribe_path` without a `:`
(its host is `NoKey`) lets `strncpy` run into memory that is not there: the process dies of SIGSEGV
(`Unsplit`, status 139), since no handler is installed yet.  Later, a `mode` or `server_list` that is
not set is followed too, and then the SIGSEGV handler
exits with 0; `StartsAsConfigured` speaks of the runs that get past this.

### MCSequential and MCRuntime

The parts of these two never interact (the queue of `EQueue` among those of `MCRuntime`), so the
modules put them side by side: a behaviour belongs to one `part` and leaves the others as they start.  That gives all their
properties one run each without a product of their states.  The properties that the theorems of
section 5 state are checked as they stand, in every state, so that both speak of the same
definition; `NearestPrimeSound`, which is only model-checked, is checked in the states of its
own part, as `MCNearestPrimeSound`.

## 3. The runs

| run | asks | instance | result |
|---|---|---|---|
| `compute_safety` | is a coroutine ever lost, run twice, run before it is switched out, or stranded; is it all a hand-off (`Handoff`)? | 2 schedulers, 3 lthreads, 2 compute pthreads, 1 log line each | holds, 846 k states (symmetry on compute pthreads) |
| `compute_live` | does every hand-off come back, and every lthread end, without help from the poll timeout? | 2 schedulers, 2 lthreads, 1 compute pthread, 2 log lines each | holds |
| `compute_free` | is `lt` still allocated when its scheduler is signalled? | 2 schedulers, 2 lthreads, 1 compute pthread | **violated** (finding 1) |
| `server_safety` | do lists, trees, registrations and descriptors agree; is nobody answered but who has sent something or ended its stream? | 2 schedulers, 2 connections, 2 descriptors, no faults | holds, 1.39 M states (full symmetry) |
| `server_live` | is every queued connection accepted and every accepted one closed, also after a fault; does no scheduler end with work left? | 2 schedulers, 2 connections, 1 descriptor, 1 fault; clients only end their streams, or are silent | holds, 118 k states |
| `server_stop` | does the program end on a signal? | 1 scheduler, 1 connection | **violated** (finding 2) |
| `equeue_realloc` | is the buffer one FIFO queue also when `realloc` fails? | 2 threads, 2 slots | **violated** (finding 3) |
| `equeue_count` | is the count right at every moment? | 2 threads, 2 slots | **violated** (finding 4) |
| `hashset_add` | does adding a value that is stored return 0? | 6 values, 8 slots that double once | **violated** (finding 5) |
| `agent_mode` | does the process take the side that `mode` names? | the files of `sequential` | **violated** (finding 6) |
| `sequential` | do containers, lines, log and start-up do what they stand for? | 4 keys, 8 tree elements, 4 queue items, lines of 5 characters, 487 files | holds, 59 k states |
| `runtime` | is nobody lost in the calls, the io workers and `lthread_poll`; is no byte lost in the socket calls; does a sleep end on time; is the ring buffer one FIFO queue until memory runs out? | 3 lthreads; 3 with 2 workers; 2 with 3 descriptors; streams of 4 bytes; 2 sleepers; 2 threads, 2 values, 3 slots that double once | holds, 1.27 M states |

Every property of a passing run has a mutant in `PROJECT.json`: a plausible slip
in the modelled code (a queue not looked at again, a forgotten
`_lthread_cancel_event`, an epoll re-arm left out, `<` for `<=` in the move, ...)
under which TLC finds it violated.  The mutated definitions stand just before
those they replace, marked `Mutant`.

### Bounds, and why they are enough

* `MaxLogs`: log lines per lthread.  One lets every lthread be in the hand-off
  at the same time; two, in the liveness run, lets one meet a pthread that
  waits, has timed out or is leaving.
* Three lthreads on two schedulers: a scheduler with a listener and a handler, next
  to another scheduler that shares the compute pthreads; two compute pthreads let
  `FREE`, `BUSY`, shared and newly created ones meet.  `Comps` bounds those that
  exist *at a time*: a number is used again after its pthread has left.
* `Conns`, `Fds`: with two connections and two descriptors a number is used again
  while the other one's event is pending; with one descriptor for two connections
  the table is exhausted (`EMFILE`), and a fault of the first connection leaves the second one to
  be accepted by the other listener, or to wait for ever for a descriptor that is leaked, which
  `Accepted` says.
* `Moves`, `Slow`: what clients do and whose send buffers may be full; all of it in
  `server_safety`, and in `server_live` the ends of streams and silence, by which handlers reach
  their answer and their timeout.
* `NiceOps` = 2 where the code has 5: what matters is that a listener is put back
  on `ready` in the middle of its operations.
* `MaxFaults` bounds failing allocations and `accept` errors: one suffices to end
  a listener, to close what was accepted, or to leak a descriptor.
* `InitSize` 3, `MaxSize` 6: when 3 slots are full, data has wrapped round in every
  possible way.  `MaxSize` only stops the growth; the code has no bound.
* Containers: `KeyHash` sends the four keys in pairs to two neighbouring slots of a table of
  4, and sets them apart as it doubles, so that probes meet, wrap round the end and cross
  freed slots; tables start with 4 slots and may double twice.  `Failing` holds the sets of keys whose
  additions find no memory: none, and one of each pair.  In `HashSet` the keys are
  integers that meet in a table of 8 or 16 slots (`MaxSlots`), as many as
  make the table of 8 grow; `MaxDeleted` bounds how many removed slots may pile up.  Eight elements make every
  fix-up of the red-black tree happen, four items every neighbourhood in a queue.
* `Sizes` and `RowArgs` are both sides of every boundary of the prime table, and the
  special values of the row argument.
* `MaxText` = 5: white space, key, `=`, value and comment in all orders.  `Files`: all
  files of up to two lines of 21, so that every line is followed by every other, and 24 whole ones.
* `Lthreads` = 3 in `LthreadApi`: one that waits, one that joins it and one that signals,
  wakes or cancels.  `IoWorkers` = 2 is the code's own value; three lthreads let a
  queue hold two requests.  `StreamLen` 4 with one newline, and iovecs with empty entries in
  the middle and at the ends.
* `Msecs` 1, 999 and 1001, `Work` and `Arrivals`: sleeps on both sides of a second that
  collide on one microsecond and are cut short by events and signals.  `Turns` 2 where the code
  has 1024: a signal followed by a whole wait, and a loop given up.  `Horizon`: no sleep begins
  later, which ends the run.

### Deadlock

TLC checks deadlock in every passing run but two: `sequential` (the program's start
ends) and `runtime` (after a failed `realloc` the next push follows a NULL pointer, a scheduler is
done, all lthreads are freed).  `Stopped` marks the
states in which the program has really ended or died.

### Fairness

* A pthread that can take a step takes one: weak fairness of everything one pthread
  does (`SchedWork`, `CompStep`, `SchedStep`), no more than the operating system
  gives.  Which branch it takes (the log line, the exit, an error) is not fair.
* In `LthreadCompute` the poll timeout (`PollTimeout`) is *not* fair, so the liveness
  shown is that of the eventfd alone.  One thing is left to the timeout of
  at most 3 s and is not claimed: the last iteration of `lthread_run` polls once more
  after the last exit.  The 60 s wait of a compute pthread does end (`CompTimeout` is
  part of `CompStep`): without it `HandoffReturns` is false, which is its mutant; the
  lost signal costs up to a minute and nothing else.
* In `SyncServer` a sleeping handler is late at some iteration: strong fairness
  of `Expire`, as step 1 is passed again and again; full send buffers drain; log
  lines are written.  Clients owe nothing.  `_lthread_poll` always returns (timeout of
  at most 3 s).
* A scheduler whose step 2 never ends (a listener that is made ready for ever) would
  need infinitely many connections; `Conns` is finite, as descriptors are.

## 4. Findings

1. **Use after free in the compute pthread** (`compute_free`,
   `lthread_compute.c:250`): `_lthread_poller_ev_trigger(lt->sched)` reads `lt` after
   `defer_mutex` was released; the scheduler may have run `lt` to its end and freed it.
2. **SIGTERM does not end the program** (`server_stop`, `sync_server.c:147`): the
   listener reads `_main_continue` once per connection and waits without a timeout,
   against "sync_agent will exit normally" (`sync_agent.c:267`).
3. **A failing push loses the queue** (`equeue_realloc`, `equeue.c:81`).
4. **The element count is read without the lock** (`equeue_count`, `equeue.c:145`).
5. **A stored value is added again** (`hashset_add`, `hashset.c:57`): a slot marked as removed is
   taken before the value has been looked for behind it; the result is 1 and the value is there
   twice, against `hashset.h:52`.
6. **The side is not the mode** (`agent_mode`, `sync_agent.c:332`): an unknown mode starts a
   client, and a host in `server_list` serves in mode client, against `sync_config.h:30`; the error
   "run mode is server or client" (`sync_agent.c:341`) is never reached.

Other places where the code does not do what it, or a header, leads one to expect.  The models
have the code's behaviour, and the properties claim no more than holds:

* `cfuhash_foreach_remove` (`cfuhash.c:655-698`) does not count what it takes out and passes no
  data for the head of a bucket, against `cfuhash.h:183-187` and `213`.  It has no caller, and
  `CfuHash` leaves it out.
* The log functions ignore the result of `write` (`elog.c:139,196,252,308,364`) and return 1 for a
  line that is lost, against `elog.h:66-67`: in the model, `LogKeepsItsDescriptors` promises nothing
  from a 1.
* A `log_dst` of syslog is refused (`sync_config.c:129-132`), although `sync_config.h:28` lists it.
* The set algebra and the list handlers of `sync_config.c` ignore what `set_add` and `hashmap_add` return when
  memory runs out: elements are missing and the result is success (`SetAlgebra`, `ConfigIsFile`
  name those that may be).
* `lthread_writev` returns 0 after all is sent when the last entry is empty; `lthread_recv_exact`
  and `lthread_readline` drop what they have taken when they fail.
* `lthread_detach2` before the first run is wiped (`lthread.c:259`), so such an lthread is never freed, against
  `lthread_int.h:99`; a cancelled detached one is freed and then looked at (`lthread.c:156-159`).
* A signal makes the poll wait for its whole timeout again; a timeout of a second or more is wrong
  by up to 999 ms.

## 5. What is proved

All with TLAPS, for every value of the constants that the assumptions of the modules
allow.  Each `...Proofs` module has one inductive invariant, a lemma for each action that
keeps it, and the properties as consequences; each invariant was checked with TLC on the
instance of its run before it was proved.

| module | theorem | says |
|---|---|---|
| `LthreadComputeProofs` | `Invariance` | `Spec => []IInv`, the inductive invariant |
| | `TypeCorrect` | `TypeOK` |
| | `OnePlaceHolds` | an lthread in use is in exactly one list or hand, a freed one in none |
| | `SwitchedOutHolds` | no compute pthread runs an lthread before its context is saved |
| | `RequestHeldHolds` | a request is in the queue or hands of a listed pthread |
| | `DoneIsDoneHolds` | a scheduler is freed only when nothing of it is left |
| | `NoLostTriggerHolds` | a sleeping scheduler with deferred work has been, or is about to be, woken |
| | `HandoffHolds` | `LthreadCompute` implements `Handoff` |
| `SyncServerProofs` | `ServerInvariance`, `ServerTypeCorrect` | the inductive invariant, `TypeOK` |
| | `ResumedOnceHolds` | each lthread waits for one resumption on its own scheduler |
| | `WaitersMatchHolds`, `WaitersArmedHolds` | trees, registrations and the batch of events agree, and who waits can be woken |
| | `DescriptorsOwnedHolds` | a descriptor belongs to one handler until it closes it |
| | `ServerDoneHolds`, `AnswersRequestHolds` | a scheduler ends with nothing left; nobody is answered who neither sent anything nor ended its stream |
| `EQueueProofs` | `QueueInvariance`, `QueueTypeCorrect` | the inductive invariant; `front` and `rear` stay inside the buffer |
| | `FifoUntilLostHolds` | the ring buffer implements `Fifo` until a `realloc` fails |
| `LthreadApiProofs` | `ApiInvariance` | the inductive invariant |
| | `NobodyLostHolds`, `FreedForgottenHolds` | one place to be resumed from; a freed lthread is remembered nowhere but in the statements that free it |
| `LthreadIoProofs` | `IoInvariance` | the inductive invariant |
| | `IoHandedOverHolds`, `IoMissedOnlyHolds` | one place with the workers; the missing second look is the one way to strand a request |
| `RuntimeProofs` | `PollInvariance`, `PollSoundHolds` | `lthread_poll`: the table and epoll hold the descriptors of those that wait and no others; each is woken once, with the count of what fired |
| | `TimerInvariance`, `WakesOnTimeHolds` | no sleep ends early, and none later than the work of a turn, the collisions, the signals and the lost digits explain |
| | `SockInvariance`, `StreamsInOrderHolds` | buffer and wire hold the bytes in order and once, whatever parts the kernel takes or gives; what a result says of their number |
| `SequentialProofs` | `QueuesInvariance`, `QueuesLinkedHolds` | TAILQ and LIST are linked both ways in the order of the insertions |
| | `LogInvariance`, `LogKeepsItsDescriptorsHolds` | the log writes to a descriptor that is its own or nowhere, and closes no other |
| | `LinesSplitHolds` | a line of any length gives the handler its key and value, and nothing outside the buffer is touched |
| | `HmInvariance`, `HashmapLinkedHolds`, `HashmapWalkHolds` | a hashmap behaves like a function, and a walk whose caller removes what it is given meets every node once (`~Splay`) |
| | `SetInvariance`, `SetSoundHolds`, `SetAlgebraHolds` | every key of a set is found where probing and new layouts left it, nothing else is, and the set algebra is that of the contents but for the keys whose allocation failed |
| | `HashsetInvariance`, `HashsetSoundHolds` | a hashset finds what is stored in it across the marks of removed items, its counters count, and every loop has an empty slot to stop at |
| | `AgentInvariance`, `ConfigIsFileHolds`, `StartsAsConfiguredHolds` | the configuration in use says what its file says, for any files, but for names whose allocation failed; the process has the log and the streams that it gives |
| `ContainerProofs` | `RbInvariance`, `RbBalancedHolds` | the tree of `tree.h` is a red-black tree of exactly what was inserted and not removed, every lookup finds in it what it should, and every loop of the macros ends |
| | `CfuInvariance`, `CfuhashSoundHolds` | however often the table grew and shrank, a lookup reads the bucket that holds its key, an iteration meets every key once, and every call does what it returns |

Assumptions: those of the modules, each evaluated by TLC in the runs that extend them.
They say that NULL is none of the objects, that each scheduler has a listener of its own, that
schedulers and connections are different things (`ThreadsAssumption`), and that the bounds are
natural numbers.  The sets of schedulers, lthreads, connections and compute pthreads may be
infinite.  Where the code counts, the thing counted is finite, as it is in memory: the descriptors of one
array (`PollAssumption`), the sleepers and the lengths of work (`TimerAssumption`), the keys of a
table (`KeysAssumption`), the elements of a tree, which are never NULL (`RbAssumption`).
`CfuAssumption` says that NULL is no data, by which the callers of `cfuhash.c` tell a missing key.  `FilesAssumption` types the lists of a configuration file and bounds
no length; `AgentAssumption` says that the map of hosts gets a positive number of rows.  `HashmapAssumption` takes from `PrimeTable` only that the prime found for
a size is a natural number, and says that there is something to store.  The theorems about `HashMap` are under `~Splay`, since the program
never calls `hashmap_splaymode()`; in the other mode `MoveToFront` leaves the old head in the table
and they would be false.

**LthreadCompute.**  None of the properties is inductive: that a pthread leaving its
loop strands nobody depends on who can be in its queue, which depends on the state
bits, which depend on where each scheduler is.  `IInv` writes that down list by list.
`ReadyOK`, `DeferOK`, `QueueOK`, `CurOK` and `CompOK` say of each place what an lthread
found there looks like (its state, its scheduler, its compute scheduler, that it is
there once and not in the place next to it); `StateOK` is the converse: from an
lthread's state and two pointers follows the one place where it must be.
`DoneOK` carries the test of `_lthread_sched_isdone`, and the fact that a member of
`defer` is on `busy` as well is why that test may ignore `defer`.  Three lemmas about
`Tail`, `Append` and one-element sequences carry membership and distinctness through
the list operations; `OnePlace` then follows from the two directions.

**Handoff.**  Under `IInv` each action is one step of `Handoff` or moves nothing it sees.
The steps that need the invariant: a pthread takes an lthread that is in no other's hands
(`QueueOK`, `CompOK`); a scheduler at the top of its loops has left every context
(`StateOK`); and when it ends nobody of it is away (`DoneFacts`, from the invariant of the
next state).

**SyncServer.**  `ServerInv` has the same two directions over more places: `ReadyOK`, `WaitingOK`,
`BusyOK`, `SleepingOK` say whom each list and tree may hold, `KeptOK` where each lthread
must be.  `FdOK` and `ConnOK` tie descriptors to handlers and connections, and `ArmedOK` ties
each waiter to a registration or to an event of the batch still to come; this last one is
why a number that was closed and given out again while a batch is half done wakes nobody else.
The lemmas `OneWait`, `WaiterFacts`, `WokenStep` and `WaitForStep` carry these through
every path that puts an lthread into the trees or takes it out.  `AnswersRequest` needs one more
invariant, `Asked`: the peer of a handler that is about to send has sent something or ended its stream.

**EQueue.**  `QueueInv` says who holds the lock in the middle of a push, and what `front`,
`rear`, `size` and `orgSize` are at each of its steps.  Lemmas about remainders
give the slots of a window that wraps, before and after the buffer doubles; with them each
action is shown to be a step of `Fifo` on `Items`, or none.

**LthreadApi, LthreadIo.**  `ApiInv` and `IoInv` again say what an lthread looks like in each
place, and the converse.  `JoinOK` is the part that is particular: while an lthread lives, its mark `lt_join`
names one that is in `lthread_join` for it and is not ready yet, which is why the code must
take the mark back when a join times out.  Between freeing a cancelled lthread and reading its
state, `buried` is the one name of a freed lthread that is left.
`MissedOK` links a worker's place, its queue and the signal still to be given.

**LthreadPoll.**  `TableOK` says that the keys of `waiting_multi` are the descriptors in the
arrays of those that wait, each under its owner, and that epoll has registered no other;
`ArrayOK` that the number beside an array is that of its descriptors that fired, zero until one
has; `ReadyOK` that the woken ones are in `sched->ready` once.  Neither half of the property is
inductive without the other: an event counts for the lthread it finds in the table, and must not
find one that an earlier event of the batch or a timeout has taken out.

**LthreadTimer.**  The bound in `WakesOnTime` needs to know why a key of the sleeping tree was
moved on: `SleeperOK` says that every microsecond between the end of a sleep and its key is past
or taken by another sleeper, so the shift is less than the number of sleepers; and how far the
clock may be ahead of a key at each step of `lthread_run`, and at each turn of the poll's loop, where
what signals have cost (`lost`) is added.  The two conversions of
`_lthread_poll` are lemmas about quotients and remainders.

**LthreadSocket.**  A byte is its number, so the buffer of a call that reads is a segment of the
stream, and the wire a segment of the message (`ReadOK`, `SendOK`).  For `lthread_writev`,
`WritevOK` says what the array is between two turns of its loop: from the entry at `index` on,
the bases follow on one another and begin where the wire ends.  What a 0 means (all is sent) needs
that the entries passed over are all behind it (`EmptyRest`).

**Queues, Elog, PropertyLine.**  `QueueOK` ties the links to a sequence through `Stop`: the head,
its items, NULL; `last` is the stop before the end, which is what `TAILQ_REMOVE` of the
last item must put right.  `LogOK` holds the descriptor table of the process against the
statics of `elog.c`: only the descriptor that the log names is the log's, and unless an `open`
failed after the close (`lost`), it is.  `LinesSplit` is a fact about every sequence of characters: lemmas say what the cut at
`#`, the split at the first `=` and the two ends of `trim_str` do to a segment of the line.

**HashMap.**  `TableInv` says that the links are acyclic chains with `prev` undoing `next`, and
that a row leads to exactly its nodes and to an end.  `AddHead` and `FreeNode` keep it by two lemmas about
reachability: a walk that never comes to the changed link is the same walk
(`SameMeets`), and a walk to a node that is taken out goes on with what came after it.  The walk is
one such chain over all rows (`After`), and its invariant is the property itself: what is ahead of
the cursor is what has not been returned.  A caller that removes the node it was given
takes one out that is behind the cursor, since `hashmap_findnext` has already moved on.

**SimpleSet.**  `SetOK` says that the nodes of a set are different, that each is where its lookup
ends (`Placed`), and that the counter, at most one over a quarter of the slots, is never below their
number, so that every lookup meets a free slot (`HasFree`, from the pigeonhole principle).  A
node stored where its lookup ended disturbs no other (`NodeAdded`).  A node taken out does, and
so does a larger array: what `__relayout_nodes` starts from is only `Loose`, different nodes
anywhere.  It ends because a move never lengthens the way of a lookup to its node and shortens
one (`Ahead`, a finite set that gets smaller, `MoveKeeps`, `PassesEnd`), and where a pass moves
nothing every node is placed.  Loops over arrays are recursive functions; `LoopRuns` builds the
states of such a loop and `SameLoop` says that the recursion gives no others, so that what a
loop computes is proved by induction over its turns, stated as a set of numbers (`AllNat`).

**HashSet.**  `HashOK` says that the two counters are those of the slots and that the probe of a
stored value comes to each of its slots before an empty one (`Reach`); with the load under the
threshold (`HashInv`) it is inductive.  Everything rests on `Stride`: in a table of 8 * 2^k slots the steps of
`prime_2` pass every slot, since 5009 is odd (`StrideOfEight`, then `StrideDoubles` from one size to the
next), so an empty slot anywhere stops every loop.  An item or a mark stored on a probe cuts no
other short (`StoreKeeps`), and counting the slots before and after a store (`CopiesMove`) gives the
counters.  The loop of `maybe_rehash` goes through tables without marks that hold each
value once (`Filling`), and is unrolled like those of `SimpleSet`.

**RbTree.**  `Holds` says that there are, for each pointer, the set `sub` of what hangs below it and
the number `bh` of black elements on a way down from it, with every link as these want
it: one link up for every link down and the other way round, smaller elements on the left, `bh`
equal on both sides, no red child of a red element, a black root, and nothing left in an
element that is not in the tree (`Forest`, `Heights`, `Reds`).  These are local conditions, so `Rotate` can be
shown to keep the first of them (`Rotated`) and to change the others at two elements only.  The two
fix-ups go through states that are almost such trees.  In `Inserting` the red element
`e` may have a red parent, and nowhere else is anything wrong; in `Removing` the ways through
one side of one element lack a black one, which each turn of `RB_REMOVE_COLOR` moves up,
pays from the colours of the sibling and its children, or ends.  Both loops end because what is below `e` gets
larger.  `RB_REMOVE` of an element with two children puts its successor in its place:
that is the tree with the two renamed (`Image`) and the other one taken out.  Each walk of the lookups is
bounded by the set below its pointer, and `NotPassed` says where its answer can still be.

**CfuHash.**  `Holding` says that a table holds a function `f`: each bucket is a chain of exactly
the keys of `f` that hash to it at the present number of buckets, once each, with
their data (`Spread`, `Chained`).  It is not enough that every entry is somewhere: that lookups find it after a rehash rests on
the entries being put one by one where the new mask sends them (`Respread`).  Calls are lemmas about `f`:
`PutIs`, `DeleteIs`, `CopyIs`.  The count must be in the invariant,
because `cfuhash_keys_data` returns at most `entries` keys and a resize trusts it.
For the iteration, `Passed` is the set of keys that the cursor has left behind; a call adds one that is not in it,
until there is none (`NextIs`).

**SyncAgent.**  `Reading` says that between two turns of `property_read` the configuration says
what the lines so far say (`ConfigSays`), or that a line was refused and the loop is over without a
result.  A turn (`LineRead`) needs of the handler what it sets and that it leaves the fields of
other keys alone (`ItemIsSet`), since a line keeps its say until a later one of its key.
The lists go through the loops that `SimpleSet` was proved by (`AddAllKeysOK`); for the map of hosts
`MapOK` takes the hashmap with its data blanked out, because links do not depend on what
the nodes hold: so the lemmas of **HashMap** give the map of sets too (`EntryOK`, `SubscribeMapOK`).
An addition that fails may leave its name out and no other, which `short` remembers from the
lines before (`IsBetween`).  The log and the streams are facts of each program counter (`Logging`, `Streams`).

What the proofs changed in the models: `WakesOnTime` was not provable because `late` kept
the value of an earlier sleep; `lthread_sleep` now resets it.  `writev` was one action with a
recursive cut of its array and is now the loop of the code, turn by turn; `HashMap` was recursive
and could hold links to freed nodes; `SimpleSet` was recursive, and took the second operand of
the algebra in one layout only.  The loop of `HashSet`'s rehash was a fold, and
so were the list handlers in `SyncAgent`; `ConfigIsFile` did not say that a field whose key has no
line keeps its first value.  `RbTree` and `CfuHash` used recursive operators and folds for their loops
and now take them turn by turn, as the code does; a rehash sorted the entries into their buckets at once, and
`cfuhash_copy` put entries that it had not looked up.

**Only model-checked.**  Liveness (`HandoffReturns`, `AllExit`, `Served`, `Accepted`), which is
out of the prover's reach, and `NearestPrimeSound` (the tables of primes: for every size it
would be a statement about the gaps between primes up to 2^27).

## 6. Not modelled, and why

* `lthread_kqueue.c` is not compiled on Linux; `lthread_sendfile` is for FreeBSD.
* `sync_client.c` prints a line and `sync_server_watch` is empty in the source; `path_ip_set`
  is created and deleted and nothing is ever put in it.
* Context switching (the assembly of `_switch`), stacks and `madvise`: a coroutine is
  a name that is run or not.  The set-up of a scheduler (`sched_create`, `_sched_free`) and
  of the poller are allocations and system calls in a row.
* `lthread_freeze`, `lthread_unfreeze`, `split_url`, `str_cmp`, `hashmap_delete`,
  `set_to_array`, `cfuhash_foreach_remove`, the iterator of `hashset.c`, the splay tree, SLIST and
  STAILQ macros: no caller.  The locks of `cfuhash.c`: its one table belongs to one pthread.
* `eother.c` (files, addresses, time) and `ememory.c`: pure I/O and a wrapper of `malloc`.
* Formatting and the text of log lines, in `esyslog.c` with its table of months; lines of a
  configuration file longer than the buffer of `property_read`.
* Several schedulers that share the io workers: `io_selector` is then a race, listed as a
  hazard without a property.  Connections in such numbers that step 2 of `lthread_run` does not end
  before descriptors do.
  The index error of `pths[]`, `MAX_QUEUE_SIZE`, which nothing reads, and the buffer of a
  list element in `sync_config.c`, one byte short: the models have no state that could say
  anything about them.

## 7. Plan

Done: every component that the agent runs, the runtime library's calls that have no caller
in the agent, proofs for each of the concurrent parts, and proofs for the parts that run in
one thread but the prime table.  What is left, in this order:

1. `SyncServer` over `Handoff`: its `Away` and `LogDone` replaced by the actions of
   `Handoff`, so that the end of a scheduler is shown for both together.
2. Several schedulers in `LthreadIo`, with `io_selector` advanced in two steps.
3. `LthreadTimer` joined with `LthreadApi`: deadlines that are times, and the order in which
   they expire.
