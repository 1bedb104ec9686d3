---------------------------- MODULE MCRuntime ----------------------------
(* The calls of an lthread, the io workers, lthread_poll(), the socket calls *)
(* and the times of sleeps, and the queue of equeue.c with its two callers,  *)
(* side by side: a behaviour is one of a part, the others keep their first   *)
(* state.  Init, Next and vars are those of the queue.                       *)
EXTENDS EQueue, LthreadApi, LthreadIo, LthreadPoll, LthreadSocket, LthreadTimer, TLC

VARIABLE part     \* the part that moves

MCFdsOf == [x \in Pollers |-> IF x = 1 THEN {1, 2} ELSE {3}]

(* The array whose entries have the lengths lens, one behind another. *)
IovOf(lens) ==
  LET before[k \in 1..Len(lens)] == IF k = 1 THEN 0 ELSE before[k - 1] + lens[k - 1]
  IN [k \in DOMAIN lens |-> [base |-> before[k], len |-> lens[k]]]

(* One entry, several, empty ones between and at an end. *)
MCIovs == {IovOf(lens) : lens \in {<<2>>, <<1, 2>>, <<0, 2, 1>>, <<2, 0, 2>>, <<1, 0>>}}

(* The callers of the queue and its data are interchangeable. *)
MCSymmetry == Permutations(Threads) \cup Permutations(Data)

queueVars == vars

RuntimeInit ==
  /\ part \in {"queue", "api", "io", "poll", "socket", "timer"}
  /\ Init /\ ApiInit /\ IoInit /\ PollInit /\ SockInit /\ TimerInit

RuntimeNext ==
  \/ part = "queue" /\ Next /\ UNCHANGED <<part, apiVars, ioVars, pollVars, sockVars, timerVars>>
  \/ part = "api" /\ ApiNext /\ UNCHANGED <<part, queueVars, ioVars, pollVars, sockVars, timerVars>>
  \/ part = "io" /\ IoNext /\ UNCHANGED <<part, queueVars, apiVars, pollVars, sockVars, timerVars>>
  \/ part = "poll" /\ PollNext /\ UNCHANGED <<part, queueVars, apiVars, ioVars, sockVars, timerVars>>
  \/ part = "socket" /\ SockNext /\ UNCHANGED <<part, queueVars, apiVars, ioVars, pollVars, timerVars>>
  \/ part = "timer" /\ TimerNext /\ UNCHANGED <<part, queueVars, apiVars, ioVars, pollVars, sockVars>>

runtimeVars == <<part, queueVars, apiVars, ioVars, pollVars, sockVars, timerVars>>

RuntimeSpec == RuntimeInit /\ [][RuntimeNext]_runtimeVars
=============================================================================
