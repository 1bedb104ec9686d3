------------------------------- MODULE Handoff -------------------------------
(***************************************************************************)
(* What lthread_compute_begin() and lthread_compute_end() promise          *)
(* lthread_log() (src/src/agent/sync_agent.c:90-117): an lthread leaves    *)
(* its scheduler, its line is written by a pthread that has the lthread to *)
(* itself, and the lthread comes back to the scheduler it left, in the     *)
(* order in which the lines were written.  Queues of requests, the list of *)
(* pthreads, their flags, signals and timeouts are the business of         *)
(* LthreadCompute, which is shown to implement this module.                *)
(***************************************************************************)
EXTENDS Naturals, Sequences

CONSTANTS Scheds, Lthreads, None, Root

VARIABLES
  stage,  \* where each lthread is in its life and in a hand-off
  home,   \* the scheduler it was created on
  back,   \* the lthreads given back to each scheduler, oldest first
  on,     \* the lthread each scheduler runs, or None
  over    \* the schedulers whose lthread_run() has ended

vars == <<stage, home, back, on, over>>

Stages == {"none", "home", "leaving", "asked", "writing", "gone"}

Init ==
  /\ stage = [lt \in Lthreads |->
                IF \E s \in Scheds : Root[s] = lt THEN "home" ELSE "none"]
  /\ home = [lt \in Lthreads |-> IF \E s \in Scheds : Root[s] = lt
                                 THEN CHOOSE s \in Scheds : Root[s] = lt
                                 ELSE None]
  /\ back = [s \in Scheds |-> <<>>]
  /\ on = [s \in Scheds |-> None]
  /\ over = {}

(* A scheduler may run another lthread: it runs none, and has got out of    *)
(* the context of the last one that left.                                   *)
Between(s) ==
  /\ on[s] = None
  /\ s \notin over
  /\ \A lt \in Lthreads : stage[lt] = "leaving" => home[lt] # s

Run(s, lt) ==
  /\ Between(s)
  /\ stage[lt] = "home" /\ home[lt] = s
  /\ \A i \in 1..Len(back[s]) : back[s][i] # lt
  /\ on' = [on EXCEPT ![s] = lt]
  /\ UNCHANGED <<stage, home, back, over>>

New(s, lt) ==
  /\ on[s] = Root[s]
  /\ stage[lt] = "none"
  /\ stage' = [stage EXCEPT ![lt] = "home"]
  /\ home' = [home EXCEPT ![lt] = s]
  /\ UNCHANGED <<back, on, over>>

(* lthread_log(): the lthread asks for a pthread; its scheduler still has   *)
(* to leave its context, and only then may the line be written.             *)
Leave(s, lt) ==
  /\ on[s] = lt
  /\ stage' = [stage EXCEPT ![lt] = "leaving"]
  /\ on' = [on EXCEPT ![s] = None]
  /\ UNCHANGED <<home, back, over>>

Move(lt, from, to) ==
  /\ stage[lt] = from
  /\ stage' = [stage EXCEPT ![lt] = to]
  /\ UNCHANGED <<home, back, on, over>>

Left(lt) == Move(lt, "leaving", "asked")
Write(lt) == Move(lt, "asked", "writing")

Return(lt) ==
  /\ stage[lt] = "writing"
  /\ stage' = [stage EXCEPT ![lt] = "home"]
  /\ back' = [back EXCEPT ![home[lt]] = Append(@, lt)]
  /\ UNCHANGED <<home, on, over>>

Take(s) ==
  /\ Between(s)
  /\ back[s] # <<>>
  /\ back' = [back EXCEPT ![s] = Tail(@)]
  /\ on' = [on EXCEPT ![s] = Head(back[s])]
  /\ UNCHANGED <<stage, home, over>>

End(s, lt) ==
  /\ on[s] = lt
  /\ stage' = [stage EXCEPT ![lt] = "gone"]
  /\ on' = [on EXCEPT ![s] = None]
  /\ UNCHANGED <<home, back, over>>

(* A scheduler ends when nobody can come back to it any more. *)
Over(s) ==
  /\ Between(s)
  /\ \A lt \in Lthreads : home[lt] = s => stage[lt] \in {"none", "gone"}
  /\ over' = over \cup {s}
  /\ UNCHANGED <<stage, home, back, on>>

Next ==
  \/ \E s \in Scheds : Take(s) \/ Over(s)
  \/ \E s \in Scheds, lt \in Lthreads :
       Run(s, lt) \/ New(s, lt) \/ Leave(s, lt) \/ End(s, lt)
  \/ \E lt \in Lthreads : Left(lt) \/ Write(lt) \/ Return(lt)

Spec == Init /\ [][Next]_vars
=============================================================================
