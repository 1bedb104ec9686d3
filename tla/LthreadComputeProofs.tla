------------------------ MODULE LthreadComputeProofs ------------------------
(***************************************************************************)
(* Proofs about LthreadCompute, for any number of schedulers, lthreads,    *)
(* compute pthreads and log lines.  TypeOK and the safety properties are   *)
(* not inductive by themselves: where an lthread may be depends on its     *)
(* state bits, its scheduler and its compute scheduler.  IInv says how,    *)
(* list by list; one lemma per action shows that it is kept, and the       *)
(* properties follow from it.                                              *)
(***************************************************************************)
EXTENDS LthreadCompute, TLAPS

InSeq(x, q) == \E i \in 1..Len(q) : q[i] = x
Distinct(q) == \A i, j \in 1..Len(q) : q[i] = q[j] => i = j

(* The lthread in a scheduler's hands, by what the pthread does with it. *)
CurOK ==
  \A s \in Scheds :
    /\ spc[s] \in {"run", "add", "signal"} =>
         cur[s] \in Lthreads /\ lsched[cur[s]] = s
    /\ spc[s] = "run" => state[cur[s]] = "idle"
    /\ spc[s] = "add" => state[cur[s]] = "PENDING_RUNCOMPUTE"
    /\ spc[s] = "signal" => state[cur[s]] # "unborn" /\ lcomp[cur[s]] \in Comps

(* Members of sched->ready. *)
ReadyOK ==
  \A s \in Scheds :
    /\ Distinct(ready[s])
    /\ \A x \in Lthreads : InSeq(x, ready[s]) =>
         /\ lsched[x] = s
         /\ state[x] = "idle"
         /\ ~RunsOnSched(s, x)
         /\ ~InSeq(x, defer[s])

(* Members of sched->defer are on sched->busy too. *)
DeferOK ==
  \A s \in Scheds :
    /\ Distinct(defer[s])
    /\ \A x \in Lthreads : InSeq(x, defer[s]) =>
         /\ lsched[x] = s
         /\ state[x] = "idle"
         /\ ~RunsOnSched(s, x)
         /\ x \in busy[s]

(* Members of compute_sched->lthreads: one of the two bits is set. *)
QueueOK ==
  \A c \in Comps :
    /\ Distinct(cq[c])
    /\ \A x \in Lthreads : InSeq(x, cq[c]) =>
         /\ lcomp[x] = c
         /\ state[x] \in {"PENDING_RUNCOMPUTE", "RUNCOMPUTE"}
         /\ ~HeldByComp(c, x)
         /\ c \in cscheds

(* The lthread in a compute pthread's hands; a listed pthread exists. *)
CompOK ==
  \A c \in Comps :
    /\ cpc[c] # "none" <=> c \in cscheds
    /\ cpc[c] \in {"picked", "run", "requeue", "trigger"} =>
         ccur[c] \in Lthreads /\ state[ccur[c]] # "unborn"
    /\ cpc[c] \in {"picked", "run", "requeue"} =>
         lcomp[ccur[c]] = c /\ state[ccur[c]] = "RUNCOMPUTE"

(* The converse: its state says where an lthread must be found. *)
KeptOK(x) ==
  /\ state[x] # "unborn" => lsched[x] \in Scheds
  /\ state[x] = "idle" =>
       \/ RunsOnSched(lsched[x], x)
       \/ InSeq(x, ready[lsched[x]])
       \/ InSeq(x, defer[lsched[x]])
  /\ state[x] \in {"PENDING_RUNCOMPUTE", "RUNCOMPUTE"} => lcomp[x] \in Comps
  /\ state[x] = "PENDING_RUNCOMPUTE" =>
       spc[lsched[x]] = "add" /\ cur[lsched[x]] = x /\ InSeq(x, cq[lcomp[x]])
  /\ state[x] = "RUNCOMPUTE" =>
       /\ InSeq(x, cq[lcomp[x]]) \/ HeldByComp(lcomp[x], x)
       /\ x \in busy[lsched[x]]

StateOK == \A x \in Lthreads : KeptOK(x)

DoneOK == \A s \in Scheds : spc[s] = "done" => busy[s] = {} /\ ready[s] = <<>>

IInv ==
  /\ TypeOK
  /\ CurOK
  /\ ReadyOK
  /\ DeferOK
  /\ QueueOK
  /\ CompOK
  /\ StateOK
  /\ DoneOK
  /\ NoLostTrigger

USE DEF RunsOnSched, HeldByComp

-----------------------------------------------------------------------------
(* Membership and distinctness through the three list operations.           *)

LEMMA EmptyFacts ==
  ASSUME NEW x
  PROVE  ~InSeq(x, <<>>) /\ Distinct(<<>>)
BY DEF InSeq, Distinct

LEMMA SingleFacts ==
  ASSUME NEW S, NEW y \in S
  PROVE  /\ <<y>> \in Seq(S)
         /\ \A x : InSeq(x, <<y>>) <=> x = y
         /\ Distinct(<<y>>)
BY DEF InSeq, Distinct

LEMMA TailFacts ==
  ASSUME NEW S, NEW q \in Seq(S), q # <<>>
  PROVE  /\ Head(q) \in S
         /\ Tail(q) \in Seq(S)
         /\ InSeq(Head(q), q)
         /\ \A x : InSeq(x, q) <=> x = Head(q) \/ InSeq(x, Tail(q))
         /\ Distinct(q) => Distinct(Tail(q)) /\ ~InSeq(Head(q), Tail(q))
BY DEF InSeq, Distinct

LEMMA AppendFacts ==
  ASSUME NEW S, NEW q \in Seq(S), NEW y \in S
  PROVE  /\ Append(q, y) \in Seq(S)
         /\ Append(q, y) # <<>>
         /\ \A x : InSeq(x, Append(q, y)) <=> x = y \/ InSeq(x, q)
         /\ Distinct(q) /\ ~InSeq(y, q) => Distinct(Append(q, y))
BY DEF InSeq, Distinct

-----------------------------------------------------------------------------
(* The scheduler pthread: one lemma for each action.                        *)

LEMMA TopStep ==
  ASSUME IInv, NEW s \in Scheds, Top(s)
  PROVE  IInv'
<1> USE DEF IInv, Top, schedVars, sharedVars, lthreadVars, compVars
<1>1. TypeOK' BY DEF TypeOK, SchedPcs, CompPcs, States
<1>2. CurOK' BY DEF TypeOK, CurOK
<1>3. ReadyOK' BY DEF TypeOK, ReadyOK
<1>4. DeferOK' BY DEF TypeOK, DeferOK
<1>5. QueueOK' BY DEF TypeOK, QueueOK
<1>6. CompOK' BY DEF TypeOK, CompPcs, CompOK
<1>7. StateOK' BY DEF TypeOK, KeptOK, States, StateOK
<1>8. DoneOK' BY DEF TypeOK, DoneOK
<1>9. NoLostTrigger' BY DEF TypeOK, NoLostTrigger
<1> QED BY <1>1, <1>2, <1>3, <1>4, <1>5, <1>6, <1>7, <1>8, <1>9

(* The head of ready, which is nowhere else, becomes the running lthread. *)
LEMMA ReadyResumeStep ==
  ASSUME IInv, NEW s \in Scheds, ReadyResume(s)
  PROVE  IInv'
<1> USE DEF IInv, ReadyResume, schedVars, sharedVars, lthreadVars, compVars
<1>a. ready[s] \in Seq(Lthreads) /\ ready[s] # <<>>
  BY DEF TypeOK
<1>b. /\ Head(ready[s]) \in Lthreads
      /\ Tail(ready[s]) \in Seq(Lthreads)
      /\ InSeq(Head(ready[s]), ready[s])
      /\ \A x : InSeq(x, ready[s]) <=> x = Head(ready[s]) \/ InSeq(x, Tail(ready[s]))
      /\ Distinct(ready[s]) =>
           Distinct(Tail(ready[s])) /\ ~InSeq(Head(ready[s]), Tail(ready[s]))
  BY <1>a, TailFacts
<1>1. TypeOK' BY <1>b DEF TypeOK, SchedPcs, CompPcs, States
<1>2. CurOK' BY <1>b DEF TypeOK, CurOK, ReadyOK
<1>3. ReadyOK' BY <1>b DEF TypeOK, ReadyOK
<1>4. DeferOK' BY <1>b DEF TypeOK, DeferOK, ReadyOK
<1>5. QueueOK' BY DEF TypeOK, QueueOK
<1>6. CompOK' BY DEF TypeOK, CompPcs, CompOK
<1>7. StateOK' BY <1>b DEF TypeOK, KeptOK, States, StateOK
<1>8. DoneOK' BY <1>b DEF TypeOK, DoneOK
<1>9. NoLostTrigger' BY DEF TypeOK, NoLostTrigger
<1> QED BY <1>1, <1>2, <1>3, <1>4, <1>5, <1>6, <1>7, <1>8, <1>9

LEMMA ReadyEmptyStep ==
  ASSUME IInv, NEW s \in Scheds, ReadyEmpty(s)
  PROVE  IInv'
<1> USE DEF IInv, ReadyEmpty, schedVars, sharedVars, lthreadVars, compVars
<1>1. TypeOK' BY DEF TypeOK, SchedPcs, CompPcs, States
<1>2. CurOK' BY DEF TypeOK, CurOK
<1>3. ReadyOK' BY DEF TypeOK, ReadyOK
<1>4. DeferOK' BY DEF TypeOK, DeferOK
<1>5. QueueOK' BY DEF TypeOK, QueueOK
<1>6. CompOK' BY DEF TypeOK, CompPcs, CompOK
<1>7. StateOK' BY DEF TypeOK, KeptOK, States, StateOK
<1>8. DoneOK' BY DEF TypeOK, DoneOK
<1>9. NoLostTrigger' BY DEF TypeOK, NoLostTrigger
<1> QED BY <1>1, <1>2, <1>3, <1>4, <1>5, <1>6, <1>7, <1>8, <1>9

(* The head of defer leaves the busy list too; nobody else does. *)
LEMMA DeferResumeStep ==
  ASSUME IInv, NEW s \in Scheds, DeferResume(s)
  PROVE  IInv'
<1> USE DEF IInv, DeferResume, schedVars, sharedVars, lthreadVars, compVars
<1>a. defer[s] \in Seq(Lthreads) /\ defer[s] # <<>>
  BY DEF TypeOK
<1>b. /\ Head(defer[s]) \in Lthreads
      /\ Tail(defer[s]) \in Seq(Lthreads)
      /\ InSeq(Head(defer[s]), defer[s])
      /\ \A x : InSeq(x, defer[s]) <=> x = Head(defer[s]) \/ InSeq(x, Tail(defer[s]))
      /\ Distinct(defer[s]) =>
           Distinct(Tail(defer[s])) /\ ~InSeq(Head(defer[s]), Tail(defer[s]))
  BY <1>a, TailFacts
<1>1. TypeOK' BY <1>b DEF TypeOK, SchedPcs, CompPcs, States
<1>2. CurOK' BY <1>b DEF TypeOK, CurOK, DeferOK
<1>3. ReadyOK' BY <1>b DEF TypeOK, ReadyOK
<1>4. DeferOK' BY <1>b DEF TypeOK, DeferOK
<1>5. QueueOK' BY DEF TypeOK, QueueOK
<1>6. CompOK' BY DEF TypeOK, CompPcs, CompOK
<1>7. StateOK' BY <1>b DEF TypeOK, KeptOK, States, StateOK, DeferOK
<1>8. DoneOK' BY DEF TypeOK, DoneOK
<1>9. NoLostTrigger' BY <1>b DEF TypeOK, NoLostTrigger
<1> QED BY <1>1, <1>2, <1>3, <1>4, <1>5, <1>6, <1>7, <1>8, <1>9

LEMMA DeferEmptyStep ==
  ASSUME IInv, NEW s \in Scheds, DeferEmpty(s)
  PROVE  IInv'
<1> USE DEF IInv, DeferEmpty, schedVars, sharedVars, lthreadVars, compVars
<1>1. TypeOK' BY DEF TypeOK, SchedPcs, CompPcs, States
<1>2. CurOK' BY DEF TypeOK, CurOK
<1>3. ReadyOK' BY DEF TypeOK, ReadyOK
<1>4. DeferOK' BY DEF TypeOK, DeferOK
<1>5. QueueOK' BY DEF TypeOK, QueueOK
<1>6. CompOK' BY DEF TypeOK, CompPcs, CompOK
<1>7. StateOK' BY DEF TypeOK, KeptOK, States, StateOK
<1>8. DoneOK' BY DEF TypeOK, DoneOK
<1>9. NoLostTrigger' BY DEF TypeOK, NoLostTrigger
<1> QED BY <1>1, <1>2, <1>3, <1>4, <1>5, <1>6, <1>7, <1>8, <1>9

LEMMA PollEventStep ==
  ASSUME IInv, NEW s \in Scheds, PollEvent(s)
  PROVE  IInv'
<1> USE DEF IInv, PollEvent, schedVars, sharedVars, lthreadVars, compVars
<1>1. TypeOK' BY DEF TypeOK, SchedPcs, CompPcs, States
<1>2. CurOK' BY DEF TypeOK, CurOK
<1>3. ReadyOK' BY DEF TypeOK, ReadyOK
<1>4. DeferOK' BY DEF TypeOK, DeferOK
<1>5. QueueOK' BY DEF TypeOK, QueueOK
<1>6. CompOK' BY DEF TypeOK, CompPcs, CompOK
<1>7. StateOK' BY DEF TypeOK, KeptOK, States, StateOK
<1>8. DoneOK' BY DEF TypeOK, DoneOK
<1>9. NoLostTrigger' BY DEF TypeOK, NoLostTrigger
<1> QED BY <1>1, <1>2, <1>3, <1>4, <1>5, <1>6, <1>7, <1>8, <1>9

LEMMA PollTimeoutStep ==
  ASSUME IInv, NEW s \in Scheds, PollTimeout(s)
  PROVE  IInv'
<1> USE DEF IInv, PollTimeout, schedVars, sharedVars, lthreadVars, compVars
<1>1. TypeOK' BY DEF TypeOK, SchedPcs, CompPcs, States
<1>2. CurOK' BY DEF TypeOK, CurOK
<1>3. ReadyOK' BY DEF TypeOK, ReadyOK
<1>4. DeferOK' BY DEF TypeOK, DeferOK
<1>5. QueueOK' BY DEF TypeOK, QueueOK
<1>6. CompOK' BY DEF TypeOK, CompPcs, CompOK
<1>7. StateOK' BY DEF TypeOK, KeptOK, States, StateOK
<1>8. DoneOK' BY DEF TypeOK, DoneOK
<1>9. NoLostTrigger' BY DEF TypeOK, NoLostTrigger
<1> QED BY <1>1, <1>2, <1>3, <1>4, <1>5, <1>6, <1>7, <1>8, <1>9

LEMMA ClearTriggerStep ==
  ASSUME IInv, NEW s \in Scheds, ClearTrigger(s)
  PROVE  IInv'
<1> USE DEF IInv, ClearTrigger, schedVars, sharedVars, lthreadVars, compVars
<1>1. TypeOK' BY DEF TypeOK, SchedPcs, CompPcs, States
<1>2. CurOK' BY DEF TypeOK, CurOK
<1>3. ReadyOK' BY DEF TypeOK, ReadyOK
<1>4. DeferOK' BY DEF TypeOK, DeferOK
<1>5. QueueOK' BY DEF TypeOK, QueueOK
<1>6. CompOK' BY DEF TypeOK, CompPcs, CompOK
<1>7. StateOK' BY DEF TypeOK, KeptOK, States, StateOK
<1>8. DoneOK' BY DEF TypeOK, DoneOK
<1>9. NoLostTrigger' BY DEF TypeOK, NoLostTrigger
<1> QED BY <1>1, <1>2, <1>3, <1>4, <1>5, <1>6, <1>7, <1>8, <1>9

-----------------------------------------------------------------------------
(* The running lthread.                                                     *)

(* A new lthread goes to ready; it was nowhere before. *)
LEMMA CreateStep ==
  ASSUME IInv, NEW s \in Scheds, NEW lt \in Lthreads, Create(s, lt)
  PROVE  IInv'
<1> USE DEF IInv, Create, schedVars, sharedVars, lthreadVars, compVars
<1>a. ready[s] \in Seq(Lthreads)
  BY DEF TypeOK
<1>b. /\ Append(ready[s], lt) \in Seq(Lthreads)
      /\ \A x : InSeq(x, Append(ready[s], lt)) <=> x = lt \/ InSeq(x, ready[s])
      /\ Distinct(ready[s]) /\ ~InSeq(lt, ready[s]) =>
           Distinct(Append(ready[s], lt))
  BY <1>a, AppendFacts
<1>1. TypeOK' BY <1>b DEF TypeOK, SchedPcs, CompPcs, States
<1>2. CurOK' BY DEF TypeOK, CurOK
<1>3. ReadyOK' BY <1>b DEF TypeOK, ReadyOK, DeferOK, CurOK
<1>4. DeferOK' BY DEF TypeOK, DeferOK
<1>5. QueueOK' BY DEF TypeOK, QueueOK
<1>6. CompOK' BY DEF TypeOK, CompOK, CompPcs
<1>7. StateOK'
  <2> SUFFICES ASSUME NEW x \in Lthreads PROVE KeptOK(x)'
    BY DEF StateOK
  <2>0. KeptOK(x)
    BY DEF StateOK
  <2>1. CASE x = lt
    BY <1>b, <2>1 DEF TypeOK, KeptOK, States
  <2>2. CASE x # lt
    BY <1>b, <2>0, <2>2 DEF TypeOK, KeptOK
  <2> QED BY <2>1, <2>2
<1>8. DoneOK' BY DEF TypeOK, DoneOK
<1>9. NoLostTrigger' BY DEF TypeOK, CompOK, NoLostTrigger
<1> QED BY <1>1, <1>2, <1>3, <1>4, <1>5, <1>6, <1>7, <1>8, <1>9

(* The lthread freed is the running one, so it is in no list. *)
LEMMA ExitStep ==
  ASSUME IInv, NEW s \in Scheds, Exit(s)
  PROVE  IInv'
<1> USE DEF IInv, Exit, schedVars, sharedVars, lthreadVars, compVars
<1>b. cur[s] \in Lthreads /\ spc'[s] \in {"ready", "defer"}
  BY DEF TypeOK, CurOK
<1>1. TypeOK' BY <1>b DEF TypeOK, SchedPcs, CompPcs, States
<1>2. CurOK' BY <1>b DEF TypeOK, CurOK
<1>3. ReadyOK' BY <1>b DEF TypeOK, ReadyOK, CurOK
<1>4. DeferOK' BY <1>b DEF TypeOK, DeferOK, CurOK
<1>5. QueueOK' BY <1>b DEF TypeOK, QueueOK, CurOK
<1>6. CompOK' BY <1>b DEF TypeOK, CompPcs, CompOK, CurOK
<1>7. StateOK'
  <2> SUFFICES ASSUME NEW x \in Lthreads PROVE KeptOK(x)'
    BY DEF StateOK
  <2>0. KeptOK(x)
    BY DEF StateOK
  <2>1. CASE x = cur[s]
    BY <1>b, <2>0, <2>1 DEF TypeOK, CurOK, KeptOK
  <2>2. CASE x # cur[s]
    BY <1>b, <2>0, <2>2 DEF TypeOK, States, KeptOK
  <2> QED BY <2>1, <2>2
<1>8. DoneOK' BY <1>b DEF TypeOK, DoneOK
<1>9. NoLostTrigger' BY <1>b, ZenonT(60) DEF TypeOK, NoLostTrigger
<1> QED BY <1>1, <1>2, <1>3, <1>4, <1>5, <1>6, <1>7, <1>8, <1>9

(* lthread_compute_begin() with any compute scheduler c that is listed, or is *)
(* listed by the same step: the running lthread is now queued at c only.     *)
LEMMA HandOverStep ==
  ASSUME IInv, NEW s \in Scheds, NEW c \in Comps, MayLog(s), HandOver(s, c),
         cscheds' = cscheds \cup {c},
         cst' \in [Comps -> {"BUSY", "FREE"}],
         cpc' = [cpc EXCEPT ![c] = IF @ = "none" THEN "loop" ELSE @]
  PROVE  IInv'
<1> USE DEF IInv, MayLog, HandOver, schedVars, sharedVars, lthreadVars, compVars
<1> DEFINE lt == cur[s]
<1>a. lt \in Lthreads /\ lsched[lt] = s /\ state[lt] = "idle" /\ cq[c] \in Seq(Lthreads)
  BY DEF TypeOK, CurOK
<1>b. /\ Append(cq[c], lt) \in Seq(Lthreads)
      /\ \A x : InSeq(x, Append(cq[c], lt)) <=> x = lt \/ InSeq(x, cq[c])
      /\ Distinct(cq[c]) /\ ~InSeq(lt, cq[c]) => Distinct(Append(cq[c], lt))
  BY <1>a, AppendFacts
<1>c. /\ cpc' \in [Comps -> CompPcs]
      /\ \A d \in Comps : cpc[d] # "none" => cpc'[d] = cpc[d]
      /\ \A d \in Comps : cpc[d] = "none" => cpc'[d] \in {"none", "loop"}
      /\ \A d \in Comps : cpc'[d] # "none" <=> d \in cscheds'
  <2>1. cpc \in [Comps -> CompPcs] /\ cscheds \in SUBSET Comps
    BY DEF TypeOK
  <2>2. cpc'[c] # "none" /\ \A d \in Comps : d # c => cpc'[d] = cpc[d]
    BY <2>1
  <2>3. cpc' \in [Comps -> CompPcs]
    BY <2>1 DEF CompPcs
  <2>4. /\ cpc[c] # "none" => cpc'[c] = cpc[c]
        /\ cpc[c] = "none" => cpc'[c] = "loop"
    BY <2>1
  <2> QED BY <2>2, <2>3, <2>4 DEF CompOK
<1>1. TypeOK'
  <2>1. logs' \in [Lthreads -> 0..MaxLogs]
    BY <1>a, MaxLogsAssumption DEF TypeOK
  <2> QED BY <1>a, <1>b, <1>c, <2>1 DEF TypeOK, SchedPcs, States
<1>2. CurOK' BY <1>a DEF TypeOK, CurOK
<1>3. ReadyOK' BY <1>a DEF TypeOK, ReadyOK
<1>4. DeferOK' BY <1>a DEF TypeOK, DeferOK
<1>5. QueueOK'
  <2>1. \A d \in Comps, x \in Lthreads : HeldByComp(d, x)' => HeldByComp(d, x)
    BY <1>c
  <2>2. ~InSeq(lt, cq[c]) /\ \A d \in Comps : ~HeldByComp(d, lt)
    BY <1>a DEF QueueOK, CompOK
  <2>3. Distinct(cq[c])' /\ \A x \in Lthreads : InSeq(x, cq[c])' =>
          /\ lcomp'[x] = c
          /\ state'[x] \in {"PENDING_RUNCOMPUTE", "RUNCOMPUTE"}
          /\ ~HeldByComp(c, x)'
          /\ c \in cscheds'
    BY <1>a, <1>b, <2>1, <2>2 DEF TypeOK, QueueOK
  <2>4. ASSUME NEW d \in Comps, d # c
        PROVE  cq'[d] = cq[d] /\ ~InSeq(lt, cq[d])
    <3>1. cq'[d] = cq[d]
      BY <2>4 DEF TypeOK
    <3>2. ~InSeq(lt, cq[d])
      BY <1>a DEF QueueOK
    <3> QED BY <3>1, <3>2
  <2> QED BY <1>a, <2>1, <2>3, <2>4 DEF TypeOK, QueueOK
<1>6. CompOK' BY <1>a, <1>c DEF TypeOK, CompOK
<1>7. StateOK'
  <2> SUFFICES ASSUME NEW x \in Lthreads PROVE KeptOK(x)'
    BY DEF StateOK
  <2>0. KeptOK(x)
    BY DEF StateOK
  <2>1. CASE x = lt
    BY <1>a, <1>b, <2>1 DEF TypeOK, KeptOK, States
  <2>2. CASE x # lt
    BY <1>a, <1>b, <1>c, <2>0, <2>2 DEF TypeOK, KeptOK
  <2> QED BY <2>1, <2>2
<1>8. DoneOK' BY DEF TypeOK, DoneOK
<1>9. NoLostTrigger'
  <2>1. \A d \in Comps : cpc[d] = "trigger" => cpc'[d] = "trigger"
    BY <1>c
  <2>2. \A t \in Scheds : spc'[t] = "poll" => spc[t] = "poll"
    BY DEF TypeOK
  <2> QED BY <2>1, <2>2 DEF NoLostTrigger
<1> QED BY <1>1, <1>2, <1>3, <1>4, <1>5, <1>6, <1>7, <1>8, <1>9

LEMMA BeginStep ==
  ASSUME IInv, NEW s \in Scheds,
         BeginFree(s) \/ BeginNew(s) \/ BeginShared(s)
  PROVE  IInv'
<1>a. cst \in [Comps -> {"BUSY", "FREE"}] /\ cpc \in [Comps -> CompPcs]
  BY DEF IInv, TypeOK
<1>b. ASSUME NEW c \in cscheds, MayLog(s), HandOver(s, c),
             UNCHANGED <<cscheds, cst, cpc>>
      PROVE  IInv'
  <2>1. c \in Comps /\ cpc[c] # "none"
    BY DEF IInv, TypeOK, CompOK
  <2>2. cscheds' = cscheds \cup {c} /\ cst' \in [Comps -> {"BUSY", "FREE"}]
    BY <1>a, <1>b
  <2>3. cpc' = [cpc EXCEPT ![c] = IF @ = "none" THEN "loop" ELSE @]
    BY <1>a, <1>b, <2>1
  <2> QED BY <1>b, <2>1, <2>2, <2>3, HandOverStep
<1>1. CASE BeginFree(s)
  BY <1>b, <1>1 DEF BeginFree, FreeComps
<1>2. CASE BeginNew(s)
  <2> PICK c \in Comps : /\ cpc[c] = "none"
                         /\ HandOver(s, c)
                         /\ cscheds' = cscheds \cup {c}
                         /\ cst' = [cst EXCEPT ![c] = "BUSY"]
                         /\ cpc' = [cpc EXCEPT ![c] = "loop"]
    BY <1>2 DEF BeginNew
  <2>1. MayLog(s)
    BY <1>2 DEF BeginNew
  <2>2. cst' \in [Comps -> {"BUSY", "FREE"}]
    BY <1>a
  <2>3. cpc' = [cpc EXCEPT ![c] = IF @ = "none" THEN "loop" ELSE @]
    BY <1>a
  <2> QED BY <2>1, <2>2, <2>3, HandOverStep
<1>3. CASE BeginShared(s)
  BY <1>b, <1>3 DEF BeginShared
<1> QED BY <1>1, <1>2, <1>3

LEMMA BeginFailsStep ==
  ASSUME IInv, NEW s \in Scheds, BeginFails(s)
  PROVE  IInv'
<1> USE DEF IInv, BeginFails, schedVars, sharedVars, lthreadVars, compVars
<1>1. TypeOK' BY DEF TypeOK, SchedPcs, CompPcs, States
<1>2. CurOK' BY DEF TypeOK, CurOK
<1>3. ReadyOK' BY DEF TypeOK, ReadyOK
<1>4. DeferOK' BY DEF TypeOK, DeferOK
<1>5. QueueOK' BY DEF TypeOK, QueueOK
<1>6. CompOK' BY DEF TypeOK, CompPcs, CompOK
<1>7. StateOK' BY DEF TypeOK, KeptOK, States, StateOK
<1>8. DoneOK' BY DEF TypeOK, DoneOK
<1>9. NoLostTrigger' BY DEF TypeOK, NoLostTrigger
<1> QED BY <1>1, <1>2, <1>3, <1>4, <1>5, <1>6, <1>7, <1>8, <1>9

(* Only now may a compute pthread take the lthread. *)
LEMMA ComputeAddStep ==
  ASSUME IInv, NEW s \in Scheds, ComputeAdd(s)
  PROVE  IInv'
<1> USE DEF IInv, ComputeAdd, schedVars, sharedVars, lthreadVars, compVars
<1>1. TypeOK' BY DEF TypeOK, SchedPcs, CompPcs, States, CurOK
<1>2. CurOK' BY DEF TypeOK, CurOK, StateOK, KeptOK
<1>3. ReadyOK' BY DEF TypeOK, ReadyOK, CurOK
<1>4. DeferOK' BY DEF TypeOK, DeferOK, CurOK
<1>5. QueueOK' BY DEF TypeOK, QueueOK
<1>6. CompOK' BY DEF TypeOK, CompPcs, CompOK
<1>7. StateOK' BY DEF TypeOK, KeptOK, States, StateOK, CurOK
<1>8. DoneOK' BY DEF TypeOK, DoneOK
<1>9. NoLostTrigger' BY DEF TypeOK, NoLostTrigger
<1> QED BY <1>1, <1>2, <1>3, <1>4, <1>5, <1>6, <1>7, <1>8, <1>9

LEMMA ComputeSignalStep ==
  ASSUME IInv, NEW s \in Scheds, ComputeSignal(s)
  PROVE  IInv'
<1> USE DEF IInv, ComputeSignal, schedVars, sharedVars, lthreadVars, compVars
<1>b. cur[s] \in Lthreads /\ spc'[s] \in {"ready", "defer"}
  BY DEF TypeOK, CurOK
<1>1. TypeOK' BY <1>b DEF TypeOK, SchedPcs, CompPcs, States
<1>2. CurOK' BY <1>b DEF TypeOK, CurOK
<1>3. ReadyOK' BY <1>b DEF TypeOK, ReadyOK
<1>4. DeferOK' BY <1>b DEF TypeOK, DeferOK
<1>5. QueueOK' BY <1>b DEF TypeOK, QueueOK
<1>6. CompOK' BY <1>b DEF TypeOK, CompPcs, CompOK
<1>7. StateOK' BY <1>b DEF TypeOK, KeptOK, States, StateOK
<1>8. DoneOK' BY <1>b DEF TypeOK, DoneOK
<1>9. NoLostTrigger' BY <1>b DEF TypeOK, NoLostTrigger, CurOK, CompOK
<1> QED BY <1>1, <1>2, <1>3, <1>4, <1>5, <1>6, <1>7, <1>8, <1>9

-----------------------------------------------------------------------------
(* The compute pthread.                                                     *)

(* The head of the queue is not in the queue any more. *)
LEMMA CompTakeStep ==
  ASSUME IInv, NEW c \in Comps, CompTake(c)
  PROVE  IInv'
<1> USE DEF IInv, CompTake, schedVars, sharedVars, lthreadVars, compVars
<1>a. cq[c] \in Seq(Lthreads) /\ cq[c] # <<>>
  BY DEF TypeOK
<1>b. /\ Head(cq[c]) \in Lthreads
      /\ Tail(cq[c]) \in Seq(Lthreads)
      /\ InSeq(Head(cq[c]), cq[c])
      /\ \A x : InSeq(x, cq[c]) <=> x = Head(cq[c]) \/ InSeq(x, Tail(cq[c]))
      /\ Distinct(cq[c]) =>
           Distinct(Tail(cq[c])) /\ ~InSeq(Head(cq[c]), Tail(cq[c]))
  BY <1>a, TailFacts
<1>1. TypeOK' BY <1>b DEF TypeOK, SchedPcs, CompPcs, States
<1>2. CurOK' BY DEF TypeOK, CurOK
<1>3. ReadyOK' BY DEF TypeOK, ReadyOK
<1>4. DeferOK' BY DEF TypeOK, DeferOK
<1>5. QueueOK' BY <1>b DEF TypeOK, QueueOK
<1>6. CompOK' BY <1>b DEF TypeOK, CompPcs, CompOK, QueueOK
<1>7. StateOK' BY <1>b DEF TypeOK, KeptOK, States, StateOK
<1>8. DoneOK' BY DEF TypeOK, DoneOK
<1>9. NoLostTrigger' BY DEF TypeOK, NoLostTrigger
<1> QED BY <1>1, <1>2, <1>3, <1>4, <1>5, <1>6, <1>7, <1>8, <1>9

LEMMA CompIdleStep ==
  ASSUME IInv, NEW c \in Comps, CompIdle(c)
  PROVE  IInv'
<1> USE DEF IInv, CompIdle, schedVars, sharedVars, lthreadVars, compVars
<1>1. TypeOK' BY DEF TypeOK, SchedPcs, CompPcs, States
<1>2. CurOK' BY DEF TypeOK, CurOK
<1>3. ReadyOK' BY DEF TypeOK, ReadyOK
<1>4. DeferOK' BY DEF TypeOK, DeferOK
<1>5. QueueOK' BY DEF TypeOK, QueueOK
<1>6. CompOK' BY DEF TypeOK, CompPcs, CompOK
<1>7. StateOK' BY DEF TypeOK, KeptOK, States, StateOK
<1>8. DoneOK' BY DEF TypeOK, DoneOK
<1>9. NoLostTrigger' BY ZenonT(60) DEF TypeOK, NoLostTrigger
<1> QED BY <1>1, <1>2, <1>3, <1>4, <1>5, <1>6, <1>7, <1>8, <1>9

LEMMA CompResumeStep ==
  ASSUME IInv, NEW c \in Comps, CompResume(c)
  PROVE  IInv'
<1> USE DEF IInv, CompResume, schedVars, sharedVars, lthreadVars, compVars
<1>1. TypeOK' BY DEF TypeOK, SchedPcs, CompPcs, States
<1>2. CurOK' BY DEF TypeOK, CurOK
<1>3. ReadyOK' BY DEF TypeOK, ReadyOK
<1>4. DeferOK' BY DEF TypeOK, DeferOK
<1>5. QueueOK' BY DEF TypeOK, QueueOK
<1>6. CompOK' BY DEF TypeOK, CompPcs, CompOK
<1>7. StateOK' BY DEF TypeOK, KeptOK, States, StateOK
<1>8. DoneOK' BY DEF TypeOK, DoneOK
<1>9. NoLostTrigger' BY DEF TypeOK, NoLostTrigger
<1> QED BY <1>1, <1>2, <1>3, <1>4, <1>5, <1>6, <1>7, <1>8, <1>9

LEMMA CompEndStep ==
  ASSUME IInv, NEW c \in Comps, CompEnd(c)
  PROVE  IInv'
<1> USE DEF IInv, CompEnd, schedVars, sharedVars, lthreadVars, compVars
<1>1. TypeOK' BY DEF TypeOK, SchedPcs, CompPcs, States
<1>2. CurOK' BY DEF TypeOK, CurOK
<1>3. ReadyOK' BY DEF TypeOK, ReadyOK
<1>4. DeferOK' BY DEF TypeOK, DeferOK
<1>5. QueueOK' BY DEF TypeOK, QueueOK
<1>6. CompOK' BY DEF TypeOK, CompPcs, CompOK
<1>7. StateOK' BY DEF TypeOK, KeptOK, States, StateOK
<1>8. DoneOK' BY DEF TypeOK, DoneOK
<1>9. NoLostTrigger' BY DEF TypeOK, NoLostTrigger
<1> QED BY <1>1, <1>2, <1>3, <1>4, <1>5, <1>6, <1>7, <1>8, <1>9

(* The lthread was in the hands of c only, and now is in defer only. *)
LEMMA CompDeferStep ==
  ASSUME IInv, NEW c \in Comps, CompDefer(c)
  PROVE  IInv'
<1> USE DEF IInv, CompDefer, schedVars, sharedVars, lthreadVars, compVars
<1> DEFINE lt == ccur[c]
           s == lsched[lt]
<1>a. lt \in Lthreads /\ s \in Scheds /\ defer[s] \in Seq(Lthreads)
  BY DEF TypeOK, CompOK, StateOK, KeptOK
<1>b. /\ Append(defer[s], lt) \in Seq(Lthreads)
      /\ Append(defer[s], lt) # <<>>
      /\ \A x : InSeq(x, Append(defer[s], lt)) <=> x = lt \/ InSeq(x, defer[s])
      /\ Distinct(defer[s]) /\ ~InSeq(lt, defer[s]) =>
           Distinct(Append(defer[s], lt))
  BY <1>a, AppendFacts
<1>1. TypeOK' BY <1>a, <1>b DEF TypeOK, SchedPcs, CompPcs, States
<1>2. CurOK' BY <1>a, <1>b DEF TypeOK, CurOK, CompOK
<1>3. ReadyOK' BY <1>a, <1>b DEF TypeOK, ReadyOK, CompOK
<1>4. DeferOK' BY <1>a, <1>b DEF TypeOK, DeferOK, CurOK, CompOK, StateOK,
  KeptOK
<1>5. QueueOK' BY <1>a, <1>b DEF TypeOK, QueueOK, CompOK
<1>6. CompOK' BY <1>a, <1>b DEF TypeOK, CompPcs, CompOK
<1>7. StateOK'
  <2> SUFFICES ASSUME NEW x \in Lthreads PROVE KeptOK(x)'
    BY DEF StateOK
  <2>0. KeptOK(x)
    BY DEF StateOK
  <2>1. CASE x = lt
    BY <1>a, <1>b, <2>1 DEF TypeOK, KeptOK, States
  <2>2. CASE x # lt
    BY <1>a, <1>b, <2>0, <2>2 DEF TypeOK, KeptOK
  <2> QED BY <2>1, <2>2
<1>8. DoneOK' BY <1>a, <1>b DEF TypeOK, DoneOK
<1>9. NoLostTrigger' BY <1>a, <1>b, ZenonT(60) DEF TypeOK, NoLostTrigger
<1> QED BY <1>1, <1>2, <1>3, <1>4, <1>5, <1>6, <1>7, <1>8, <1>9

LEMMA CompTriggerStep ==
  ASSUME IInv, NEW c \in Comps, CompTrigger(c)
  PROVE  IInv'
<1> USE DEF IInv, CompTrigger, schedVars, sharedVars, lthreadVars, compVars
<1>1. TypeOK' BY DEF TypeOK, SchedPcs, CompPcs, States
<1>2. CurOK' BY DEF TypeOK, CurOK
<1>3. ReadyOK' BY DEF TypeOK, ReadyOK
<1>4. DeferOK' BY DEF TypeOK, DeferOK
<1>5. QueueOK' BY DEF TypeOK, QueueOK
<1>6. CompOK' BY DEF TypeOK, CompPcs, CompOK
<1>7. StateOK' BY DEF TypeOK, KeptOK, States, StateOK
<1>8. DoneOK' BY DEF TypeOK, DoneOK
<1>9. NoLostTrigger' BY DEF TypeOK, NoLostTrigger
<1> QED BY <1>1, <1>2, <1>3, <1>4, <1>5, <1>6, <1>7, <1>8, <1>9

LEMMA CompWaitStep ==
  ASSUME IInv, NEW c \in Comps, CompWait(c)
  PROVE  IInv'
<1> USE DEF IInv, CompWait, schedVars, sharedVars, lthreadVars, compVars
<1>1. TypeOK' BY DEF TypeOK, SchedPcs, CompPcs, States
<1>2. CurOK' BY DEF TypeOK, CurOK
<1>3. ReadyOK' BY DEF TypeOK, ReadyOK
<1>4. DeferOK' BY DEF TypeOK, DeferOK
<1>5. QueueOK' BY DEF TypeOK, QueueOK
<1>6. CompOK' BY DEF TypeOK, CompPcs, CompOK
<1>7. StateOK' BY DEF TypeOK, KeptOK, States, StateOK
<1>8. DoneOK' BY DEF TypeOK, DoneOK
<1>9. NoLostTrigger' BY DEF TypeOK, NoLostTrigger
<1> QED BY <1>1, <1>2, <1>3, <1>4, <1>5, <1>6, <1>7, <1>8, <1>9

LEMMA CompTimeoutStep ==
  ASSUME IInv, NEW c \in Comps, CompTimeout(c)
  PROVE  IInv'
<1> USE DEF IInv, CompTimeout, schedVars, sharedVars, lthreadVars, compVars
<1>1. TypeOK' BY DEF TypeOK, SchedPcs, CompPcs, States
<1>2. CurOK' BY DEF TypeOK, CurOK
<1>3. ReadyOK' BY DEF TypeOK, ReadyOK
<1>4. DeferOK' BY DEF TypeOK, DeferOK
<1>5. QueueOK' BY DEF TypeOK, QueueOK
<1>6. CompOK' BY DEF TypeOK, CompPcs, CompOK
<1>7. StateOK' BY DEF TypeOK, KeptOK, States, StateOK
<1>8. DoneOK' BY DEF TypeOK, DoneOK
<1>9. NoLostTrigger' BY DEF TypeOK, NoLostTrigger
<1> QED BY <1>1, <1>2, <1>3, <1>4, <1>5, <1>6, <1>7, <1>8, <1>9

(* The pthread leaves with its queue empty, so no request names it. *)
LEMMA CompExitStep ==
  ASSUME IInv, NEW c \in Comps, CompExit(c)
  PROVE  IInv'
<1> USE DEF IInv, CompExit, schedVars, sharedVars, lthreadVars, compVars
<1>b. cq[c] = <<>> => \A x : ~InSeq(x, cq[c])
  BY EmptyFacts
<1>1. TypeOK'
  <2>1. CASE cq[c] = <<>>
    BY <2>1 DEF TypeOK, SchedPcs, CompPcs, States
  <2>2. CASE cq[c] # <<>>
    BY <2>2 DEF TypeOK, SchedPcs, CompPcs, States
  <2> QED BY <2>1, <2>2
<1>2. CurOK' BY DEF TypeOK, CurOK
<1>3. ReadyOK' BY DEF TypeOK, ReadyOK
<1>4. DeferOK' BY DEF TypeOK, DeferOK
<1>5. QueueOK' BY <1>b DEF TypeOK, QueueOK
<1>6. CompOK' BY DEF TypeOK, CompPcs, CompOK
<1>7. StateOK'
  <2> SUFFICES ASSUME NEW x \in Lthreads PROVE KeptOK(x)'
    BY DEF StateOK
  <2>0. KeptOK(x)
    BY DEF StateOK
  <2>1. CASE cq[c] = <<>>
    BY <1>b, <2>0, <2>1 DEF TypeOK, KeptOK
  <2>2. CASE cq[c] # <<>>
    BY <2>0, <2>2 DEF TypeOK, KeptOK
  <2> QED BY <2>1, <2>2
<1>8. DoneOK' BY DEF TypeOK, DoneOK
<1>9. NoLostTrigger' BY DEF TypeOK, NoLostTrigger
<1> QED BY <1>1, <1>2, <1>3, <1>4, <1>5, <1>6, <1>7, <1>8, <1>9

-----------------------------------------------------------------------------
(* The invariant.                                                           *)

(* server_accept_loop() leaves each scheduler its listener, ready. *)
LEMMA InitIInv == Init => IInv
<1> SUFFICES ASSUME Init PROVE IInv
  OBVIOUS
<1> USE RootAssumption, NoneAssumption DEF Init
<1>a. \A s \in Scheds : /\ Root[s] \in Lthreads
                        /\ state[Root[s]] = "idle"
                        /\ lsched[Root[s]] = s
  BY DEF Roots
<1>b. \A s \in Scheds : /\ ready[s] \in Seq(Lthreads)
                        /\ Distinct(ready[s])
                        /\ \A x : InSeq(x, ready[s]) <=> x = Root[s]
  BY <1>a, SingleFacts
<1>c. \A s \in Scheds : Distinct(defer[s]) /\ \A x : ~InSeq(x, defer[s])
  BY EmptyFacts
<1>d. \A c \in Comps : Distinct(cq[c]) /\ \A x : ~InSeq(x, cq[c])
  BY EmptyFacts
<1>e. \A x \in Lthreads :
        \/ state[x] = "unborn" /\ lsched[x] = None
        \/ \E s \in Scheds : x = Root[s]
  BY DEF Roots
<1>1. TypeOK
  <2>1. lsched \in [Lthreads -> Scheds \cup {None}]
    <3>1. \A x \in Lthreads : lsched[x] \in Scheds \cup {None}
      BY <1>a, <1>e
    <3> QED BY <3>1
  <2>2. logs \in [Lthreads -> 0..MaxLogs]
    BY MaxLogsAssumption
  <2>3. ready \in [Scheds -> Seq(Lthreads)]
    BY <1>b
  <2> QED BY <2>1, <2>2, <2>3 DEF TypeOK, SchedPcs, CompPcs, States
<1>2. CurOK BY DEF CurOK
<1>3. ReadyOK
  <2>1. ASSUME NEW s \in Scheds, NEW x \in Lthreads, InSeq(x, ready[s])
        PROVE  lsched[x] = s /\ state[x] = "idle" /\ ~RunsOnSched(s, x)
    <3>1. x = Root[s]
      BY ONLY <1>b, <2>1
    <3>2. spc[s] = "top"
      OBVIOUS
    <3> QED BY ONLY <1>a, <3>1, <3>2 DEF RunsOnSched
  <2> QED BY ONLY <1>b, <1>c, <2>1 DEF ReadyOK
<1>4. DeferOK BY <1>c DEF DeferOK
<1>5. QueueOK BY <1>d DEF QueueOK
<1>6. CompOK BY DEF CompOK
<1>7. StateOK BY <1>a, <1>b, <1>e DEF StateOK, KeptOK
<1>8. DoneOK BY DEF DoneOK
<1>9. NoLostTrigger BY DEF NoLostTrigger
<1> QED BY <1>1, <1>2, <1>3, <1>4, <1>5, <1>6, <1>7, <1>8, <1>9 DEF IInv

LEMMA StutterIInv == IInv /\ UNCHANGED vars => IInv'
BY DEF IInv, vars, schedVars, sharedVars, lthreadVars, compVars, TypeOK, CurOK,
       ReadyOK, DeferOK, QueueOK, CompOK, StateOK, KeptOK, DoneOK, NoLostTrigger,
       InSeq, Distinct

LEMMA NextIInv == IInv /\ [Next]_vars => IInv'
<1> SUFFICES ASSUME IInv, [Next]_vars PROVE IInv'
  OBVIOUS
<1>1. CASE UNCHANGED vars
  BY <1>1, StutterIInv
<1>2. ASSUME NEW s \in Scheds, SchedWork(s) \/ PollTimeout(s) PROVE IInv'
  BY <1>2, TopStep, ReadyResumeStep, ReadyEmptyStep, DeferResumeStep,
     DeferEmptyStep, PollEventStep, PollTimeoutStep, ClearTriggerStep,
     CreateStep, ExitStep, BeginStep, BeginFailsStep, ComputeAddStep,
     ComputeSignalStep DEF SchedWork
<1>3. ASSUME NEW c \in Comps, CompStep(c) PROVE IInv'
  BY <1>3, CompTakeStep, CompIdleStep, CompResumeStep, CompEndStep,
     CompDeferStep, CompTriggerStep, CompWaitStep, CompTimeoutStep,
     CompExitStep DEF CompStep
<1>4. CASE Stopped
  BY <1>4, StutterIInv DEF Stopped
<1> QED BY <1>1, <1>2, <1>3, <1>4 DEF Next

(* Every reachable state of the schedulers and the compute pthreads has     *)
(* IInv: the lists, the two state bits and the hands of the pthreads agree. *)
THEOREM Invariance == Spec => []IInv
<1>1. Init => IInv BY InitIInv
<1>2. IInv /\ [Next]_vars => IInv' BY NextIInv
<1> QED BY <1>1, <1>2, PTL DEF Spec

-----------------------------------------------------------------------------
(* The properties.                                                          *)

(* Every variable has its type; in particular the lthread that a scheduler  *)
(* or a compute pthread puts in a list is never NULL.                       *)
THEOREM TypeCorrect == Spec => []TypeOK
<1>1. IInv => TypeOK BY DEF IInv
<1> QED BY <1>1, Invariance, PTL

(* No compute pthread runs an lthread before _switch() has saved its        *)
(* context, however many pthreads there are.                                *)
THEOREM SwitchedOutHolds == Spec => []SwitchedOut
<1>1. IInv => SwitchedOut
  BY DEF IInv, SwitchedOut, TypeOK, CurOK, CompOK
<1> QED BY <1>1, Invariance, PTL

(* A request is always in the queue or the hands of a listed pthread: the   *)
(* 60 s timeout never strands one.                                          *)
THEOREM RequestHeldHolds == Spec => []RequestHeld
<1>1. ASSUME IInv, NEW x \in Lthreads,
             state[x] \in {"PENDING_RUNCOMPUTE", "RUNCOMPUTE"}
      PROVE  /\ lcomp[x] \in cscheds
             /\ cpc[lcomp[x]] # "none"
             /\ HeldByComp(lcomp[x], x) \/ At(cq[lcomp[x]], x) # {}
  <2>1. InSeq(x, cq[lcomp[x]]) \/ HeldByComp(lcomp[x], x)
    BY <1>1 DEF IInv, StateOK, KeptOK
  <2>2. InSeq(x, cq[lcomp[x]]) => At(cq[lcomp[x]], x) # {}
    BY DEF InSeq, At
  <2>3. lcomp[x] \in Comps
    BY <1>1 DEF IInv, StateOK, KeptOK
  <2>4. lcomp[x] \in cscheds
    BY <1>1, <2>1, <2>3 DEF IInv, QueueOK, CompOK
  <2> QED BY <1>1, <2>1, <2>2, <2>3, <2>4 DEF IInv, CompOK
<1>2. IInv => RequestHeld
  BY <1>1 DEF RequestHeld
<1> QED BY <1>2, Invariance, PTL

(* Who is deferred is busy, so an lthread of a scheduler that ends is nowhere. *)
LEMMA DoneFacts == IInv => DoneIsDone
<1>1. ASSUME IInv, NEW s \in Scheds, spc[s] = "done"
      PROVE  defer[s] = <<>> /\ \A x \in Lthreads : lsched[x] = s => ~Allocated(x)
  <2>1. busy[s] = {} /\ ready[s] = <<>>
    BY <1>1 DEF IInv, DoneOK
  <2>2. defer[s] = <<>>
    <3> SUFFICES ASSUME defer[s] # <<>> PROVE FALSE
      OBVIOUS
    <3>1. defer[s] \in Seq(Lthreads)
      BY <1>1 DEF IInv, TypeOK
    <3>2. Head(defer[s]) \in Lthreads /\ InSeq(Head(defer[s]), defer[s])
      BY <3>1, TailFacts
    <3> QED BY <1>1, <2>1, <3>2 DEF IInv, DeferOK
  <2>3. \A x : ~InSeq(x, ready[s]) /\ ~InSeq(x, defer[s])
    BY <2>1, <2>2, EmptyFacts
  <2>4. ASSUME NEW x \in Lthreads, lsched[x] = s PROVE ~Allocated(x)
    <3>1. KeptOK(x) /\ state[x] \in States
      BY <1>1 DEF IInv, TypeOK, StateOK
    <3>2. state[x] # "idle"
      BY <1>1, <2>3, <2>4, <3>1 DEF KeptOK
    <3>3. state[x] # "PENDING_RUNCOMPUTE"
      BY <1>1, <2>4, <3>1 DEF KeptOK
    <3>4. state[x] # "RUNCOMPUTE"
      BY <2>1, <2>4, <3>1 DEF KeptOK
    <3> QED BY <3>1, <3>2, <3>3, <3>4 DEF States, Allocated
  <2> QED BY <2>2, <2>4
<1> QED BY <1>1 DEF DoneIsDone

(* lthread_run() frees its scheduler only when no lthread of it is left.    *)
THEOREM DoneIsDoneHolds == Spec => []DoneIsDone
BY DoneFacts, Invariance, PTL

(* A scheduler asleep in epoll_wait() with an lthread deferred to it has    *)
(* been woken, or is about to be.                                           *)
THEOREM NoLostTriggerHolds == Spec => []NoLostTrigger
<1>1. IInv => NoLostTrigger BY DEF IInv
<1> QED BY <1>1, Invariance, PTL

LEMMA PlacesFacts ==
  ASSUME NEW x \in Lthreads, NEW p
  PROVE  p \in Places(x) <=>
           \/ \E s \in Scheds : p = <<"sched", s, 0>> /\ RunsOnSched(s, x)
           \/ \E c \in Comps : p = <<"comp", c, 0>> /\ HeldByComp(c, x)
           \/ \E s \in Scheds : \E i \in 1..Len(ready[s]) :
                p = <<"ready", s, i>> /\ ready[s][i] = x
           \/ \E s \in Scheds : \E i \in 1..Len(defer[s]) :
                p = <<"defer", s, i>> /\ defer[s][i] = x
           \/ \E c \in Comps : \E i \in 1..Len(cq[c]) :
                p = <<"compute", c, i>> /\ cq[c][i] = x
<1> DEFINE A == {<<"sched", s, 0>> : s \in {s \in Scheds : RunsOnSched(s, x)}}
           B == {<<"comp", c, 0>> : c \in {c \in Comps : HeldByComp(c, x)}}
           R == UNION {{<<"ready", s, i>> : i \in At(ready[s], x)} : s \in Scheds}
           D == UNION {{<<"defer", s, i>> : i \in At(defer[s], x)} : s \in Scheds}
           Q == UNION {{<<"compute", c, i>> : i \in At(cq[c], x)} : c \in Comps}
<1>1. p \in A <=> \E s \in Scheds : p = <<"sched", s, 0>> /\ RunsOnSched(s, x)
  OBVIOUS
<1>2. p \in B <=> \E c \in Comps : p = <<"comp", c, 0>> /\ HeldByComp(c, x)
  OBVIOUS
<1>3. p \in R <=> \E s \in Scheds : \E i \in 1..Len(ready[s]) :
                    p = <<"ready", s, i>> /\ ready[s][i] = x
  BY DEF At
<1>4. p \in D <=> \E s \in Scheds : \E i \in 1..Len(defer[s]) :
                    p = <<"defer", s, i>> /\ defer[s][i] = x
  BY DEF At
<1>5. p \in Q <=> \E c \in Comps : \E i \in 1..Len(cq[c]) :
                    p = <<"compute", c, i>> /\ cq[c][i] = x
  BY DEF At
<1>6. Places(x) = A \cup B \cup R \cup D \cup Q
  BY DEF Places
<1>7. p \in Places(x) <=> p \in A \/ p \in B \/ p \in R \/ p \in D \/ p \in Q
  <2> HIDE DEF A, B, R, D, Q
  <2> QED BY <1>6
<1> HIDE DEF A, B, R, D, Q
<1> QED BY <1>1, <1>2, <1>3, <1>4, <1>5, <1>7

(* An lthread that runs or waits on its scheduler is not on any other list. *)
LEMMA IdlePlace ==
  ASSUME IInv, NEW x \in Lthreads, state[x] = "idle"
  PROVE  \E p \in Places(x) : \A q \in Places(x) : q = p
<1> DEFINE s == lsched[x]
<1>1. s \in Scheds
  BY DEF IInv, StateOK, KeptOK
<1>2. \A c \in Comps : ~HeldByComp(c, x) /\ ~InSeq(x, cq[c])
  BY DEF IInv, CompOK, QueueOK
<1>3. \A t \in Scheds :
        RunsOnSched(t, x) \/ InSeq(x, ready[t]) \/ InSeq(x, defer[t]) => t = s
  BY DEF IInv, CurOK, ReadyOK, DeferOK
<1>4. ASSUME NEW q \in Places(x)
      PROVE  \/ q = <<"sched", s, 0>> /\ RunsOnSched(s, x)
             \/ \E i \in 1..Len(ready[s]) : q = <<"ready", s, i>> /\ ready[s][i] = x
             \/ \E i \in 1..Len(defer[s]) : q = <<"defer", s, i>> /\ defer[s][i] = x
  BY <1>2, <1>3, PlacesFacts DEF InSeq
<1>5. CASE RunsOnSched(s, x)
  <2>1. ~InSeq(x, ready[s]) /\ ~InSeq(x, defer[s])
    BY <1>1, <1>5 DEF IInv, ReadyOK, DeferOK
  <2>2. <<"sched", s, 0>> \in Places(x)
    BY <1>1, <1>5, PlacesFacts
  <2>3. \A q \in Places(x) : q = <<"sched", s, 0>>
    BY <1>4, <2>1 DEF InSeq
  <2> QED BY <2>2, <2>3
<1>6. CASE InSeq(x, ready[s])
  <2>1. ~RunsOnSched(s, x) /\ ~InSeq(x, defer[s]) /\ Distinct(ready[s])
    BY <1>1, <1>6 DEF IInv, ReadyOK
  <2>2. PICK i \in 1..Len(ready[s]) : ready[s][i] = x
    BY <1>6 DEF InSeq
  <2>3. <<"ready", s, i>> \in Places(x)
    BY <1>1, <2>2, PlacesFacts
  <2>4. \A q \in Places(x) : q = <<"ready", s, i>>
    BY <1>4, <2>1, <2>2 DEF InSeq, Distinct
  <2> QED BY <2>3, <2>4
<1>7. CASE InSeq(x, defer[s])
  <2>1. ~RunsOnSched(s, x) /\ ~InSeq(x, ready[s]) /\ Distinct(defer[s])
    BY <1>1, <1>7 DEF IInv, ReadyOK, DeferOK
  <2>2. PICK i \in 1..Len(defer[s]) : defer[s][i] = x
    BY <1>7 DEF InSeq
  <2>3. <<"defer", s, i>> \in Places(x)
    BY <1>1, <2>2, PlacesFacts
  <2>4. \A q \in Places(x) : q = <<"defer", s, i>>
    BY <1>4, <2>1, <2>2 DEF InSeq, Distinct
  <2> QED BY <2>3, <2>4
<1>8. RunsOnSched(s, x) \/ InSeq(x, ready[s]) \/ InSeq(x, defer[s])
  BY DEF IInv, StateOK, KeptOK
<1> QED BY <1>5, <1>6, <1>7, <1>8

(* An lthread handed over is in the queue or the hands of one pthread. *)
LEMMA ComputePlace ==
  ASSUME IInv, NEW x \in Lthreads,
         state[x] \in {"PENDING_RUNCOMPUTE", "RUNCOMPUTE"}
  PROVE  \E p \in Places(x) : \A q \in Places(x) : q = p
<1> DEFINE c == lcomp[x]
<1>1. c \in Comps
  BY DEF IInv, StateOK, KeptOK
<1>2. \A s \in Scheds :
        ~RunsOnSched(s, x) /\ ~InSeq(x, ready[s]) /\ ~InSeq(x, defer[s])
  BY DEF IInv, CurOK, ReadyOK, DeferOK
<1>3. \A d \in Comps : HeldByComp(d, x) \/ InSeq(x, cq[d]) => d = c
  BY DEF IInv, CompOK, QueueOK
<1>4. ASSUME NEW q \in Places(x)
      PROVE  \/ q = <<"comp", c, 0>> /\ HeldByComp(c, x)
             \/ \E i \in 1..Len(cq[c]) : q = <<"compute", c, i>> /\ cq[c][i] = x
  BY <1>2, <1>3, PlacesFacts DEF InSeq
<1>5. CASE HeldByComp(c, x)
  <2>1. ~InSeq(x, cq[c])
    BY <1>1, <1>5 DEF IInv, QueueOK
  <2>2. <<"comp", c, 0>> \in Places(x)
    BY <1>1, <1>5, PlacesFacts
  <2>3. \A q \in Places(x) : q = <<"comp", c, 0>>
    BY <1>4, <2>1 DEF InSeq
  <2> QED BY <2>2, <2>3
<1>6. CASE InSeq(x, cq[c])
  <2>1. ~HeldByComp(c, x) /\ Distinct(cq[c])
    BY <1>1, <1>6 DEF IInv, QueueOK
  <2>2. PICK i \in 1..Len(cq[c]) : cq[c][i] = x
    BY <1>6 DEF InSeq
  <2>3. <<"compute", c, i>> \in Places(x)
    BY <1>1, <2>2, PlacesFacts
  <2>4. \A q \in Places(x) : q = <<"compute", c, i>>
    BY <1>4, <2>1, <2>2 DEF InSeq, Distinct
  <2> QED BY <2>3, <2>4
<1>7. HeldByComp(c, x) \/ InSeq(x, cq[c])
  BY DEF IInv, StateOK, KeptOK
<1> QED BY <1>5, <1>6, <1>7

(* An lthread in use is in exactly one place, and a freed one in none: two  *)
(* pthreads never run one stack and no list keeps a freed lthread.          *)
THEOREM OnePlaceHolds == Spec => []OnePlace
<1>1. ASSUME IInv, NEW x \in Lthreads, Allocated(x)
      PROVE  \E p \in Places(x) : Places(x) = {p}
  <2>1. state[x] \in {"idle", "PENDING_RUNCOMPUTE", "RUNCOMPUTE"}
    BY <1>1 DEF IInv, TypeOK, States, Allocated
  <2>2. PICK p \in Places(x) : \A q \in Places(x) : q = p
    BY <1>1, <2>1, IdlePlace, ComputePlace
  <2> QED BY <2>2
<1>2. ASSUME IInv, NEW x \in Lthreads, ~Allocated(x)
      PROVE  Places(x) = {}
  <2>1. state[x] \in {"unborn", "freed"}
    BY <1>2 DEF Allocated
  <2>2. /\ \A s \in Scheds :
             ~RunsOnSched(s, x) /\ ~InSeq(x, ready[s]) /\ ~InSeq(x, defer[s])
        /\ \A c \in Comps : ~HeldByComp(c, x) /\ ~InSeq(x, cq[c])
    BY <1>2, <2>1 DEF IInv, CurOK, ReadyOK, DeferOK, CompOK, QueueOK
  <2> QED BY <2>2, PlacesFacts DEF InSeq
<1>3. IInv => OnePlace
  BY <1>1, <1>2 DEF OnePlace
<1> QED BY <1>3, Invariance, PTL

-----------------------------------------------------------------------------
(* LthreadCompute implements Handoff.  Under IInv each action is one step   *)
(* of the hand-off, or moves none of what Handoff sees: most of the work of *)
(* the compute pthreads is of the second kind.                             *)
HandoffStep == H!Next \/ UNCHANGED H!vars

USE DEF RunsOnSched, HeldByComp

-----------------------------------------------------------------------------
(* What Handoff sees of a step.                                             *)

LEMMA SameStage ==
  ASSUME state' = state,
         \A c \in Comps, x \in Lthreads : HeldByComp(c, x)' <=> HeldByComp(c, x)
  PROVE  Stage' = Stage
BY DEF Stage

(* An lthread whose state changes, and no hand does. *)
LEMMA StageOfState ==
  ASSUME TypeOK, NEW lt \in Lthreads, NEW v, state' = [state EXCEPT ![lt] = v],
         \A c \in Comps, x \in Lthreads : HeldByComp(c, x)' <=> HeldByComp(c, x)
  PROVE  /\ v = "idle" => Stage' = [Stage EXCEPT ![lt] = "home"]
         /\ v = "PENDING_RUNCOMPUTE" => Stage' = [Stage EXCEPT ![lt] = "leaving"]
         /\ v = "freed" => Stage' = [Stage EXCEPT ![lt] = "gone"]
         /\ v = "RUNCOMPUTE" /\ (\A c \in Comps : ~HeldByComp(c, lt)) =>
              Stage' = [Stage EXCEPT ![lt] = "asked"]
<1>1. state'[lt] = v /\ \A x \in Lthreads : x # lt => state'[x] = state[x]
  BY DEF TypeOK
<1>2. ASSUME NEW x \in Lthreads, x # lt PROVE Stage'[x] = Stage[x]
  BY <1>1, <1>2 DEF Stage
<1>3. /\ v = "idle" => Stage'[lt] = "home"
      /\ v = "PENDING_RUNCOMPUTE" => Stage'[lt] = "leaving"
      /\ v = "freed" => Stage'[lt] = "gone"
      /\ v = "RUNCOMPUTE" /\ (\A c \in Comps : ~HeldByComp(c, lt)) =>
           Stage'[lt] = "asked"
  BY <1>1 DEF Stage
<1>4. /\ Stage' = [x \in Lthreads |-> Stage'[x]]
      /\ Stage = [x \in Lthreads |-> Stage[x]]
  BY DEF Stage
<1> HIDE DEF Stage
<1> QED BY <1>2, <1>3, <1>4

LEMMA SameRunning ==
  ASSUME \A s \in Scheds : spc'[s] = "run" <=> spc[s] = "run",
         \A s \in Scheds : spc[s] = "run" => cur'[s] = cur[s]
  PROVE  Running' = Running
BY DEF Running

LEMMA SameEnded ==
  ASSUME \A s \in Scheds : spc'[s] = "done" <=> spc[s] = "done"
  PROVE  Ended' = Ended
BY DEF Ended

(* A scheduler in its loops has left every context it was in. *)
LEMMA BetweenFacts ==
  ASSUME IInv, NEW s \in Scheds, spc[s] \in {"top", "ready", "defer"}
  PROVE  H!Between(s)
<1>1. Running[s] = None /\ s \notin Ended
  BY DEF Running, Ended
<1>2. ASSUME NEW x \in Lthreads, Stage[x] = "leaving", lsched[x] = s PROVE FALSE
  <2>1. state[x] = "PENDING_RUNCOMPUTE"
    BY <1>2 DEF Stage, IInv, TypeOK, States
  <2> QED BY <1>2, <2>1 DEF IInv, StateOK, KeptOK
<1> QED BY <1>1, <1>2 DEF H!Between

-----------------------------------------------------------------------------
(* The scheduler.                                                           *)

LEMMA SchedSame ==
  ASSUME IInv, NEW s \in Scheds,
         \/ ReadyEmpty(s) \/ DeferEmpty(s) \/ PollEvent(s) \/ PollTimeout(s)
         \/ ClearTrigger(s) \/ BeginFails(s)
  PROVE  HandoffStep
<1> USE DEF IInv, TypeOK, ReadyEmpty, DeferEmpty, PollEvent, PollTimeout,
            ClearTrigger, BeginFails, schedVars, sharedVars, lthreadVars, compVars
<1>1. Stage' = Stage BY SameStage
<1>2. Running' = Running
  <2>1. /\ \A t \in Scheds : spc'[t] = "run" <=> spc[t] = "run"
        /\ cur' = cur
    OBVIOUS
  <2> QED BY ONLY <2>1, SameRunning
<1>3. Ended' = Ended
  <2>1. \A t \in Scheds : spc'[t] = "done" <=> spc[t] = "done"
    OBVIOUS
  <2> QED BY ONLY <2>1, SameEnded
<1> QED BY <1>1, <1>2, <1>3 DEF HandoffStep, H!vars

(* The end of lthread_run(): nobody of s is anywhere. *)
LEMMA TopView ==
  ASSUME IInv, IInv', NEW s \in Scheds, Top(s), DoneIsDone'
  PROVE  HandoffStep
<1> USE DEF IInv, TypeOK, Top, schedVars, sharedVars, lthreadVars, compVars
<1>1. Stage' = Stage BY SameStage
<1>2. Running' = Running
  <2>1. /\ \A t \in Scheds : spc'[t] = "run" <=> spc[t] = "run"
        /\ cur' = cur
    OBVIOUS
  <2> QED BY ONLY <2>1, SameRunning
<1>3. CASE spc'[s] = "done"
  <2>1. Ended' = Ended \cup {s}
    BY <1>3 DEF Ended
  <2>2. ASSUME NEW x \in Lthreads, lsched[x] = s PROVE Stage[x] \in {"none", "gone"}
    <3>1. state[x] \in {"unborn", "freed"}
      BY <1>3, <2>2 DEF DoneIsDone, Allocated
    <3> QED BY <3>1 DEF Stage
  <2>3. H!Between(s)
    BY BetweenFacts
  <2>4. H!Over(s)
    BY <1>1, <1>2, <2>1, <2>2, <2>3 DEF H!Over
  <2> QED BY <2>4 DEF HandoffStep, H!Next
<1>4. CASE spc'[s] = "ready"
  <2>1. Ended' = Ended
    BY <1>4 DEF Ended
  <2> QED BY <1>1, <1>2, <2>1 DEF HandoffStep, H!vars
<1> QED BY <1>3, <1>4

LEMMA ReadyResumeView ==
  ASSUME IInv, NEW s \in Scheds, ReadyResume(s)
  PROVE  HandoffStep
<1> USE DEF IInv, ReadyResume, schedVars, sharedVars, lthreadVars, compVars
<1> DEFINE lt == Head(ready[s])
<1>1. lt \in Lthreads /\ InSeq(lt, ready[s])
  BY TailFacts DEF TypeOK
<1>2. state[lt] = "idle" /\ lsched[lt] = s /\ ~InSeq(lt, defer[s])
  BY <1>1 DEF ReadyOK
<1>3. Stage' = Stage /\ Stage[lt] = "home"
  BY <1>1, <1>2, SameStage DEF Stage
<1>4. Running' = [Running EXCEPT ![s] = lt]
  BY DEF Running, TypeOK
<1>5. Ended' = Ended
  BY DEF Ended, TypeOK
<1>6. H!Between(s)
  BY BetweenFacts
<1>7. H!Run(s, lt)
  BY <1>2, <1>3, <1>4, <1>5, <1>6 DEF H!Run, InSeq
<1> QED BY <1>1, <1>7 DEF HandoffStep, H!Next

LEMMA DeferResumeView ==
  ASSUME IInv, NEW s \in Scheds, DeferResume(s)
  PROVE  HandoffStep
<1> USE DEF IInv, DeferResume, schedVars, sharedVars, lthreadVars, compVars
<1>1. Stage' = Stage
  BY SameStage
<1>2. Running' = [Running EXCEPT ![s] = Head(defer[s])]
  BY DEF Running, TypeOK
<1>3. Ended' = Ended
  BY DEF Ended, TypeOK
<1>4. H!Between(s)
  BY BetweenFacts
<1>5. H!Take(s)
  BY <1>1, <1>2, <1>3, <1>4 DEF H!Take
<1> QED BY <1>5 DEF HandoffStep, H!Next

LEMMA CreateView ==
  ASSUME IInv, NEW s \in Scheds, NEW lt \in Lthreads, Create(s, lt)
  PROVE  HandoffStep
<1> USE DEF IInv, Create, schedVars, sharedVars, lthreadVars, compVars
<1>1. Stage' = [Stage EXCEPT ![lt] = "home"] /\ Stage[lt] = "none"
  BY StageOfState DEF Stage
<1>2. Running' = Running /\ Running[s] = Root[s]
  BY SameRunning DEF Running
<1>3. Ended' = Ended
  BY SameEnded
<1>4. H!New(s, lt)
  BY <1>1, <1>2, <1>3 DEF H!New
<1> QED BY <1>4 DEF HandoffStep, H!Next

LEMMA ExitView ==
  ASSUME IInv, NEW s \in Scheds, Exit(s)
  PROVE  HandoffStep
<1> USE DEF IInv, Exit, schedVars, sharedVars, lthreadVars, compVars
<1>1. cur[s] \in Lthreads /\ spc'[s] \in {"ready", "defer"}
  BY DEF TypeOK, CurOK
<1>2. Stage' = [Stage EXCEPT ![cur[s]] = "gone"]
  BY <1>1, StageOfState
<1>3. Running' = [Running EXCEPT ![s] = None] /\ Running[s] = cur[s]
  BY <1>1 DEF Running, TypeOK
<1>4. Ended' = Ended
  BY <1>1 DEF Ended, TypeOK
<1>5. H!End(s, cur[s])
  BY <1>2, <1>3, <1>4 DEF H!End
<1> QED BY <1>1, <1>5 DEF HandoffStep, H!Next

-----------------------------------------------------------------------------
(* The hand-off.                                                            *)

(* Which compute pthread it was queued at is nothing to Handoff. *)
LEMMA BeginView ==
  ASSUME IInv, NEW s \in Scheds, BeginFree(s) \/ BeginNew(s) \/ BeginShared(s)
  PROVE  HandoffStep
<1> USE DEF IInv, HandOver, schedVars, sharedVars, lthreadVars, compVars
<1>1. PICK c \in Comps :
        /\ HandOver(s, c)
        /\ \/ cpc' = cpc
           \/ cpc[c] = "none" /\ cpc' = [cpc EXCEPT ![c] = "loop"]
  BY DEF BeginFree, BeginNew, BeginShared, FreeComps, TypeOK
<1>2. cur[s] \in Lthreads /\ spc[s] = "run"
  BY DEF BeginFree, BeginNew, BeginShared, MayLog, CurOK
<1>3. \A d \in Comps, x \in Lthreads : HeldByComp(d, x)' <=> HeldByComp(d, x)
  BY <1>1 DEF TypeOK
<1>4. Stage' = [Stage EXCEPT ![cur[s]] = "leaving"]
  BY <1>1, <1>2, <1>3, StageOfState
<1>5. Running' = [Running EXCEPT ![s] = None] /\ Running[s] = cur[s]
  BY <1>1, <1>2 DEF Running, TypeOK
<1>6. Ended' = Ended
  BY <1>1, <1>2 DEF Ended, TypeOK
<1>7. H!Leave(s, cur[s])
  BY <1>1, <1>4, <1>5, <1>6 DEF H!Leave
<1> QED BY <1>2, <1>7 DEF HandoffStep, H!Next

(* No pthread has taken it yet, as it was PENDING_RUNCOMPUTE until now. *)
LEMMA ComputeAddView ==
  ASSUME IInv, NEW s \in Scheds, ComputeAdd(s)
  PROVE  HandoffStep
<1> USE DEF IInv, ComputeAdd, schedVars, sharedVars, lthreadVars, compVars
<1>1. cur[s] \in Lthreads /\ state[cur[s]] = "PENDING_RUNCOMPUTE"
  BY DEF CurOK
<1>2. \A c \in Comps : ~HeldByComp(c, cur[s])
  BY <1>1 DEF CompOK
<1>3. Stage' = [Stage EXCEPT ![cur[s]] = "asked"] /\ Stage[cur[s]] = "leaving"
  BY <1>1, <1>2, StageOfState DEF Stage
<1>4. Running' = Running
  BY DEF Running, TypeOK
<1>5. Ended' = Ended
  BY DEF Ended, TypeOK
<1>6. H!Left(cur[s])
  BY <1>3, <1>4, <1>5 DEF H!Left, H!Move
<1> QED BY <1>1, <1>6 DEF HandoffStep, H!Next

LEMMA ComputeSignalView ==
  ASSUME IInv, NEW s \in Scheds, ComputeSignal(s)
  PROVE  HandoffStep
<1> USE DEF IInv, ComputeSignal, schedVars, sharedVars, lthreadVars, compVars
<1>1. lcomp[cur[s]] \in Comps /\ spc'[s] \in {"ready", "defer"}
  BY DEF TypeOK, CurOK
<1>2. Stage' = Stage
  <2>1. \A c \in Comps, x \in Lthreads : HeldByComp(c, x)' <=> HeldByComp(c, x)
    BY <1>1 DEF TypeOK
  <2> QED BY <2>1, SameStage
<1>3. Running' = Running
  BY <1>1 DEF Running, TypeOK
<1>4. Ended' = Ended
  BY <1>1 DEF Ended, TypeOK
<1> QED BY <1>2, <1>3, <1>4 DEF HandoffStep, H!vars

-----------------------------------------------------------------------------
(* The compute pthread.                                                     *)

(* It takes an lthread that is in no other pthread's hands. *)
LEMMA CompTakeView ==
  ASSUME IInv, NEW c \in Comps, CompTake(c)
  PROVE  HandoffStep
<1> USE DEF IInv, CompTake, schedVars, sharedVars, lthreadVars, compVars
<1> DEFINE lt == Head(cq[c])
<1>1. lt \in Lthreads /\ InSeq(lt, cq[c])
  BY TailFacts DEF TypeOK
<1>2. state[lt] = "RUNCOMPUTE" /\ \A d \in Comps : ~HeldByComp(d, lt)
  BY <1>1 DEF QueueOK, CompOK
<1>3. \A d \in Comps, x \in Lthreads :
        HeldByComp(d, x)' <=> HeldByComp(d, x) \/ (d = c /\ x = lt)
  BY DEF TypeOK
<1>4. Stage' = [Stage EXCEPT ![lt] = "writing"] /\ Stage[lt] = "asked"
  <2>1. Stage[lt] = "asked" /\ Stage'[lt] = "writing"
    BY <1>1, <1>2, <1>3 DEF Stage
  <2>2. \A x \in Lthreads : x # lt => Stage'[x] = Stage[x]
    BY <1>3 DEF Stage
  <2>3. /\ Stage' = [x \in Lthreads |-> Stage'[x]]
        /\ Stage = [x \in Lthreads |-> Stage[x]]
    BY DEF Stage
  <2> QED BY ONLY <2>1, <2>2, <2>3
<1>5. Running' = Running /\ Ended' = Ended
  BY DEF Running, Ended
<1>6. H!Write(lt)
  BY <1>4, <1>5 DEF H!Write, H!Move
<1> QED BY <1>1, <1>6 DEF HandoffStep, H!Next

LEMMA CompDeferView ==
  ASSUME IInv, NEW c \in Comps, CompDefer(c)
  PROVE  HandoffStep
<1> USE DEF IInv, CompDefer, schedVars, sharedVars, lthreadVars, compVars
<1> DEFINE lt == ccur[c]
<1>1. lt \in Lthreads /\ state[lt] = "RUNCOMPUTE" /\ HeldByComp(c, lt)
  BY DEF CompOK
<1>2. \A d \in Comps, x \in Lthreads :
        x # lt => (HeldByComp(d, x)' <=> HeldByComp(d, x))
  BY DEF TypeOK
<1>3. Stage' = [Stage EXCEPT ![lt] = "home"] /\ Stage[lt] = "writing"
  <2>1. Stage[lt] = "writing" /\ Stage'[lt] = "home"
    BY <1>1 DEF Stage, TypeOK
  <2>2. \A x \in Lthreads : x # lt => Stage'[x] = Stage[x]
    BY <1>2 DEF Stage, TypeOK
  <2>3. /\ Stage' = [x \in Lthreads |-> Stage'[x]]
        /\ Stage = [x \in Lthreads |-> Stage[x]]
    BY DEF Stage
  <2> QED BY ONLY <2>1, <2>2, <2>3
<1>4. Running' = Running /\ Ended' = Ended
  BY DEF Running, Ended
<1>5. H!Return(lt)
  BY <1>3, <1>4 DEF H!Return
<1> QED BY <1>1, <1>5 DEF HandoffStep, H!Next

(* All else it does is its own affair. *)
LEMMA CompSame ==
  ASSUME IInv, NEW c \in Comps,
         \/ CompIdle(c) \/ CompResume(c) \/ CompEnd(c) \/ CompTrigger(c)
         \/ CompWait(c) \/ CompTimeout(c) \/ CompExit(c)
  PROVE  HandoffStep
<1> USE DEF IInv, CompIdle, CompResume, CompEnd, CompTrigger, CompWait,
            CompTimeout, CompExit, schedVars, sharedVars, lthreadVars, compVars
<1>1. \A d \in Comps, x \in Lthreads : HeldByComp(d, x)' <=> HeldByComp(d, x)
  BY DEF TypeOK
<1>2. Stage' = Stage
  BY <1>1, SameStage
<1>3. Running' = Running /\ Ended' = Ended
  BY DEF Running, Ended
<1> QED BY <1>2, <1>3 DEF HandoffStep, H!vars

-----------------------------------------------------------------------------
LEMMA InitView == Init => H!Init
<1> SUFFICES ASSUME Init PROVE H!Init
  OBVIOUS
<1> USE DEF Init, Roots
<1>1. Stage = [lt \in Lthreads |->
                 IF \E s \in Scheds : Root[s] = lt THEN "home" ELSE "none"]
  BY DEF Stage
<1>2. Running = [s \in Scheds |-> None] /\ Ended = {}
  BY DEF Running, Ended
<1>3. lsched = [lt \in Lthreads |-> IF \E s \in Scheds : Root[s] = lt
                                    THEN CHOOSE s \in Scheds : Root[s] = lt
                                    ELSE None]
  <2>1. \A lt \in Lthreads : lt \in Roots <=> \E s \in Scheds : Root[s] = lt
    OBVIOUS
  <2> QED BY <2>1
<1> QED BY <1>1, <1>2, <1>3 DEF H!Init

LEMMA StutterView == UNCHANGED vars => HandoffStep
BY DEF HandoffStep, H!vars, vars, schedVars, sharedVars, lthreadVars, compVars,
       Stage, Running, Ended

LEMMA NextView ==
  ASSUME IInv, IInv', DoneIsDone', [Next]_vars
  PROVE  HandoffStep
<1>1. CASE UNCHANGED vars
  BY <1>1, StutterView
<1>2. ASSUME NEW s \in Scheds, SchedWork(s) \/ PollTimeout(s) PROVE HandoffStep
  BY <1>2, TopView, SchedSame, ReadyResumeView, DeferResumeView, CreateView,
     ExitView, BeginView, ComputeAddView, ComputeSignalView DEF SchedWork
<1>3. ASSUME NEW c \in Comps, CompStep(c) PROVE HandoffStep
  BY <1>3, CompTakeView, CompDeferView, CompSame DEF CompStep
<1>4. CASE Stopped
  BY <1>4, StutterView DEF Stopped
<1> QED BY <1>1, <1>2, <1>3, <1>4 DEF Next

(* lthread_log() can rely on Handoff: a line is written by one pthread that *)
(* has the lthread to itself, after its scheduler has left its context; the *)
(* lthreads come back to their own schedulers in the order in which they    *)
(* were written; and no scheduler ends before them.                         *)
THEOREM HandoffHolds == Spec => HandoffPromise
<1>1. Init => H!Init
  BY InitView
<1>2. IInv => DoneIsDone
  BY DoneFacts
<1>3. IInv /\ IInv' /\ DoneIsDone' /\ [Next]_vars => [H!Next]_H!vars
  BY NextView DEF HandoffStep
<1> QED BY <1>1, <1>2, <1>3, Invariance, PTL DEF Spec, HandoffPromise, H!Spec
=============================================================================
