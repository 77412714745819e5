-------------------------- MODULE Scheduler_proofs --------------------------
(* Proofs about Scheduler, for all timelines, payments, workers and requests,  *)
(* batch sizes, leases, retry policies and both clocks.                        *)
(*                                                                             *)
(* SchedInv is the inductive type invariant: rows refer to rows that exist,    *)
(* a process holds what its program point needs, and what a batch holds was    *)
(* claimed.  `Grows` says what no step ever does to a row; with it each        *)
(* action's proof has only to look at the rows it adds and the process it      *)
(* moves (StepSound).  `Effects` then forgets the actions: to the jobs and the *)
(* workers every step is a claim, a run, a finish, a loss of the batch, or     *)
(* nothing.  The properties are proved from those five.                        *)
(*                                                                             *)
(*   ClaimedInOrder              claims in order (OvertakenWhileLeased)        *)
(*   RunsBounded, BatchUndone    how often a job has run (CrashRepeatsOnce)    *)
(*   NoneDropped                 what proves that a callback was attempted     *)
(*   SettleInv                   attempts, status and retry rows of a delivery *)
(*                               at each point between their three commits     *)
(*   PlayInv                     claims and finishes in order, rows of their   *)
(*                               timeline, state of the last transition        *)
EXTENDS Scheduler, FiniteSetTheorems, SequenceTheorems, WellFoundedInduction, TLAPS

-----------------------------------------------------------------------------
(* Types.                                                                      *)

Txn == [state : InternalStates \cup {"none"}, url : BOOLEAN]
SnapshotRows == [payment : Payments, step : Nat, state : InternalStates]
Delivery ==
  [event : Nat, job : Nat, original : Nat, status : {"scheduled", "cancelled"} \cup Decisions]
Attempt == [delivery : Nat, number : Nat, decision : Decisions]
Proc ==
  [pc : PCs, batch : Seq(Nat), event : Nat, delivery : Nat, number : Nat,
   decision : Decisions \cup {"none"}]

Shapes ==
  /\ now \in 0 .. Horizon /\ crashes \in Nat
  /\ txns \in [Payments -> Txn]
  /\ snapshots \subseteq SnapshotRows
  /\ jobs \in Seq(ScheduledActionRow)
  /\ events \in Seq(CallbackEventRow)
  /\ deliveries \in Seq(Delivery)
  /\ attempts \in Seq(Attempt)
  /\ procs \in [Procs -> Proc]

(* A lease is as long as LeaseTime when it is given, at an instant of the      *)
(* clock; a manual clock that starts again adds that instant, never more.      *)
LeasesFit == \A j \in DOMAIN jobs : jobs[j].lease + now <= LeaseTime + Horizon

(* A job is about a payment that was submitted, a retry about a delivery.      *)
JobsSound ==
  \A j \in DOMAIN jobs :
    /\ txns[jobs[j].payment].state # "none"
    /\ jobs[j].type = "retry" => jobs[j].delivery \in DOMAIN deliveries
    /\ jobs[j].type \in {"transition", "snapshot"} => jobs[j].to \in InternalStates

EventsSound == \A n \in DOMAIN events : txns[events[n].payment].state # "none"

DeliveriesRefer ==
  \A d \in DOMAIN deliveries :
    /\ deliveries[d].event \in DOMAIN events
    /\ deliveries[d].job \in {0} \cup DOMAIN jobs
    /\ deliveries[d].original \in {0} \cup DOMAIN deliveries

AttemptsRefer == \A n \in DOMAIN attempts : attempts[n].delivery \in DOMAIN deliveries

(* What a process holds at its program point.                                  *)
ProcSound(p) ==
  /\ procs[p].pc = "deliver" => procs[p].event \in DOMAIN events
  /\ procs[p].pc \in {"await", "record", "reschedule"} =>
       procs[p].delivery \in DOMAIN deliveries
  /\ procs[p].pc = "record" => procs[p].decision # "none"
  /\ p \in Workers => (procs[p].pc = "idle" <=> procs[p].batch = << >>)
  /\ p \in Requests => procs[p].pc \notin {"execute", "mark"}
  /\ \A n \in DOMAIN procs[p].batch :
       /\ procs[p].batch[n] \in DOMAIN jobs
       /\ jobs[procs[p].batch[n]].status # "scheduled"
       /\ \A m \in DOMAIN procs[p].batch :
            m # n => procs[p].batch[m] # procs[p].batch[n]
ProcsSound == \A p \in Procs : ProcSound(p)

SchedInv ==
  /\ Shapes
  /\ LeasesFit
  /\ JobsSound
  /\ EventsSound
  /\ DeliveriesRefer
  /\ AttemptsRefer
  /\ ProcsSound

LEMMA Consts ==
  /\ BatchSize \in Nat \ {0} /\ LeaseTime \in Nat \ {0} /\ RetryInterval \in Nat \ {0}
  /\ MaxAttempts \in Nat \ {0} /\ Horizon \in Nat /\ MaxCrashes \in Nat /\ MaxReplays \in Nat
  /\ \A delay \in Nat : now \in Nat => At(delay) \in 0 .. Horizon
  BY BoundAssumption DEF At, Min2

LEMMA InitSound == Init => SchedInv
<1> SUFFICES ASSUME Init PROVE SchedInv
  OBVIOUS
<1>1. Shapes
  BY Consts DEF Init, Shapes, Txn, Proc, IdleProc, PCs
<1>2. DOMAIN jobs = {} /\ DOMAIN events = {} /\ DOMAIN deliveries = {} /\ DOMAIN attempts = {}
  BY DEF Init
<1>3. ProcsSound
  BY DEF Init, ProcsSound, ProcSound, IdleProc
<1> QED
  BY <1>1, <1>2, <1>3 
     DEF SchedInv, LeasesFit, JobsSound, EventsSound, DeliveriesRefer, AttemptsRefer

-----------------------------------------------------------------------------
(* A set of numbers that is not empty has a least one.                         *)
LEMMA LeastExists ==
  ASSUME NEW T, T \subseteq Nat, T # {}
  PROVE  Min(T) \in T /\ \A y \in T : Min(T) =< y
<1> DEFINE less == {ss \in Nat \X Nat : ss[1] < ss[2]}
<1>1. IsWellFoundedOn(less, Nat)
  BY NatLessThanWellFounded DEF OpToRel
<1>2. PICK x \in T : \A y \in T : <<y, x>> \notin less
  BY <1>1, WFMin
<1>3. ASSUME NEW y \in T, ~(x =< y)
      PROVE  FALSE
  <2>1. x \in Nat /\ y \in Nat /\ y < x
    BY <1>3
  <2>2. <<y, x>> \in less
    BY <2>1
  <2> QED
    BY <1>2, <2>2
<1>4. \A y \in T : x =< y
  BY <1>3
<1> QED
  BY <1>4 DEF Min

-----------------------------------------------------------------------------
(* What no step does: rows stay, in their place, and what they refer to.       *)

SameJob(old, new) ==
  /\ new.payment = old.payment /\ new.step = old.step /\ new.type = old.type
  /\ new.to = old.to /\ new.source = old.source /\ new.delivery = old.delivery
  /\ new.due = old.due
  /\ new.status = "scheduled" => old.status = "scheduled"
  /\ old.status = "delivered" => new.status = "delivered"

JobsGrow == Len(jobs) <= Len(jobs') /\ \A j \in DOMAIN jobs : SameJob(jobs[j], jobs'[j])
EventsGrow ==
  Len(events) <= Len(events') /\ \A n \in DOMAIN events : events'[n] = events[n]
AttemptsGrow ==
  Len(attempts) <= Len(attempts') /\ \A n \in DOMAIN attempts : attempts'[n] = attempts[n]
SameDelivery(old, new) ==
  new.event = old.event /\ new.job = old.job /\ new.original = old.original
DeliveriesGrow ==
  /\ Len(deliveries) <= Len(deliveries')
  /\ \A d \in DOMAIN deliveries : SameDelivery(deliveries[d], deliveries'[d])
TxnsGrow ==
  \A p \in Payments :
    txns[p].state # "none" => txns'[p].state # "none" /\ (txns'[p].url => txns[p].url)
Grows == JobsGrow /\ EventsGrow /\ AttemptsGrow /\ DeliveriesGrow /\ TxnsGrow

Lens ==
  /\ Len(jobs) \in Nat /\ DOMAIN jobs = 1 .. Len(jobs)
  /\ Len(events) \in Nat /\ DOMAIN events = 1 .. Len(events)
  /\ Len(attempts) \in Nat /\ DOMAIN attempts = 1 .. Len(attempts)
  /\ Len(deliveries) \in Nat /\ DOMAIN deliveries = 1 .. Len(deliveries)

LEMMA LensOf == ASSUME Shapes PROVE Lens
  BY DEF Shapes, Lens

LEMMA Kept ==
  ASSUME Shapes
  PROVE  /\ UNCHANGED jobs => JobsGrow
         /\ UNCHANGED events => EventsGrow
         /\ UNCHANGED attempts => AttemptsGrow
         /\ UNCHANGED deliveries => DeliveriesGrow
         /\ UNCHANGED txns => TxnsGrow
<1>0. Lens
  BY LensOf
<1>1. UNCHANGED jobs => JobsGrow
  BY <1>0 DEF Lens, JobsGrow, SameJob
<1>2. UNCHANGED events => EventsGrow
  BY <1>0 DEF Lens, EventsGrow
<1>3. UNCHANGED attempts => AttemptsGrow
  BY <1>0 DEF Lens, AttemptsGrow
<1>4. UNCHANGED deliveries => DeliveriesGrow
  BY <1>0 DEF Lens, DeliveriesGrow, SameDelivery
<1>5. UNCHANGED txns => TxnsGrow
  BY DEF TxnsGrow
<1> QED
  BY <1>1, <1>2, <1>3, <1>4, <1>5

LEMMA JobTypes ==
  ASSUME Shapes
  PROVE  \A j \in DOMAIN jobs :
           /\ jobs[j] \in ScheduledActionRow
           /\ jobs[j].payment \in Payments /\ jobs[j].step \in Nat /\ jobs[j].delivery \in Nat
           /\ jobs[j].lease \in Nat /\ jobs[j].runs \in Nat /\ jobs[j].due \in 0 .. Horizon
<1>1. \A j \in DOMAIN jobs : jobs[j] \in ScheduledActionRow
  BY DEF Shapes
<1>2. LeaseTime + Horizon \in Nat
  BY Consts
<1> QED
  BY <1>1, <1>2 DEF ScheduledActionRow

LEMMA EventTypes ==
  ASSUME Shapes
  PROVE  \A n \in DOMAIN events : /\ events[n] \in CallbackEventRow
                                  /\ events[n].payment \in Payments
<1>1. \A n \in DOMAIN events : events[n] \in CallbackEventRow
  BY DEF Shapes
<1> QED
  BY <1>1 DEF CallbackEventRow

LEMMA FunctionIsSeq ==
  ASSUME NEW S, NEW n \in Nat, NEW f \in [1 .. n -> S]
  PROVE  f \in Seq(S) /\ Len(f) = n /\ DOMAIN f = 1 .. n
  OBVIOUS

(* What has to be shown of the rows a step adds and of the process it moves.   *)
NewRowsSound ==
  /\ \A j \in DOMAIN jobs' \ DOMAIN jobs :
       /\ txns'[jobs'[j].payment].state # "none"
       /\ jobs'[j].type = "retry" => jobs'[j].delivery \in DOMAIN deliveries'
       /\ jobs'[j].type \in {"transition", "snapshot"} => jobs'[j].to \in InternalStates
  /\ \A n \in DOMAIN events' \ DOMAIN events : txns'[events'[n].payment].state # "none"
  /\ \A d \in DOMAIN deliveries' \ DOMAIN deliveries :
       /\ deliveries'[d].event \in DOMAIN events'
       /\ deliveries'[d].job \in {0} \cup DOMAIN jobs'
       /\ deliveries'[d].original \in {0} \cup DOMAIN deliveries'
  /\ \A n \in DOMAIN attempts' \ DOMAIN attempts :
       attempts'[n].delivery \in DOMAIN deliveries'

LEMMA StepSound ==
  ASSUME SchedInv, Shapes', Grows, LeasesFit', NewRowsSound,
         \A p \in Procs : procs'[p] = procs[p] \/ ProcSound(p)'
  PROVE  SchedInv' /\ Grows
<1>1. /\ Shapes /\ JobsSound /\ EventsSound /\ DeliveriesRefer /\ AttemptsRefer /\ ProcsSound
  BY DEF SchedInv
<1>2. Lens /\ Lens'
  BY <1>1, LensOf DEF Shapes, Lens
<1>3. JobsSound'
  <2> SUFFICES ASSUME NEW j \in DOMAIN jobs'
               PROVE  /\ txns'[jobs'[j].payment].state # "none"
                      /\ jobs'[j].type = "retry" => jobs'[j].delivery \in DOMAIN deliveries'
                      /\ jobs'[j].type \in {"transition", "snapshot"} =>
                           jobs'[j].to \in InternalStates
    BY DEF JobsSound
  <2>1. CASE j \in DOMAIN jobs
    <3>1. jobs[j].payment \in Payments
      BY <1>1, <2>1, JobTypes
    <3>2. /\ jobs'[j].payment = jobs[j].payment /\ jobs'[j].type = jobs[j].type
          /\ jobs'[j].delivery = jobs[j].delivery /\ jobs'[j].to = jobs[j].to
      BY <2>1 DEF Grows, JobsGrow, SameJob
    <3>3. txns'[jobs'[j].payment].state # "none"
      BY <1>1, <2>1, <3>1, <3>2 DEF JobsSound, Grows, TxnsGrow
    <3>4. jobs[j].delivery \in DOMAIN deliveries => jobs'[j].delivery \in DOMAIN deliveries'
      BY <1>2, <3>2 DEF Grows, DeliveriesGrow, Lens
    <3> QED
      BY <1>1, <2>1, <3>2, <3>3, <3>4 DEF JobsSound
  <2>2. CASE j \notin DOMAIN jobs
    BY <2>2 DEF NewRowsSound
  <2> QED
    BY <2>1, <2>2
<1>7. EventsSound'
  <2> SUFFICES ASSUME NEW n \in DOMAIN events', n \in DOMAIN events
               PROVE  txns'[events'[n].payment].state # "none"
    BY DEF EventsSound, NewRowsSound
  <2>1. events[n].payment \in Payments
    BY <1>1, EventTypes
  <2> QED
    BY <1>1, <2>1 DEF EventsSound, Grows, EventsGrow, TxnsGrow
<1>4. DeliveriesRefer'
  BY <1>1, <1>2
     DEF DeliveriesRefer, Grows, DeliveriesGrow, SameDelivery, EventsGrow, JobsGrow,
         NewRowsSound, Lens
<1>5. AttemptsRefer'
  BY <1>1, <1>2
     DEF AttemptsRefer, Grows, AttemptsGrow, DeliveriesGrow, NewRowsSound, Lens
<1>6. ProcsSound'
  <2> SUFFICES ASSUME NEW p \in Procs, procs'[p] = procs[p] PROVE ProcSound(p)'
    BY DEF ProcsSound
  <2>1. ProcSound(p)
    BY <1>1 DEF ProcsSound
  <2>2. \A n \in DOMAIN procs[p].batch : jobs'[procs[p].batch[n]].status # "scheduled"
    BY <2>1 DEF ProcSound, Grows, JobsGrow, SameJob
  <2> QED
    BY <1>2, <2>1, <2>2
       DEF ProcSound, Grows, JobsGrow, EventsGrow, DeliveriesGrow, Lens
<1> QED
  BY <1>3, <1>4, <1>5, <1>6, <1>7 DEF SchedInv

-----------------------------------------------------------------------------
(* The updates the actions are made of.                                        *)

(* A process moves on with the batch it has.                                   *)
LEMMA ProcMoves ==
  ASSUME SchedInv, Shapes', Grows, NEW p \in Procs,
         procs[p].pc # "idle", procs'[p].batch = procs[p].batch,
         procs'[p].pc = "deliver" => procs'[p].event \in DOMAIN events',
         procs'[p].pc \in {"await", "record", "reschedule"} =>
           procs'[p].delivery \in DOMAIN deliveries',
         procs'[p].pc = "record" => procs'[p].decision # "none",
         p \in Workers => procs'[p].pc # "idle",
         p \in Requests => procs'[p].pc \notin {"execute", "mark"}
  PROVE  ProcSound(p)'
<1>0. Lens'
  BY DEF Shapes, Lens
<1>1. ProcSound(p) /\ Lens
  BY LensOf DEF SchedInv, ProcsSound
<1>2. ASSUME NEW n \in DOMAIN procs[p].batch
      PROVE  /\ procs[p].batch[n] \in DOMAIN jobs'
             /\ jobs'[procs[p].batch[n]].status # "scheduled"
             /\ \A m \in DOMAIN procs[p].batch :
                  m # n => procs[p].batch[m] # procs[p].batch[n]
  <2>1. /\ procs[p].batch[n] \in DOMAIN jobs
        /\ jobs[procs[p].batch[n]].status # "scheduled"
        /\ \A m \in DOMAIN procs[p].batch :
             m # n => procs[p].batch[m] # procs[p].batch[n]
    BY <1>1 DEF ProcSound
  <2>2. jobs'[procs[p].batch[n]].status # "scheduled"
    BY <2>1 DEF Grows, JobsGrow, SameJob
  <2>3. procs[p].batch[n] \in DOMAIN jobs'
    BY <1>0, <1>1, <2>1 DEF Lens, Grows, JobsGrow
  <2> QED
    BY <2>1, <2>2, <2>3
<1> QED
  BY <1>1, <1>2 DEF ProcSound

LEMMA ProcRests ==
  ASSUME NEW p \in Procs, procs'[p] = IdleProc
  PROVE  ProcSound(p)'
  BY DEF ProcSound, IdleProc

LEMMA ProcReplaced ==
  ASSUME Shapes, NEW p \in Procs, NEW new \in Proc, procs' = [procs EXCEPT ![p] = new]
  PROVE  /\ procs' \in [Procs -> Proc] /\ procs'[p] = new
         /\ \A q \in Procs \ {p} : procs'[q] = procs[q]
  BY DEF Shapes

LEMMA Goes ==
  ASSUME Shapes, NEW p \in Procs, NEW pc \in PCs, procs' = [procs EXCEPT ![p].pc = pc]
  PROVE  /\ procs' \in [Procs -> Proc]
         /\ procs'[p].pc = pc /\ procs'[p].batch = procs[p].batch
         /\ procs'[p].event = procs[p].event /\ procs'[p].delivery = procs[p].delivery
         /\ procs'[p].number = procs[p].number /\ procs'[p].decision = procs[p].decision
         /\ \A q \in Procs \ {p} : procs'[q] = procs[q]
  BY DEF Shapes, Proc

LEMMA IdleType == IdleProc \in Proc
  BY DEF IdleProc, Proc, PCs

LEMMA Appended ==
  ASSUME NEW S, NEW s \in Seq(S), NEW x \in S, NEW more, more = Append(s, x)
  PROVE  /\ more \in Seq(S) /\ Len(s) \in Nat /\ Len(more) = Len(s) + 1
         /\ DOMAIN s = 1 .. Len(s) /\ DOMAIN more = 1 .. Len(s) + 1
         /\ more[Len(s) + 1] = x /\ \A n \in DOMAIN s : more[n] = s[n]
  OBVIOUS

(* The row a worker is at.                                                     *)
LEMMA CurrentJob ==
  ASSUME SchedInv, NEW w \in Workers, procs[w].pc # "idle"
  PROVE  /\ procs[w].batch \in Seq(Nat) /\ procs[w].batch # << >>
         /\ Current(w) = procs[w].batch[1] /\ 1 \in DOMAIN procs[w].batch
         /\ Current(w) \in DOMAIN jobs /\ Job(w) = jobs[Current(w)]
         /\ Job(w).status # "scheduled" /\ Job(w) \in ScheduledActionRow
         /\ Job(w).payment \in Payments /\ txns[Job(w).payment] \in Txn
         /\ txns[Job(w).payment].state # "none"
<1>1. Shapes /\ ProcSound(w) /\ JobsSound /\ w \in Procs
  BY DEF SchedInv, ProcsSound, Procs
<1>2. procs[w].batch \in Seq(Nat) /\ procs[w].batch # << >>
  BY <1>1 DEF Shapes, Proc, ProcSound
<1>3. Current(w) = procs[w].batch[1] /\ 1 \in DOMAIN procs[w].batch
  BY <1>2 DEF Current
<1>4. /\ Current(w) \in DOMAIN jobs /\ Job(w) = jobs[Current(w)]
      /\ Job(w).status # "scheduled"
  BY <1>1, <1>3 DEF ProcSound, Job
<1>5. Job(w) \in ScheduledActionRow /\ Job(w).payment \in Payments
  BY <1>1, <1>4, JobTypes
<1>6. txns[Job(w).payment] \in Txn
  BY <1>1, <1>5 DEF Shapes
<1>7. txns[Job(w).payment].state # "none"
  BY <1>1, <1>4 DEF JobsSound
<1> QED
  BY <1>2, <1>3, <1>4, <1>5, <1>6, <1>7

(* Job c runs once more.                                                       *)
LEMMA RunCounted ==
  ASSUME Shapes, NEW c \in DOMAIN jobs, jobs' = [jobs EXCEPT ![c].runs = @ + 1]
  PROVE  /\ jobs' \in Seq(ScheduledActionRow) /\ Len(jobs') = Len(jobs)
         /\ DOMAIN jobs' = DOMAIN jobs /\ JobsGrow
         /\ jobs'[c].runs = jobs[c].runs + 1
         /\ \A j \in DOMAIN jobs : /\ j # c => jobs'[j] = jobs[j]
                                   /\ SameJob(jobs[j], jobs'[j])
                                   /\ jobs'[j].status = jobs[j].status
                                   /\ jobs'[j].lease = jobs[j].lease
<1> DEFINE old == jobs[c]
           new == [old EXCEPT !.runs = old.runs + 1]
<1>0. Lens /\ old \in ScheduledActionRow /\ old.runs + 1 \in Nat /\ jobs \in Seq(ScheduledActionRow)
  BY LensOf, JobTypes DEF Shapes
<1>1. jobs' = [jobs EXCEPT ![c] = new]
  OBVIOUS
<1> HIDE DEF old
<1>2. /\ new \in ScheduledActionRow /\ SameJob(old, new) /\ new.runs = old.runs + 1
      /\ new.status = old.status /\ new.lease = old.lease
  BY <1>0 DEF ScheduledActionRow, SameJob
<1> HIDE DEF new
<1>3. /\ jobs' \in Seq(ScheduledActionRow) /\ Len(jobs') = Len(jobs) /\ DOMAIN jobs' = DOMAIN jobs
      /\ jobs'[c] = new /\ \A j \in DOMAIN jobs \ {c} : jobs'[j] = jobs[j]
  BY ONLY <1>0, <1>1, <1>2, c \in DOMAIN jobs DEF Lens
<1>4. \A j \in DOMAIN jobs \ {c} : SameJob(jobs[j], jobs'[j])
  BY <1>3 DEF SameJob
<1>5. \A j \in DOMAIN jobs : SameJob(jobs[j], jobs'[j])
  BY <1>2, <1>3, <1>4 DEF old
<1> QED
  BY <1>0, <1>2, <1>3, <1>5 DEF old, JobsGrow, Lens

(* Job c is finished.                                                          *)
LEMMA Marked ==
  ASSUME Shapes, NEW c \in DOMAIN jobs, jobs[c].status # "scheduled",
         jobs' = [jobs EXCEPT ![c].status = "delivered", ![c].lease = 0]
  PROVE  /\ jobs' \in Seq(ScheduledActionRow) /\ Len(jobs') = Len(jobs)
         /\ DOMAIN jobs' = DOMAIN jobs /\ JobsGrow
         /\ jobs'[c].status = "delivered"
         /\ \A j \in DOMAIN jobs : /\ j # c => jobs'[j] = jobs[j]
                                   /\ SameJob(jobs[j], jobs'[j])
                                   /\ jobs'[j].runs = jobs[j].runs
                                   /\ jobs'[j].lease \in {0, jobs[j].lease}
<1> DEFINE old == jobs[c]
           new == [old EXCEPT !.status = "delivered", !.lease = 0]
<1>0. /\ Lens /\ old \in ScheduledActionRow /\ jobs \in Seq(ScheduledActionRow)
      /\ 0 \in 0 .. LeaseTime + Horizon /\ old.status # "scheduled"
  BY LensOf, JobTypes, Consts DEF Shapes
<1>1. jobs' = [jobs EXCEPT ![c] = new]
  BY <1>0
<1> HIDE DEF old
<1>2. new \in ScheduledActionRow
  BY <1>0 DEF ScheduledActionRow
<1>3. SameJob(old, new) /\ new.runs = old.runs /\ new.status = "delivered" /\ new.lease = 0
  BY <1>0 DEF ScheduledActionRow, SameJob
<1> HIDE DEF new
<1>4. /\ jobs' \in Seq(ScheduledActionRow) /\ Len(jobs') = Len(jobs) /\ DOMAIN jobs' = DOMAIN jobs
      /\ jobs'[c] = new /\ \A j \in DOMAIN jobs \ {c} : jobs'[j] = jobs[j]
  BY ONLY <1>0, <1>1, <1>2, c \in DOMAIN jobs DEF Lens
<1>5. \A j \in DOMAIN jobs \ {c} : SameJob(jobs[j], jobs'[j])
  BY <1>4 DEF SameJob
<1>6. \A j \in DOMAIN jobs : SameJob(jobs[j], jobs'[j])
  BY <1>3, <1>4, <1>5 DEF old
<1> QED
  BY <1>0, <1>3, <1>4, <1>6 DEF old, JobsGrow, Lens

(* Only the time that is left of the leases changes.                           *)
LEMMA LeasesMove ==
  ASSUME Shapes, NEW left \in [DOMAIN jobs -> 0 .. LeaseTime + Horizon],
         jobs' = [j \in DOMAIN jobs |-> [jobs[j] EXCEPT !.lease = left[j]]]
  PROVE  /\ jobs' \in Seq(ScheduledActionRow) /\ Len(jobs') = Len(jobs)
         /\ DOMAIN jobs' = DOMAIN jobs /\ JobsGrow
         /\ \A j \in DOMAIN jobs : /\ SameJob(jobs[j], jobs'[j])
                                   /\ jobs'[j].status = jobs[j].status
                                   /\ jobs'[j].runs = jobs[j].runs
                                   /\ jobs'[j].lease = left[j]
<1>0. Lens /\ LeaseTime + Horizon \in Nat
  BY LensOf, Consts
<1>1. ASSUME NEW j \in DOMAIN jobs
      PROVE  /\ jobs'[j] \in ScheduledActionRow
             /\ SameJob(jobs[j], jobs'[j])
             /\ jobs'[j].status = jobs[j].status /\ jobs'[j].runs = jobs[j].runs
             /\ jobs'[j].lease = left[j]
  <2> DEFINE old == jobs[j]
             new == jobs'[j]
             lease == left[j]
  <2>1. old \in ScheduledActionRow /\ lease \in 0 .. LeaseTime + Horizon
    BY JobTypes
  <2>2. new = [old EXCEPT !.lease = lease]
    OBVIOUS
  <2> HIDE DEF old, new, lease
  <2>3. new \in ScheduledActionRow
    BY <2>1, <2>2 DEF ScheduledActionRow
  <2>4. /\ SameJob(old, new) /\ new.status = old.status /\ new.runs = old.runs
        /\ new.lease = lease
    BY <2>1, <2>2 DEF ScheduledActionRow, SameJob
  <2> QED
    BY <2>3, <2>4 DEF old, new, lease
<1>2. jobs' \in [1 .. Len(jobs) -> ScheduledActionRow]
  BY <1>0, <1>1 DEF Lens
<1>3. /\ jobs' \in Seq(ScheduledActionRow) /\ Len(jobs') = Len(jobs)
      /\ DOMAIN jobs' = DOMAIN jobs
  BY <1>0, <1>2, FunctionIsSeq DEF Lens
<1> QED
  BY <1>0, <1>1, <1>3 DEF JobsGrow, Lens

-----------------------------------------------------------------------------
(* The steps of a worker.                                                      *)

LEMMA Batches ==
  ASSUME Shapes, NEW batch \in NextBatches, DueJobs # {}
  PROVE  /\ batch \in Seq(Nat) /\ Len(batch) \in Nat \ {0} /\ Len(batch) <= BatchSize
         /\ DOMAIN batch = 1 .. Len(batch)
         /\ Range(batch) \subseteq DueJobs /\ DueJobs \subseteq DOMAIN jobs
         /\ \A n \in DOMAIN batch : batch[n] \in DueJobs
         /\ \A m, n \in DOMAIN batch :
              m < n => batch[m] # batch[n] /\ ~Before(batch[n], batch[m])
         /\ \A j \in DueJobs \ Range(batch), n \in DOMAIN batch : ~Before(j, batch[n])
<1> DEFINE size == Min2(BatchSize, Cardinality(DueJobs))
<1>1. DueJobs \subseteq 1 .. Len(jobs) /\ Len(jobs) \in Nat
  BY DEF DueJobs, Shapes
<1>2. IsFiniteSet(1 .. Len(jobs))
  <2>1. 1 \in Int /\ Len(jobs) \in Int
    BY <1>1
  <2> QED
    BY <2>1, FS_Interval
<1>3. IsFiniteSet(DueJobs)
  BY <1>1, <1>2, FS_Subset
<1>4. Cardinality(DueJobs) \in Nat /\ Cardinality(DueJobs) # 0
  BY <1>3, FS_CardinalityType, FS_EmptySet
<1>5. size \in Nat \ {0} /\ size <= BatchSize
  BY <1>4, Consts DEF Min2
<1>6. /\ batch \in [1 .. size -> DueJobs]
      /\ \A m, n \in 1 .. size : m < n => batch[m] # batch[n] /\ ~Before(batch[n], batch[m])
      /\ \A j \in DueJobs \ Range(batch), n \in 1 .. size : ~Before(j, batch[n])
  BY DEF NextBatches
<1> HIDE DEF size
<1>7. batch \in Seq(DueJobs) /\ Len(batch) = size /\ DOMAIN batch = 1 .. size
  BY <1>5, <1>6
<1>8. DueJobs \subseteq Nat
  BY <1>1
<1>9. batch \in Seq(Nat)
  BY <1>7, <1>8, SeqMonotonic
<1>10. Range(batch) \subseteq DueJobs
  BY <1>6 DEF Range
<1> QED
  BY <1>1, <1>5, <1>6, <1>7, <1>9, <1>10

LEMMA ClaimSound ==
  ASSUME SchedInv, NEW w \in Workers, Claim(w)
  PROVE  SchedInv' /\ Grows
<1>1. Shapes /\ LeasesFit /\ ProcsSound
  BY DEF SchedInv
<1>2. PICK batch \in NextBatches :
        /\ jobs' = [j \in DOMAIN jobs |->
             IF j \in Range(batch)
             THEN [jobs[j] EXCEPT !.status = "leased", !.lease = LeaseTime]
             ELSE jobs[j]]
        /\ procs' = [procs EXCEPT ![w] = [IdleProc EXCEPT !.pc = "execute", !.batch = batch]]
  BY DEF Claim
<1>3. UNCHANGED <<now, txns, snapshots, events, deliveries, attempts, crashes>> /\ DueJobs # {}
  BY DEF Claim
<1>4. /\ batch \in Seq(Nat) /\ Len(batch) \in Nat \ {0} /\ DOMAIN batch = 1 .. Len(batch)
      /\ \A n \in DOMAIN batch : batch[n] \in DueJobs /\ batch[n] \in DOMAIN jobs
                                 /\ batch[n] \in Range(batch)
      /\ \A m, n \in DOMAIN batch : m < n => batch[m] # batch[n]
  BY <1>1, <1>3, Batches DEF Range
<1>5. ASSUME NEW j \in DOMAIN jobs
      PROVE  /\ jobs'[j] \in ScheduledActionRow /\ SameJob(jobs[j], jobs'[j])
             /\ j \in Range(batch) => jobs'[j].status = "leased"
             /\ jobs'[j].lease \in {jobs[j].lease, LeaseTime}
  <2>1. jobs[j] \in ScheduledActionRow
    BY <1>1 DEF Shapes
  <2>2. jobs[j].status # "delivered" \/ j \notin Range(batch)
    BY <1>1, <1>3, Batches DEF DueJobs
  <2> DEFINE old == jobs[j]
  <2>3. CASE j \in Range(batch)
    <3> DEFINE new == jobs'[j]
    <3>1. new = [old EXCEPT !.status = "leased", !.lease = LeaseTime]
      BY <1>2, <2>3
    <3>2. old \in ScheduledActionRow /\ old.status # "delivered"
      BY <2>1, <2>2, <2>3
    <3> HIDE DEF old, new
    <3>3. LeaseTime \in 0 .. LeaseTime + Horizon
      BY Consts
    <3>4. new \in ScheduledActionRow
      BY <3>1, <3>2, <3>3 DEF ScheduledActionRow
    <3>5. new.status = "leased" /\ new.lease = LeaseTime /\ SameJob(old, new)
      BY <3>1, <3>2 DEF ScheduledActionRow, SameJob
    <3> QED
      BY <3>4, <3>5 DEF old, new
  <2>4. CASE j \notin Range(batch)
    <3>1. jobs'[j] = jobs[j]
      BY <1>2, <2>4
    <3> QED
      BY <2>1, <2>4, <3>1 DEF SameJob
  <2> QED
    BY <2>3, <2>4
<1>6. jobs' \in Seq(ScheduledActionRow) /\ Len(jobs') = Len(jobs) /\ DOMAIN jobs' = DOMAIN jobs
  <2>1. Len(jobs) \in Nat /\ DOMAIN jobs = 1 .. Len(jobs)
    BY <1>1 DEF Shapes
  <2>2. jobs' \in [1 .. Len(jobs) -> ScheduledActionRow]
    BY <1>2, <1>5, <2>1
  <2> QED
    BY <2>1, <2>2, FunctionIsSeq
<1>7. procs' \in [Procs -> Proc] /\ procs'[w].pc = "execute" /\ procs'[w].batch = batch
      /\ \A p \in Procs \ {w} : procs'[p] = procs[p]
  BY <1>1, <1>2, <1>4 DEF Shapes, Proc, IdleProc, PCs, Procs
<1>8. Shapes'
  BY <1>1, <1>3, <1>6, <1>7 DEF Shapes
<1>9. Grows
  <2>1. JobsGrow
    BY <1>1, <1>5, <1>6, LensOf DEF JobsGrow, Lens
  <2> QED
    BY <1>1, <1>3, <2>1, Kept DEF Grows
<1>10. LeasesFit'
  <2>1. now' = now /\ now \in 0 .. Horizon
    BY <1>1, <1>3 DEF Shapes
  <2>2. ASSUME NEW j \in DOMAIN jobs
        PROVE  jobs'[j].lease + now' <= LeaseTime + Horizon
    <3>1. jobs[j].lease \in Nat /\ jobs[j].lease + now <= LeaseTime + Horizon
      BY <1>1, JobTypes DEF LeasesFit
    <3> QED
      BY <1>5, <2>1, <3>1, Consts
  <2> QED
    BY <1>6, <2>2 DEF LeasesFit
<1>11. NewRowsSound
  BY <1>3, <1>6 DEF NewRowsSound
<1>12. ProcSound(w)'
  BY <1>4, <1>5, <1>6, <1>7, ProcAssumption DEF ProcSound
<1> QED
  BY <1>7, <1>8, <1>9, <1>10, <1>11, <1>12, StepSound

LEMMA TransitionSound ==
  ASSUME SchedInv, NEW w \in Workers, Transition(w)
  PROVE  SchedInv' /\ Grows
<1>1. Shapes /\ LeasesFit /\ w \in Procs
  BY DEF SchedInv, Procs
<1>2. /\ procs[w].pc = "execute" /\ Job(w).type = "transition"
      /\ txns' = [txns EXCEPT ![Job(w).payment].state = Job(w).to]
      /\ snapshots' = snapshots \cup {SnapshotRow(w, Job(w).to)}
      /\ jobs' = [jobs EXCEPT ![Current(w)].runs = @ + 1]
      /\ procs' = [procs EXCEPT ![w].pc = "mark"]
      /\ UNCHANGED <<now, events, deliveries, attempts, crashes>>
  BY DEF Transition, Executing, CountRun, Goto
<1>3. /\ Current(w) \in DOMAIN jobs /\ Job(w) = jobs[Current(w)] /\ Job(w) \in ScheduledActionRow
      /\ Job(w).payment \in Payments /\ Job(w).step \in Nat /\ Job(w).to \in InternalStates
  BY <1>1, <1>2, CurrentJob, JobTypes DEF SchedInv, JobsSound
<1>4. /\ jobs' \in Seq(ScheduledActionRow) /\ Len(jobs') = Len(jobs)
      /\ DOMAIN jobs' = DOMAIN jobs /\ JobsGrow
      /\ \A j \in DOMAIN jobs : jobs'[j].lease = jobs[j].lease
  BY <1>1, <1>2, <1>3, RunCounted
<1>5. /\ procs' \in [Procs -> Proc] /\ procs'[w].pc = "mark" /\ procs'[w].batch = procs[w].batch
      /\ \A q \in Procs \ {w} : procs'[q] = procs[q]
  BY <1>1, <1>2, Goes DEF PCs
<1>6. txns' \in [Payments -> Txn] /\ TxnsGrow
  <2> DEFINE p == Job(w).payment
             to == Job(w).to
  <2>1. txns' = [txns EXCEPT ![p].state = to] /\ p \in Payments /\ to \in InternalStates
    BY <1>2, <1>3
  <2> HIDE DEF p, to
  <2> QED
    BY <1>1, <2>1 DEF Shapes, Txn, TxnsGrow, InternalStates
<1>7. snapshots' \subseteq SnapshotRows
  BY <1>1, <1>2, <1>3 DEF Shapes, SnapshotRows, SnapshotRow
<1>8. Shapes'
  BY <1>1, <1>2, <1>4, <1>5, <1>6, <1>7 DEF Shapes
<1>9. Grows
  BY <1>1, <1>2, <1>4, <1>6, Kept DEF Grows
<1>10. LeasesFit'
  BY <1>1, <1>2, <1>4 DEF LeasesFit
<1>11. NewRowsSound
  BY <1>2, <1>4 DEF NewRowsSound
<1>12. ProcSound(w)'
  BY <1>1, <1>2, <1>5, <1>8, <1>9, ProcMoves, ProcAssumption
<1> QED
  BY <1>5, <1>8, <1>9, <1>10, <1>11, <1>12, StepSound

LEMMA SnapshotSound ==
  ASSUME SchedInv, NEW w \in Workers, Snapshot(w)
  PROVE  SchedInv' /\ Grows
<1>1. Shapes /\ LeasesFit /\ w \in Procs
  BY DEF SchedInv, Procs
<1>2. /\ procs[w].pc = "execute" /\ Job(w).type = "snapshot"
      /\ snapshots' = snapshots \cup {SnapshotRow(w, Job(w).to)}
      /\ jobs' = [jobs EXCEPT ![Current(w)].runs = @ + 1]
      /\ procs' = [procs EXCEPT ![w].pc = "mark"]
      /\ UNCHANGED <<now, txns, events, deliveries, attempts, crashes>>
  BY DEF Snapshot, Executing, CountRun, Goto
<1>3. /\ Current(w) \in DOMAIN jobs /\ Job(w) = jobs[Current(w)]
      /\ Job(w).payment \in Payments /\ Job(w).step \in Nat /\ Job(w).to \in InternalStates
  BY <1>1, <1>2, CurrentJob, JobTypes DEF SchedInv, JobsSound
<1>4. /\ jobs' \in Seq(ScheduledActionRow) /\ Len(jobs') = Len(jobs)
      /\ DOMAIN jobs' = DOMAIN jobs /\ JobsGrow
      /\ \A j \in DOMAIN jobs : jobs'[j].lease = jobs[j].lease
  BY <1>1, <1>2, <1>3, RunCounted
<1>5. /\ procs' \in [Procs -> Proc] /\ procs'[w].pc = "mark" /\ procs'[w].batch = procs[w].batch
      /\ \A q \in Procs \ {w} : procs'[q] = procs[q]
  BY <1>1, <1>2, Goes DEF PCs
<1>6. snapshots' \subseteq SnapshotRows
  BY <1>1, <1>2, <1>3 DEF Shapes, SnapshotRows, SnapshotRow
<1>7. Shapes'
  BY <1>1, <1>2, <1>4, <1>5, <1>6 DEF Shapes
<1>8. Grows
  BY <1>1, <1>2, <1>4, Kept DEF Grows
<1>9. LeasesFit'
  BY <1>1, <1>2, <1>4 DEF LeasesFit
<1>10. NewRowsSound
  BY <1>2, <1>4 DEF NewRowsSound
<1>11. ProcSound(w)'
  BY <1>1, <1>2, <1>5, <1>7, <1>8, ProcMoves, ProcAssumption
<1> QED
  BY <1>5, <1>7, <1>8, <1>9, <1>10, <1>11, StepSound

(* A step that changes nothing but one process.                                *)
LEMMA OnlyProcs ==
  ASSUME SchedInv, UNCHANGED <<now, tables, crashes>>, NEW p \in Procs,
         procs' \in [Procs -> Proc], \A q \in Procs \ {p} : procs'[q] = procs[q],
         Grows /\ Shapes' => ProcSound(p)'
  PROVE  SchedInv' /\ Grows
<1>1. Shapes /\ LeasesFit
  BY DEF SchedInv
<1>2. Shapes'
  BY <1>1 DEF Shapes, tables
<1>3. Grows
  BY <1>1, Kept DEF Grows, tables
<1>4. LeasesFit' /\ NewRowsSound
  BY <1>1 DEF LeasesFit, NewRowsSound, tables
<1> QED
  BY <1>2, <1>3, <1>4, StepSound

LEMMA NothingToSendSound ==
  ASSUME SchedInv, NEW w \in Workers, NothingToSend(w)
  PROVE  SchedInv' /\ Grows
<1>1. Shapes /\ w \in Procs
  BY DEF SchedInv, Procs
<1>2. /\ procs[w].pc = "execute" /\ UNCHANGED <<now, tables, crashes>>
      /\ procs' = [procs EXCEPT ![w].pc = "mark"]
  BY DEF NothingToSend, Executing, Goto
<1>3. /\ procs' \in [Procs -> Proc] /\ procs'[w].pc = "mark" /\ procs'[w].batch = procs[w].batch
      /\ \A q \in Procs \ {w} : procs'[q] = procs[q]
  BY <1>1, <1>2, Goes DEF PCs
<1> QED
  BY <1>1, <1>2, <1>3, OnlyProcs, ProcMoves, ProcAssumption

(* The event a repeated or corrupted callback takes.                           *)
LEMMA Sources ==
  ASSUME SchedInv, NEW w \in Workers, HasSource(w)
  PROVE  SourceEvent(w) \in DOMAIN events
<1>1. SourceDeliveries(w) \subseteq DOMAIN deliveries /\ SourceDeliveries(w) # {}
  BY DEF SourceDeliveries, HasSource
<1>2. DOMAIN deliveries = 1 .. Len(deliveries) /\ Len(deliveries) \in Nat
  BY LensOf DEF SchedInv, Lens
<1>3. Min(SourceDeliveries(w)) \in SourceDeliveries(w)
  BY <1>1, <1>2, LeastExists
<1> QED
  BY <1>1, <1>3 DEF SchedInv, DeliveriesRefer, SourceEvent

LEMMA RepeatEventSound ==
  ASSUME SchedInv, NEW w \in Workers, RepeatEvent(w)
  PROVE  SchedInv' /\ Grows
<1> DEFINE event == SourceEvent(w)
           old == procs[w]
           new == [old EXCEPT !.pc = "deliver", !.event = event]
<1>1. Shapes /\ w \in Procs /\ old \in Proc
  BY DEF SchedInv, Procs, Shapes
<1>2. /\ old.pc = "execute" /\ UNCHANGED <<now, tables, crashes>>
      /\ procs' = [procs EXCEPT ![w] = new] /\ event \in DOMAIN events
  BY Sources, <1>1 DEF RepeatEvent, Executing
<1>3. event \in Nat
  BY <1>1, <1>2, LensOf DEF Lens
<1> HIDE DEF event, old
<1>4. /\ new \in Proc /\ new.pc = "deliver" /\ new.event = event /\ new.batch = old.batch
  BY <1>1, <1>3 DEF Proc, PCs
<1> HIDE DEF new
<1>5. /\ procs' \in [Procs -> Proc] /\ procs'[w] = new
      /\ \A q \in Procs \ {w} : procs'[q] = procs[q]
  BY <1>1, <1>2, <1>4, ProcReplaced
<1>6. DOMAIN events' = DOMAIN events
  BY <1>2 DEF tables
<1>7. Grows /\ Shapes' => ProcSound(w)'
  BY <1>1, <1>2, <1>4, <1>5, <1>6, ProcMoves, ProcAssumption DEF old
<1> QED
  BY <1>1, <1>2, <1>5, <1>7, OnlyProcs

LEMMA MaterializeEventSound ==
  ASSUME SchedInv, NEW w \in Workers, MaterializeEvent(w)
  PROVE  SchedInv' /\ Grows
<1> DEFINE old == procs[w]
           count == Len(events')
           new == [old EXCEPT !.pc = "deliver", !.event = count]
<1>1. Shapes /\ LeasesFit /\ w \in Procs /\ old \in Proc /\ Lens
  BY LensOf DEF SchedInv, Procs, Shapes
<1>2. /\ old.pc = "execute" /\ procs' = [procs EXCEPT ![w] = new]
      /\ UNCHANGED <<now, txns, snapshots, jobs, deliveries, attempts, crashes>>
  BY <1>1 DEF MaterializeEvent, Executing
<1>3. PICK state \in BodyStates(w) :
        events' = Append(events,
          IF Job(w).type = "webhook" THEN EventOf(Job(w).payment, state, "valid")
          ELSE IF HasSource(w) THEN [events[SourceEvent(w)] EXCEPT !.signature = "corrupt"]
          ELSE EventOf(Job(w).payment, state, "corrupt"))
  BY DEF MaterializeEvent
<1>4. /\ Job(w).payment \in Payments /\ txns[Job(w).payment] \in Txn
      /\ txns[Job(w).payment].state # "none"
  BY <1>2, CurrentJob
<1>5. state \in InternalStates
  BY <1>1, <1>3, <1>4 DEF BodyStates, SnapshotsOf, Shapes, SnapshotRows, Txn
<1>6. PICK row \in CallbackEventRow :
        events' = Append(events, row) /\ txns[row.payment].state # "none"
  <2>1. CASE Job(w).type = "webhook"
    BY <1>3, <1>4, <1>5, <2>1 DEF EventOf, CallbackEventRow
  <2>2. CASE Job(w).type # "webhook" /\ HasSource(w)
    <3> DEFINE source == events[SourceEvent(w)]
    <3>1. /\ source \in CallbackEventRow /\ txns[source.payment].state # "none"
          /\ events' = Append(events, [source EXCEPT !.signature = "corrupt"])
      BY <1>1, <1>3, <2>2, Sources DEF Shapes, SchedInv, EventsSound
    <3> HIDE DEF source
    <3>2. /\ [source EXCEPT !.signature = "corrupt"] \in CallbackEventRow
          /\ [source EXCEPT !.signature = "corrupt"].payment = source.payment
      BY <3>1 DEF CallbackEventRow
    <3> QED
      BY <3>1, <3>2
  <2>3. CASE Job(w).type # "webhook" /\ ~HasSource(w)
    BY <1>3, <1>4, <1>5, <2>3 DEF EventOf, CallbackEventRow
  <2> QED
    BY <2>1, <2>2, <2>3
<1>7. /\ events' \in Seq(CallbackEventRow) /\ Len(events') = Len(events) + 1
      /\ DOMAIN events' = 1 .. Len(events) + 1 /\ events'[Len(events) + 1] = row
      /\ \A n \in DOMAIN events : events'[n] = events[n]
  BY <1>1, <1>6, Appended DEF Shapes
<1>8. count \in DOMAIN events' /\ count \in Nat
  BY <1>1, <1>7 DEF Lens
<1> HIDE DEF count, old
<1>9. /\ new \in Proc /\ new.pc = "deliver" /\ new.event = count /\ new.batch = old.batch
  BY <1>1, <1>8 DEF Proc, PCs
<1> HIDE DEF new
<1>10. /\ procs' \in [Procs -> Proc] /\ procs'[w] = new
       /\ \A q \in Procs \ {w} : procs'[q] = procs[q]
  BY <1>1, <1>2, <1>9, ProcReplaced
<1>11. Shapes'
  BY <1>1, <1>2, <1>7, <1>10 DEF Shapes
<1>12. Grows
  <2>1. EventsGrow
    BY <1>1, <1>7 DEF EventsGrow, Lens
  <2> QED
    BY <1>1, <1>2, <2>1, Kept DEF Grows
<1>13. LeasesFit' /\ NewRowsSound
  <2>1. \A n \in DOMAIN events' \ DOMAIN events : events'[n] = row
    BY <1>1, <1>7 DEF Lens
  <2> QED
    BY <1>1, <1>2, <1>6, <2>1 DEF LeasesFit, NewRowsSound
<1>14. ProcSound(w)'
  BY <1>1, <1>2, <1>8, <1>9, <1>10, <1>11, <1>12, ProcMoves, ProcAssumption DEF old
<1> QED
  BY <1>10, <1>11, <1>12, <1>13, <1>14, StepSound

LEMMA Numbers ==
  ASSUME Shapes, NEW d
  PROVE  /\ AttemptsOf(d) \subseteq DOMAIN attempts /\ IsFiniteSet(AttemptsOf(d))
         /\ Cardinality(AttemptsOf(d)) \in Nat /\ NextNumber(d) \in Nat \ {0}
<1>1. AttemptsOf(d) \subseteq 1 .. Len(attempts) /\ Len(attempts) \in Nat
  BY LensOf DEF AttemptsOf, Lens
<1>2. IsFiniteSet(1 .. Len(attempts))
  <2>1. 1 \in Int /\ Len(attempts) \in Int
    BY <1>1
  <2> QED
    BY <2>1, FS_Interval
<1>3. IsFiniteSet(AttemptsOf(d))
  BY <1>1, <1>2, FS_Subset
<1>4. Cardinality(AttemptsOf(d)) \in Nat
  BY <1>3, FS_CardinalityType
<1> QED
  BY <1>3, <1>4 DEF AttemptsOf, NextNumber

LEMMA RetrySound ==
  ASSUME SchedInv, NEW w \in Workers, Retry(w)
  PROVE  SchedInv' /\ Grows
<1> DEFINE old == procs[w]
           delivery == Job(w).delivery
           number == NextNumber(Job(w).delivery)
           new == [old EXCEPT !.pc = "await", !.delivery = delivery, !.number = number]
<1>1. Shapes /\ LeasesFit /\ w \in Procs /\ old \in Proc /\ Lens
  BY LensOf DEF SchedInv, Procs, Shapes
<1>2. /\ old.pc = "execute" /\ Job(w).type = "retry" /\ procs' = [procs EXCEPT ![w] = new]
      /\ jobs' = [jobs EXCEPT ![Current(w)].runs = @ + 1]
      /\ UNCHANGED <<now, txns, snapshots, events, deliveries, attempts, crashes>>
  BY <1>1 DEF Retry, Executing, CountRun
<1>3. Current(w) \in DOMAIN jobs /\ delivery \in DOMAIN deliveries
  BY <1>2, CurrentJob DEF SchedInv, JobsSound
<1>4. number \in Nat /\ delivery \in Nat
  BY <1>1, <1>3, Numbers DEF Lens
<1>5. /\ jobs' \in Seq(ScheduledActionRow) /\ Len(jobs') = Len(jobs)
      /\ DOMAIN jobs' = DOMAIN jobs /\ JobsGrow
      /\ \A j \in DOMAIN jobs : jobs'[j].lease = jobs[j].lease
  BY <1>1, <1>2, <1>3, RunCounted
<1> HIDE DEF number, delivery, old
<1>6. /\ new \in Proc /\ new.pc = "await" /\ new.delivery = delivery /\ new.batch = old.batch
  BY <1>1, <1>4 DEF Proc, PCs
<1> HIDE DEF new
<1>7. /\ procs' \in [Procs -> Proc] /\ procs'[w] = new
      /\ \A q \in Procs \ {w} : procs'[q] = procs[q]
  BY <1>1, <1>2, <1>6, ProcReplaced
<1>8. Shapes'
  BY <1>1, <1>2, <1>5, <1>7 DEF Shapes
<1>9. Grows
  BY <1>1, <1>2, <1>5, Kept DEF Grows
<1>10. LeasesFit' /\ NewRowsSound
  BY <1>1, <1>2, <1>5 DEF LeasesFit, NewRowsSound
<1>11. ProcSound(w)'
  BY <1>1, <1>2, <1>3, <1>6, <1>7, <1>8, <1>9, ProcMoves, ProcAssumption DEF old
<1> QED
  BY <1>7, <1>8, <1>9, <1>10, <1>11, StepSound

(* On to the next row of the batch.                                            *)
LEMMA NextOfBatch ==
  ASSUME SchedInv, NEW w \in Workers, procs[w].pc # "idle"
  PROVE  /\ AfterCurrent(w) \in Proc
         /\ \/ AfterCurrent(w) = IdleProc
            \/ /\ AfterCurrent(w).pc = "execute" /\ AfterCurrent(w).batch = Tail(procs[w].batch)
               /\ AfterCurrent(w).batch # << >>
         /\ Tail(procs[w].batch) \in Seq(Nat)
         /\ \A n \in DOMAIN Tail(procs[w].batch) :
              /\ n + 1 \in DOMAIN procs[w].batch
              /\ Tail(procs[w].batch)[n] = procs[w].batch[n + 1]
<1> DEFINE batch == procs[w].batch
           rest == Tail(batch)
<1>1. batch \in Seq(Nat) /\ batch # << >>
  BY CurrentJob
<1> HIDE DEF batch
<1>2. /\ rest \in Seq(Nat) /\ Len(rest) = Len(batch) - 1 /\ Len(batch) \in Nat
      /\ \A n \in DOMAIN rest : n + 1 \in DOMAIN batch /\ rest[n] = batch[n + 1]
  <2>1. /\ rest \in Seq(Nat) /\ Len(rest) = Len(batch) - 1
        /\ \A n \in 1 .. Len(rest) : rest[n] = batch[n + 1]
    BY <1>1, HeadTailProperties
  <2> HIDE DEF rest
  <2>2. Len(batch) \in Nat /\ DOMAIN batch = 1 .. Len(batch) /\ DOMAIN rest = 1 .. Len(rest)
    BY <1>1, <2>1
  <2> QED
    BY <2>1, <2>2
<1> HIDE DEF rest
<1>3. Len(batch) # 1 => rest # << >>
  <2>1. Len(<< >>) = 0
    OBVIOUS
  <2> QED
    BY <1>2, <2>1
<1>4. CASE Len(batch) = 1
  BY <1>2, <1>4, IdleType DEF AfterCurrent, batch, rest
<1>5. CASE Len(batch) # 1
  <2>1. AfterCurrent(w) = [IdleProc EXCEPT !.pc = "execute", !.batch = rest]
    BY <1>5 DEF AfterCurrent, batch, rest
  <2>2. AfterCurrent(w) = [pc |-> "execute", batch |-> rest, event |-> 0, delivery |-> 0,
                           number |-> 0, decision |-> "none"]
    BY <2>1 DEF IdleProc
  <2>3. /\ AfterCurrent(w) \in Proc /\ AfterCurrent(w).pc = "execute"
        /\ AfterCurrent(w).batch = rest
    BY <1>2, <2>2 DEF Proc, PCs
  <2> QED
    BY <1>2, <1>3, <1>5, <2>3 DEF batch, rest
<1> QED
  BY <1>4, <1>5

LEMMA MarkSound ==
  ASSUME SchedInv, NEW w \in Workers, Mark(w)
  PROVE  SchedInv' /\ Grows
<1> DEFINE new == AfterCurrent(w)
<1>1. Shapes /\ LeasesFit /\ w \in Procs /\ ProcSound(w) /\ Lens
  BY LensOf DEF SchedInv, Procs, ProcsSound
<1>2. /\ procs[w].pc = "mark" /\ procs' = [procs EXCEPT ![w] = new]
      /\ jobs' = [jobs EXCEPT ![Current(w)].status = "delivered", ![Current(w)].lease = 0]
      /\ UNCHANGED <<now, txns, snapshots, events, deliveries, attempts, crashes>>
  BY DEF Mark
<1>3. Current(w) \in DOMAIN jobs /\ jobs[Current(w)].status # "scheduled"
  BY <1>2, CurrentJob
<1>4. /\ jobs' \in Seq(ScheduledActionRow) /\ Len(jobs') = Len(jobs)
      /\ DOMAIN jobs' = DOMAIN jobs /\ JobsGrow
      /\ \A j \in DOMAIN jobs : jobs'[j].lease \in {0, jobs[j].lease}
  BY <1>1, <1>2, <1>3, Marked
<1>5. /\ new \in Proc
      /\ \/ new = IdleProc
         \/ new.pc = "execute" /\ new.batch = Tail(procs[w].batch) /\ new.batch # << >>
      /\ \A n \in DOMAIN Tail(procs[w].batch) :
              /\ n + 1 \in DOMAIN procs[w].batch
              /\ Tail(procs[w].batch)[n] = procs[w].batch[n + 1]
      /\ Tail(procs[w].batch) \in Seq(Nat)
  BY <1>2, NextOfBatch
<1> HIDE DEF new
<1>6. /\ procs' \in [Procs -> Proc] /\ procs'[w] = new
      /\ \A q \in Procs \ {w} : procs'[q] = procs[q]
  BY <1>1, <1>2, <1>5, ProcReplaced
<1>7. Shapes'
  BY <1>1, <1>2, <1>4, <1>6 DEF Shapes
<1>8. Grows
  BY <1>1, <1>2, <1>4, Kept DEF Grows
<1>9. LeasesFit'
  <2>1. \A j \in DOMAIN jobs : jobs[j].lease \in Nat /\ jobs[j].lease + now <= LeaseTime + Horizon
    BY <1>1, JobTypes DEF LeasesFit
  <2>2. now' = now /\ now \in 0 .. Horizon
    BY <1>1, <1>2 DEF Shapes
  <2>3. ASSUME NEW j \in DOMAIN jobs
        PROVE  jobs'[j].lease + now' <= LeaseTime + Horizon
    <3>1. jobs[j].lease \in Nat /\ jobs[j].lease + now <= LeaseTime + Horizon
      BY <2>1
    <3>2. jobs'[j].lease = 0 \/ jobs'[j].lease = jobs[j].lease
      BY <1>4
    <3> QED
      BY <2>2, <3>1, <3>2, Consts
  <2> QED
    BY <1>4, <2>3 DEF LeasesFit
<1>10. NewRowsSound
  BY <1>2, <1>4 DEF NewRowsSound
<1>11. ProcSound(w)'
  <2>1. CASE new = IdleProc
    BY <1>1, <1>6, <2>1, ProcRests
  <2>2. CASE new.pc = "execute" /\ new.batch = Tail(procs[w].batch) /\ new.batch # << >>
    <3> DEFINE batch == procs[w].batch
               rest == Tail(batch)
    <3>1. \A n \in DOMAIN batch :
            /\ batch[n] \in DOMAIN jobs /\ jobs[batch[n]].status # "scheduled"
            /\ \A m \in DOMAIN batch : m # n => batch[m] # batch[n]
      BY <1>1 DEF ProcSound
    <3>2. \A n \in DOMAIN rest : n + 1 \in DOMAIN batch /\ rest[n] = batch[n + 1] /\ n \in Nat
      BY <1>5
    <3> HIDE DEF batch, rest
    <3>3. ASSUME NEW n \in DOMAIN rest
          PROVE  /\ rest[n] \in DOMAIN jobs' /\ jobs'[rest[n]].status # "scheduled"
                 /\ \A m \in DOMAIN rest : m # n => rest[m] # rest[n]
      BY <1>4, <3>1, <3>2 DEF JobsGrow, SameJob
    <3> QED
      BY <1>6, <2>2, <3>3, ProcAssumption DEF ProcSound, batch, rest
  <2> QED
    BY <1>5, <2>1, <2>2
<1> QED
  BY <1>6, <1>7, <1>8, <1>9, <1>10, <1>11, StepSound

-----------------------------------------------------------------------------
(* Restarts and time.                                                          *)

LEMMA RestartSound ==
  ASSUME SchedInv, NEW w \in Workers, Restart(w), crashes' \in Nat,
         UNCHANGED <<txns, snapshots, events, deliveries, attempts>>
  PROVE  /\ SchedInv' /\ Grows /\ DOMAIN jobs' = DOMAIN jobs /\ Len(jobs') = Len(jobs)
         /\ \A j \in DOMAIN jobs : /\ SameJob(jobs[j], jobs'[j])
                                   /\ jobs'[j].status = jobs[j].status
                                   /\ jobs'[j].runs = jobs[j].runs
         /\ \A p \in Procs : procs'[p] = IF p \in Requests \cup {w} THEN IdleProc ELSE procs[p]
<1> DEFINE left == [j \in DOMAIN jobs |->
                      IF jobs[j].lease = 0 THEN 0 ELSE jobs[j].lease + (now - now')]
<1>1. Shapes /\ LeasesFit /\ w \in Procs /\ Lens
  BY LensOf DEF SchedInv, Procs
<1>2. /\ procs' = [p \in Procs |-> IF p \in Requests \cup {w} THEN IdleProc ELSE procs[p]]
      /\ now' \in {0, now}
      /\ jobs' = [j \in DOMAIN jobs |-> [jobs[j] EXCEPT !.lease = left[j]]]
  BY DEF Restart, ClockAfterRestart
<1>3. now \in 0 .. Horizon /\ now' \in 0 .. Horizon /\ now' <= now
  BY <1>1, <1>2, Consts DEF Shapes
<1>4. ASSUME NEW j \in DOMAIN jobs
      PROVE  left[j] \in 0 .. LeaseTime + Horizon /\ left[j] + now' <= LeaseTime + Horizon
  <2>1. jobs[j].lease \in Nat /\ jobs[j].lease + now <= LeaseTime + Horizon
    BY <1>1, JobTypes DEF LeasesFit
  <2>2. left[j] = IF jobs[j].lease = 0 THEN 0 ELSE jobs[j].lease + (now - now')
    OBVIOUS
  <2> HIDE DEF left
  <2> QED
    BY <1>3, <2>1, <2>2, Consts
<1>5. left \in [DOMAIN jobs -> 0 .. LeaseTime + Horizon]
  BY <1>4
<1> HIDE DEF left
<1>6. /\ jobs' \in Seq(ScheduledActionRow) /\ Len(jobs') = Len(jobs)
      /\ DOMAIN jobs' = DOMAIN jobs /\ JobsGrow
      /\ \A j \in DOMAIN jobs : /\ SameJob(jobs[j], jobs'[j])
                                /\ jobs'[j].status = jobs[j].status
                                /\ jobs'[j].runs = jobs[j].runs
                                /\ jobs'[j].lease = left[j]
  BY <1>1, <1>2, <1>5, LeasesMove
<1>7. procs' \in [Procs -> Proc]
      /\ \A p \in Procs : procs'[p] = IF p \in Requests \cup {w} THEN IdleProc ELSE procs[p]
  BY <1>1, <1>2, IdleType DEF Shapes
<1>8. Shapes'
  BY <1>1, <1>3, <1>6, <1>7 DEF Shapes
<1>9. Grows
  BY <1>1, <1>6, Kept DEF Grows
<1>10. LeasesFit'
  BY <1>4, <1>6 DEF LeasesFit
<1>11. NewRowsSound
  BY <1>6 DEF NewRowsSound
<1>12. \A p \in Procs : procs'[p] = procs[p] \/ ProcSound(p)'
  BY <1>7, ProcRests
<1>13. SchedInv' /\ Grows
  BY <1>8, <1>9, <1>10, <1>11, <1>12, StepSound
<1> QED
  BY <1>6, <1>7, <1>13

LEMMA ThrowIllegalSound ==
  ASSUME SchedInv, NEW w \in Workers, ThrowIllegal(w)
  PROVE  SchedInv' /\ Grows
<1>1. Shapes /\ w \in Procs /\ crashes \in Nat
  BY DEF SchedInv, Procs, Shapes
<1>2. UNCHANGED <<txns, snapshots, events, deliveries, attempts, crashes>>
  BY DEF ThrowIllegal
<1>3. CASE procs' = [procs EXCEPT ![w] = IdleProc] /\ UNCHANGED <<now, jobs>>
  <2>1. /\ procs' \in [Procs -> Proc] /\ procs'[w] = IdleProc
        /\ \A q \in Procs \ {w} : procs'[q] = procs[q]
    BY <1>1, <1>3, IdleType, ProcReplaced
  <2>2. UNCHANGED <<now, tables, crashes>>
    BY <1>2, <1>3 DEF tables
  <2> QED
    BY <1>1, <2>1, <2>2, OnlyProcs, ProcRests
<1>4. CASE Restart(w)
  BY <1>1, <1>2, <1>4, RestartSound
<1> QED
  BY <1>3, <1>4 DEF ThrowIllegal

LEMMA CrashSound ==
  ASSUME SchedInv, NEW w \in Workers, Crash(w)
  PROVE  SchedInv' /\ Grows
<1>1. Restart(w) /\ UNCHANGED <<txns, snapshots, events, deliveries, attempts>>
  BY DEF Crash
<1>2. crashes' \in Nat
  BY DEF Crash, SchedInv, Shapes
<1> QED
  BY <1>1, <1>2, RestartSound

LEMMA TickSound ==
  ASSUME SchedInv, Tick
  PROVE  /\ SchedInv' /\ Grows /\ DOMAIN jobs' = DOMAIN jobs /\ Len(jobs') = Len(jobs)
         /\ \A j \in DOMAIN jobs : /\ SameJob(jobs[j], jobs'[j])
                                   /\ jobs'[j].status = jobs[j].status
                                   /\ jobs'[j].runs = jobs[j].runs
<1> DEFINE left == [j \in DOMAIN jobs |-> IF jobs[j].lease = 0 THEN 0 ELSE jobs[j].lease - 1]
<1>1. Shapes /\ LeasesFit /\ Lens
  BY LensOf DEF SchedInv
<1>2. /\ now' = Min2(now + 1, Horizon)
      /\ jobs' = [j \in DOMAIN jobs |-> [jobs[j] EXCEPT !.lease = left[j]]]
      /\ UNCHANGED <<txns, snapshots, events, deliveries, attempts, procs, crashes>>
  BY DEF Tick
<1>3. now \in 0 .. Horizon /\ now' \in 0 .. Horizon /\ now' <= now + 1
  BY <1>1, <1>2, Consts DEF Shapes, Min2
<1>4. ASSUME NEW j \in DOMAIN jobs
      PROVE  left[j] \in 0 .. LeaseTime + Horizon /\ left[j] + now' <= LeaseTime + Horizon
  <2>1. jobs[j].lease \in Nat /\ jobs[j].lease + now <= LeaseTime + Horizon
    BY <1>1, JobTypes DEF LeasesFit
  <2>2. left[j] = IF jobs[j].lease = 0 THEN 0 ELSE jobs[j].lease - 1
    OBVIOUS
  <2> HIDE DEF left
  <2> QED
    BY <1>3, <2>1, <2>2, Consts
<1>5. left \in [DOMAIN jobs -> 0 .. LeaseTime + Horizon]
  BY <1>4
<1> HIDE DEF left
<1>6. /\ jobs' \in Seq(ScheduledActionRow) /\ Len(jobs') = Len(jobs)
      /\ DOMAIN jobs' = DOMAIN jobs /\ JobsGrow
      /\ \A j \in DOMAIN jobs : /\ SameJob(jobs[j], jobs'[j])
                                /\ jobs'[j].status = jobs[j].status
                                /\ jobs'[j].runs = jobs[j].runs
                                /\ jobs'[j].lease = left[j]
  BY <1>1, <1>2, <1>5, LeasesMove
<1>7. Shapes'
  BY <1>1, <1>2, <1>3, <1>6 DEF Shapes
<1>8. Grows
  BY <1>1, <1>2, <1>6, Kept DEF Grows
<1>9. LeasesFit'
  BY <1>4, <1>6 DEF LeasesFit
<1>10. NewRowsSound
  BY <1>2, <1>6 DEF NewRowsSound
<1>11. SchedInv' /\ Grows
  BY <1>2, <1>7, <1>8, <1>9, <1>10, StepSound
<1> QED
  BY <1>6, <1>11

-----------------------------------------------------------------------------
(* Deliveries.                                                                 *)

LEMMA CreateDeliverySound ==
  ASSUME SchedInv, NEW p \in Procs, CreateDelivery(p)
  PROVE  SchedInv' /\ Grows
<1> DEFINE old == procs[p]
           count == Len(deliveries')
           new == [old EXCEPT !.pc = "await", !.delivery = count, !.number = 1]
           job == IF p \in Workers THEN Current(p) ELSE 0
           row == NewDelivery(old.event, job, 0)
<1>1. Shapes /\ LeasesFit /\ old \in Proc /\ Lens /\ ProcSound(p)
  BY LensOf DEF SchedInv, ProcsSound, Shapes
<1>2. /\ old.pc = "deliver" /\ procs' = [procs EXCEPT ![p] = new]
      /\ deliveries' = Append(deliveries, row)
      /\ jobs' = IF job = 0 THEN jobs ELSE [jobs EXCEPT ![job].runs = @ + 1]
      /\ UNCHANGED <<now, txns, snapshots, events, attempts, crashes>>
  BY <1>1 DEF CreateDelivery
<1>3. job \in {0} \cup DOMAIN jobs
  BY <1>2, CurrentJob
<1>4. /\ row \in Delivery /\ row.event \in DOMAIN events /\ row.job \in {0} \cup DOMAIN jobs
      /\ row.original = 0
  <2>1. old.event \in DOMAIN events
    BY <1>1, <1>2 DEF ProcSound
  <2> HIDE DEF job, old
  <2>2. job \in Nat /\ old.event \in Nat
    BY <1>1, <1>3, <2>1 DEF Lens
  <2> QED
    BY <1>3, <2>1, <2>2 DEF NewDelivery, Delivery
<1> HIDE DEF row, job
<1>5. /\ jobs' \in Seq(ScheduledActionRow) /\ Len(jobs') = Len(jobs)
      /\ DOMAIN jobs' = DOMAIN jobs /\ JobsGrow
      /\ \A j \in DOMAIN jobs : jobs'[j].lease = jobs[j].lease
  <2>1. CASE job = 0
    BY <1>1, <1>2, <2>1, Kept DEF Shapes
  <2>2. CASE job # 0
    BY <1>1, <1>2, <1>3, <2>2, RunCounted
  <2> QED
    BY <2>1, <2>2
<1>6. /\ deliveries' \in Seq(Delivery) /\ count = Len(deliveries) + 1
      /\ DOMAIN deliveries' = 1 .. Len(deliveries) + 1
      /\ deliveries'[Len(deliveries) + 1] = row
      /\ \A d \in DOMAIN deliveries : deliveries'[d] = deliveries[d]
  BY <1>1, <1>2, <1>4, Appended DEF Shapes
<1>7. count \in DOMAIN deliveries' /\ count \in Nat
  BY <1>1, <1>6 DEF Lens
<1> HIDE DEF count, old
<1>8. /\ new \in Proc /\ new.pc = "await" /\ new.delivery = count /\ new.batch = old.batch
  BY <1>1, <1>7 DEF Proc, PCs
<1> HIDE DEF new
<1>9. /\ procs' \in [Procs -> Proc] /\ procs'[p] = new
      /\ \A q \in Procs \ {p} : procs'[q] = procs[q]
  BY <1>1, <1>2, <1>8, ProcReplaced
<1>10. Shapes'
  BY <1>1, <1>2, <1>5, <1>6, <1>9 DEF Shapes
<1>11. Grows
  <2>1. DeliveriesGrow
    BY <1>1, <1>6 DEF DeliveriesGrow, SameDelivery, Lens, count
  <2> QED
    BY <1>1, <1>2, <1>5, <2>1, Kept DEF Grows
<1>12. LeasesFit'
  BY <1>1, <1>2, <1>5 DEF LeasesFit
<1>13. NewRowsSound
  <2>1. \A d \in DOMAIN deliveries' \ DOMAIN deliveries : deliveries'[d] = row
    BY <1>1, <1>6 DEF Lens
  <2> QED
    BY <1>2, <1>4, <1>5, <2>1 DEF NewRowsSound
<1>14. ProcSound(p)'
  BY <1>1, <1>2, <1>7, <1>8, <1>9, <1>10, <1>11, ProcMoves DEF old
<1> QED
  BY <1>9, <1>10, <1>11, <1>12, <1>13, <1>14, StepSound

LEMMA Decided ==
  ASSUME NEW outcome \in Outcomes, NEW number
  PROVE  Decide(outcome, number) \in Decisions
  BY DEF Outcomes, Decide, Decisions

LEMMA RespondSound ==
  ASSUME SchedInv, NEW p \in Procs, NEW outcome \in Outcomes, Respond(p, outcome)
  PROVE  SchedInv' /\ Grows
<1> DEFINE old == procs[p]
           decision == Decide(outcome, old.number)
           new == [old EXCEPT !.pc = "record", !.decision = decision]
           row == [delivery |-> old.delivery, number |-> old.number, decision |-> decision]
<1>1. Shapes /\ LeasesFit /\ old \in Proc /\ Lens /\ ProcSound(p)
  BY LensOf DEF SchedInv, ProcsSound, Shapes
<1>2. /\ old.pc = "await" /\ procs' = [procs EXCEPT ![p] = new]
      /\ attempts' = Append(attempts, row)
      /\ UNCHANGED <<now, txns, snapshots, jobs, events, deliveries, crashes>>
  BY <1>1 DEF Respond
<1>3. decision \in Decisions /\ old.delivery \in DOMAIN deliveries
  BY <1>1, <1>2, Decided DEF ProcSound
<1> HIDE DEF old, decision
<1>4. row \in Attempt
  BY <1>1, <1>3 DEF Proc, Attempt
<1>5. /\ new \in Proc /\ new.pc = "record" /\ new.delivery = old.delivery
      /\ new.batch = old.batch /\ new.decision # "none"
  BY <1>1, <1>3 DEF Proc, PCs, Decisions
<1>6. row.delivery \in DOMAIN deliveries
  BY <1>3
<1> HIDE DEF new, row
<1>7. /\ attempts' \in Seq(Attempt) /\ Len(attempts') = Len(attempts) + 1
      /\ DOMAIN attempts' = 1 .. Len(attempts) + 1
      /\ attempts'[Len(attempts) + 1] = row
      /\ \A n \in DOMAIN attempts : attempts'[n] = attempts[n]
  BY <1>1, <1>2, <1>4, Appended DEF Shapes
<1>8. /\ procs' \in [Procs -> Proc] /\ procs'[p] = new
      /\ \A q \in Procs \ {p} : procs'[q] = procs[q]
  BY <1>1, <1>2, <1>5, ProcReplaced
<1>9. Shapes'
  BY <1>1, <1>2, <1>7, <1>8 DEF Shapes
<1>10. Grows
  <2>1. AttemptsGrow
    BY <1>1, <1>7 DEF AttemptsGrow, Lens
  <2> QED
    BY <1>1, <1>2, <2>1, Kept DEF Grows
<1>11. LeasesFit'
  BY <1>1, <1>2 DEF LeasesFit
<1>12. NewRowsSound
  <2>1. \A n \in DOMAIN attempts' \ DOMAIN attempts : attempts'[n] = row
    BY <1>1, <1>7 DEF Lens
  <2> QED
    BY <1>2, <1>6, <2>1 DEF NewRowsSound
<1>13. ProcSound(p)'
  BY <1>1, <1>2, <1>3, <1>5, <1>8, <1>9, <1>10, ProcMoves DEF old
<1> QED
  BY <1>8, <1>9, <1>10, <1>11, <1>12, <1>13, StepSound

(* What a process does after an attempt: a worker marks, a handler answers.    *)
LEMMA FinishedProc ==
  ASSUME Shapes, NEW p \in Procs
  PROVE  /\ Finished(p) \in Proc
         /\ p \notin Workers => Finished(p) = IdleProc
         /\ p \in Workers => /\ Finished(p).pc = "mark" /\ Finished(p).batch = procs[p].batch
                             /\ Finished(p).delivery = procs[p].delivery
<1> DEFINE old == procs[p]
           new == [old EXCEPT !.pc = "mark"]
<1>1. old \in Proc
  BY DEF Shapes
<1> HIDE DEF old
<1>2. new \in Proc /\ new.pc = "mark" /\ new.batch = old.batch /\ new.delivery = old.delivery
  BY <1>1 DEF Proc, PCs
<1> HIDE DEF new
<1>3. Finished(p) = IF p \in Workers THEN new ELSE IdleProc
  BY DEF Finished, new, old
<1> QED
  BY <1>2, <1>3, IdleType DEF old

LEMMA FinishedSound ==
  ASSUME SchedInv, Shapes', Grows, NEW p \in Procs, procs[p].pc # "idle",
         procs'[p] = Finished(p)
  PROVE  ProcSound(p)'
<1>1. CASE p \in Workers
  <2>1. procs'[p].pc = "mark" /\ procs'[p].batch = procs[p].batch
    BY <1>1, FinishedProc DEF SchedInv
  <2> QED
    BY <1>1, <2>1, ProcMoves, ProcAssumption
<1>2. CASE p \notin Workers
  BY <1>2, FinishedProc, ProcRests DEF SchedInv
<1> QED
  BY <1>1, <1>2

(* One delivery's status changes.                                              *)
LEMMA StatusSet ==
  ASSUME Shapes, NEW d \in DOMAIN deliveries,
         NEW status \in {"scheduled", "cancelled"} \cup Decisions,
         deliveries' = [deliveries EXCEPT ![d].status = status]
  PROVE  /\ deliveries' \in Seq(Delivery) /\ DOMAIN deliveries' = DOMAIN deliveries
         /\ Len(deliveries') = Len(deliveries) /\ DeliveriesGrow
         /\ deliveries'[d].status = status
         /\ \A e \in DOMAIN deliveries : /\ e # d => deliveries'[e] = deliveries[e]
                                         /\ SameDelivery(deliveries[e], deliveries'[e])
<1> DEFINE old == deliveries[d]
           new == [old EXCEPT !.status = status]
<1>0. Lens /\ old \in Delivery /\ deliveries \in Seq(Delivery)
  BY LensOf DEF Shapes
<1>1. deliveries' = [deliveries EXCEPT ![d] = new]
  OBVIOUS
<1> HIDE DEF old
<1>2. new \in Delivery /\ SameDelivery(old, new) /\ new.status = status
  BY <1>0 DEF Delivery, SameDelivery
<1> HIDE DEF new
<1>3. /\ deliveries' \in Seq(Delivery) /\ Len(deliveries') = Len(deliveries)
      /\ DOMAIN deliveries' = DOMAIN deliveries
      /\ deliveries'[d] = new /\ \A e \in DOMAIN deliveries \ {d} : deliveries'[e] = deliveries[e]
  BY ONLY <1>0, <1>1, <1>2, d \in DOMAIN deliveries DEF Lens
<1>4. \A e \in DOMAIN deliveries \ {d} : SameDelivery(deliveries[e], deliveries'[e])
  BY <1>3 DEF SameDelivery
<1>5. \A e \in DOMAIN deliveries : SameDelivery(deliveries[e], deliveries'[e])
  BY <1>2, <1>3, <1>4 DEF old
<1> QED
  BY <1>0, <1>2, <1>3, <1>5 DEF DeliveriesGrow, Lens

LEMMA RecordStatusSound ==
  ASSUME SchedInv, NEW p \in Procs, RecordStatus(p)
  PROVE  SchedInv' /\ Grows
<1> DEFINE d == procs[p].delivery
           old == procs[p]
           again == [old EXCEPT !.pc = "reschedule"]
<1>1. Shapes /\ LeasesFit /\ old \in Proc /\ Lens /\ ProcSound(p)
  BY LensOf DEF SchedInv, ProcsSound, Shapes
<1>2. /\ old.pc = "record"
      /\ deliveries' = [deliveries EXCEPT ![d].status = old.decision]
      /\ UNCHANGED <<now, txns, snapshots, jobs, events, attempts, crashes>>
      /\ procs' = [procs EXCEPT ![p] = IF old.decision = "retry_scheduled" THEN again
                                       ELSE Finished(p)]
  BY DEF RecordStatus
<1>3. d \in DOMAIN deliveries /\ old.decision \in Decisions
  BY <1>1, <1>2 DEF ProcSound, Proc
<1> HIDE DEF d
<1>4. /\ deliveries' \in Seq(Delivery) /\ DOMAIN deliveries' = DOMAIN deliveries
      /\ DeliveriesGrow
  BY <1>1, <1>2, <1>3, StatusSet
<1> HIDE DEF old
<1>5. /\ again \in Proc /\ again.pc = "reschedule" /\ again.batch = old.batch
      /\ again.delivery = old.delivery
  BY <1>1 DEF Proc, PCs
<1>6. Finished(p) \in Proc
  BY <1>1, FinishedProc
<1> HIDE DEF again
<1>7. PICK new \in Proc : new \in {again, Finished(p)} /\ procs' = [procs EXCEPT ![p] = new]
  BY <1>2, <1>5, <1>6
<1>8. /\ procs' \in [Procs -> Proc] /\ procs'[p] = new
      /\ \A q \in Procs \ {p} : procs'[q] = procs[q]
  BY <1>1, <1>7, ProcReplaced
<1>9. Shapes'
  BY <1>1, <1>2, <1>4, <1>8 DEF Shapes
<1>10. Grows
  BY <1>1, <1>2, <1>4, Kept DEF Grows
<1>11. LeasesFit' /\ NewRowsSound
  BY <1>1, <1>2, <1>4 DEF LeasesFit, NewRowsSound
<1>12. ProcSound(p)'
  <2>1. CASE new = again
    BY <1>1, <1>2, <1>3, <1>4, <1>5, <1>8, <1>9, <1>10, <2>1, ProcMoves DEF old, d
  <2>2. CASE new = Finished(p)
    BY <1>2, <1>8, <1>9, <1>10, <2>2, FinishedSound DEF old
  <2> QED
    BY <1>7, <2>1, <2>2
<1> QED
  BY <1>8, <1>9, <1>10, <1>11, <1>12, StepSound

(* A new row of scheduled_actions, after the others.                           *)
LEMMA JobAppended ==
  ASSUME Shapes, LeasesFit, UNCHANGED now, NEW row \in ScheduledActionRow, row.lease = 0,
         jobs' = Append(jobs, row)
  PROVE  /\ jobs' \in Seq(ScheduledActionRow) /\ Len(jobs') = Len(jobs) + 1
         /\ DOMAIN jobs' = 1 .. Len(jobs) + 1 /\ JobsGrow /\ LeasesFit'
         /\ jobs'[Len(jobs) + 1] = row /\ \A j \in DOMAIN jobs : jobs'[j] = jobs[j]
         /\ \A j \in DOMAIN jobs' \ DOMAIN jobs : jobs'[j] = row
<1>1. /\ jobs' \in Seq(ScheduledActionRow) /\ Len(jobs') = Len(jobs) + 1
      /\ DOMAIN jobs = 1 .. Len(jobs) /\ Len(jobs) \in Nat
      /\ DOMAIN jobs' = 1 .. Len(jobs) + 1
      /\ jobs'[Len(jobs) + 1] = row /\ \A j \in DOMAIN jobs : jobs'[j] = jobs[j]
  BY Appended DEF Shapes
<1>2. \A j \in DOMAIN jobs : SameJob(jobs[j], jobs'[j])
  BY <1>1 DEF SameJob
<1>3. \A j \in DOMAIN jobs' \ DOMAIN jobs : jobs'[j] = row
  BY <1>1
<1>4. JobsGrow
  BY <1>1, <1>2 DEF JobsGrow
<1>5. LeasesFit'
  <2>1. now' \in 0 .. Horizon /\ row.lease + now' <= LeaseTime + Horizon
    BY Consts DEF Shapes
  <2>2. \A j \in DOMAIN jobs : jobs'[j].lease + now' <= LeaseTime + Horizon
    BY <1>1 DEF LeasesFit
  <2> QED
    BY <1>3, <2>1, <2>2 DEF LeasesFit
<1> QED
  BY <1>1, <1>3, <1>4, <1>5

LEMMA RetryRow ==
  ASSUME SchedInv, NEW d \in DOMAIN deliveries, NEW delay \in Nat
  PROVE  /\ RetryJob(d, delay) \in ScheduledActionRow
         /\ RetryJob(d, delay).lease = 0 /\ RetryJob(d, delay).runs = 0
         /\ RetryJob(d, delay).delivery = d /\ RetryJob(d, delay).type = "retry"
         /\ RetryJob(d, delay).status = "scheduled"
         /\ txns[RetryJob(d, delay).payment].state # "none"
<1> DEFINE payment == events[deliveries[d].event].payment
<1>1. Shapes /\ Lens /\ EventsSound /\ deliveries[d].event \in DOMAIN events
  BY LensOf DEF SchedInv, DeliveriesRefer
<1>2. payment \in Payments /\ txns[payment].state # "none"
  BY <1>1, EventTypes DEF EventsSound
<1>3. At(delay) \in 0 .. Horizon /\ d \in Nat /\ 0 \in 0 .. LeaseTime + Horizon
  <2>1. now \in Nat
    BY <1>1, Consts DEF Shapes
  <2>2. At(delay) \in 0 .. Horizon
    BY <2>1, Consts
  <2>3. 0 \in 0 .. LeaseTime + Horizon
    BY Consts
  <2> QED
    BY <1>1, <2>2, <2>3 DEF Lens
<1> HIDE DEF payment
<1>4. RetryJob(d, delay) =
        [payment |-> payment, step |-> 0, type |-> "retry", to |-> "none", source |-> 0,
         delivery |-> d, due |-> At(delay), status |-> "scheduled", lease |-> 0, runs |-> 0]
  BY DEF RetryJob, payment
<1> QED
  BY <1>2, <1>3, <1>4 DEF ScheduledActionRow, ActionTypes, AuthoredTypes

LEMMA RescheduleSound ==
  ASSUME SchedInv, NEW p \in Procs, Reschedule(p)
  PROVE  SchedInv' /\ Grows
<1> DEFINE d == procs[p].delivery
           row == RetryJob(d, RetryInterval)
<1>1. Shapes /\ LeasesFit /\ Lens /\ ProcSound(p)
  BY LensOf DEF SchedInv, ProcsSound
<1>2. /\ procs[p].pc = "reschedule" /\ jobs' = Append(jobs, row)
      /\ procs' = [procs EXCEPT ![p] = Finished(p)]
      /\ UNCHANGED <<now, txns, snapshots, events, deliveries, attempts, crashes>>
  BY DEF Reschedule
<1>3. d \in DOMAIN deliveries
  BY <1>1, <1>2 DEF ProcSound
<1>4. /\ row \in ScheduledActionRow /\ row.lease = 0 /\ row.delivery = d /\ row.type = "retry"
      /\ txns[row.payment].state # "none"
  BY <1>3, RetryRow, Consts
<1> HIDE DEF row
<1>5. /\ jobs' \in Seq(ScheduledActionRow) /\ JobsGrow /\ LeasesFit'
      /\ \A j \in DOMAIN jobs' \ DOMAIN jobs : jobs'[j] = row
  BY <1>1, <1>2, <1>4, JobAppended
<1>6. /\ procs' \in [Procs -> Proc] /\ procs'[p] = Finished(p)
      /\ \A q \in Procs \ {p} : procs'[q] = procs[q]
  BY <1>1, <1>2, FinishedProc, ProcReplaced
<1>7. Shapes'
  BY <1>1, <1>2, <1>5, <1>6 DEF Shapes
<1>8. Grows
  BY <1>1, <1>2, <1>5, Kept DEF Grows
<1>9. NewRowsSound
  BY <1>2, <1>3, <1>4, <1>5 DEF NewRowsSound
<1>10. ProcSound(p)'
  BY <1>2, <1>6, <1>7, <1>8, FinishedSound
<1> QED
  BY <1>5, <1>6, <1>7, <1>8, <1>9, <1>10, StepSound

LEMMA CancelSound ==
  ASSUME SchedInv, NEW d \in DOMAIN deliveries, Cancel(d)
  PROVE  SchedInv' /\ Grows
<1>1. Shapes /\ LeasesFit /\ Lens
  BY LensOf DEF SchedInv
<1>2. /\ deliveries' = [deliveries EXCEPT ![d].status = "cancelled"]
      /\ UNCHANGED <<now, txns, snapshots, jobs, events, attempts, procs, crashes>>
  BY DEF Cancel
<1>3. /\ deliveries' \in Seq(Delivery) /\ DOMAIN deliveries' = DOMAIN deliveries
      /\ DeliveriesGrow
  BY <1>1, <1>2, StatusSet
<1>4. Shapes'
  BY <1>1, <1>2, <1>3 DEF Shapes
<1>5. Grows
  BY <1>1, <1>2, <1>3, Kept DEF Grows
<1>6. LeasesFit' /\ NewRowsSound
  BY <1>1, <1>2, <1>3 DEF LeasesFit, NewRowsSound
<1> QED
  BY <1>2, <1>4, <1>5, <1>6, StepSound

LEMMA ReplaySound ==
  ASSUME SchedInv, NEW d \in DOMAIN deliveries, NEW delay \in {0, RetryInterval}, Replay(d, delay)
  PROVE  SchedInv' /\ Grows
<1> DEFINE count == Len(deliveries')
           row == NewDelivery(deliveries[d].event, 0, d)
           retry == RetryJob(d, delay)
           job == [retry EXCEPT !.delivery = count]
<1>1. Shapes /\ LeasesFit /\ Lens /\ delay \in Nat
  BY LensOf, Consts DEF SchedInv
<1>2. /\ deliveries' = Append(deliveries, row)
      /\ jobs' = IF delay = 0 THEN jobs ELSE Append(jobs, job)
      /\ UNCHANGED <<now, txns, snapshots, events, attempts, procs, crashes>>
  BY DEF Replay
<1>3. /\ row \in Delivery /\ row.event \in DOMAIN events /\ row.job = 0 /\ row.original = d
  BY <1>1 DEF NewDelivery, Delivery, Lens, SchedInv, DeliveriesRefer
<1> HIDE DEF row
<1>4. /\ deliveries' \in Seq(Delivery) /\ count = Len(deliveries) + 1
      /\ DOMAIN deliveries' = 1 .. Len(deliveries) + 1
      /\ deliveries'[Len(deliveries) + 1] = row
      /\ \A e \in DOMAIN deliveries : deliveries'[e] = deliveries[e]
  BY <1>1, <1>2, <1>3, Appended DEF Shapes
<1>5. count \in Nat /\ count \in DOMAIN deliveries'
  BY <1>1, <1>4 DEF Lens
<1>6. retry \in ScheduledActionRow /\ retry.lease = 0 /\ retry.type = "retry"
      /\ txns[retry.payment].state # "none"
  BY <1>1, RetryRow
<1> HIDE DEF retry, count
<1>7. /\ job \in ScheduledActionRow /\ job.lease = 0 /\ job.type = "retry" /\ job.delivery = count
      /\ job.payment = retry.payment
  BY <1>5, <1>6 DEF ScheduledActionRow
<1> HIDE DEF job
<1>8. /\ jobs' \in Seq(ScheduledActionRow) /\ JobsGrow /\ LeasesFit'
      /\ \A j \in DOMAIN jobs' \ DOMAIN jobs : jobs'[j] = job
      /\ Len(jobs') \in Nat
  <2>1. CASE delay = 0
    <3>1. jobs' = jobs /\ now' = now
      BY <1>2, <2>1
    <3> QED
      BY <1>1, <3>1, Kept DEF Shapes, LeasesFit, Lens
  <2>2. CASE delay # 0
    BY <1>1, <1>2, <1>7, <2>2, JobAppended DEF Lens
  <2> QED
    BY <2>1, <2>2
<1>9. Shapes'
  BY <1>1, <1>2, <1>4, <1>8 DEF Shapes
<1>10. Grows
  <2>1. DeliveriesGrow
    BY <1>1, <1>4 DEF DeliveriesGrow, SameDelivery, Lens, count
  <2> QED
    BY <1>1, <1>2, <1>8, <2>1, Kept DEF Grows
<1>11. NewRowsSound
  <2>1. \A e \in DOMAIN deliveries' \ DOMAIN deliveries : deliveries'[e] = row
    BY <1>1, <1>4 DEF Lens
  <2>2. d \in DOMAIN deliveries'
    BY <1>1, <1>4 DEF Lens
  <2> QED
    BY <1>2, <1>3, <1>5, <1>6, <1>7, <1>8, <2>1, <2>2 DEF NewRowsSound
<1> QED
  BY <1>2, <1>8, <1>9, <1>10, <1>11, StepSound

LEMMA VoidPaymentSound ==
  ASSUME SchedInv, NEW r \in Requests, NEW p \in Payments, VoidPayment(r, p)
  PROVE  SchedInv' /\ Grows
<1> DEFINE old == procs[r]
           count == Len(events')
           moved == [old EXCEPT !.pc = "deliver", !.event = count]
           row == EventOf(p, "void_child", "valid")
<1>1. Shapes /\ LeasesFit /\ r \in Procs /\ old \in Proc /\ Lens /\ ProcSound(r) /\ r \notin Workers
  BY LensOf, ProcAssumption DEF SchedInv, Procs, Shapes, ProcsSound
<1>2. /\ old.pc = "idle" /\ txns[p].state \in {"authorized", "succeeded"}
      /\ txns' = [txns EXCEPT ![p].state = "voided"]
      /\ IF txns[p].url
         THEN events' = Append(events, row) /\ procs' = [procs EXCEPT ![r] = moved]
         ELSE UNCHANGED <<events, procs>>
      /\ UNCHANGED <<now, snapshots, jobs, deliveries, attempts, crashes>>
  BY <1>1 DEF VoidPayment
<1>3. txns' \in [Payments -> Txn] /\ TxnsGrow /\ txns'[p].state # "none"
  BY <1>1, <1>2 DEF Shapes, Txn, TxnsGrow, InternalStates
<1>4. row \in CallbackEventRow /\ row.payment = p
  BY DEF EventOf, CallbackEventRow
<1> HIDE DEF row
<1>5. CASE txns[p].url
  <2>1. events' = Append(events, row) /\ procs' = [procs EXCEPT ![r] = moved]
    BY <1>2, <1>5
  <2>2. /\ events' \in Seq(CallbackEventRow) /\ Len(events') = Len(events) + 1
        /\ DOMAIN events' = 1 .. Len(events) + 1 /\ events'[Len(events) + 1] = row
        /\ \A n \in DOMAIN events : events'[n] = events[n]
    BY <1>1, <1>4, <2>1, Appended DEF Shapes
  <2>3. count \in DOMAIN events' /\ count \in Nat
    BY <1>1, <2>2 DEF Lens
  <2>4. old.batch \in Seq(Nat)
    BY <1>1 DEF Proc
  <2> HIDE DEF count, old
  <2>5. /\ moved \in Proc /\ moved.pc = "deliver" /\ moved.event = count
        /\ moved.batch = old.batch
    BY <1>1, <2>3 DEF Proc, PCs
  <2> HIDE DEF moved
  <2>6. /\ procs' \in [Procs -> Proc] /\ procs'[r] = moved
        /\ \A q \in Procs \ {r} : procs'[q] = procs[q]
    BY <1>1, <2>1, <2>5, ProcReplaced
  <2>7. Shapes'
    BY <1>1, <1>2, <1>3, <2>2, <2>6 DEF Shapes
  <2>8. Grows
    <3>1. EventsGrow
      BY <1>1, <2>2 DEF EventsGrow, Lens
    <3> QED
      BY <1>1, <1>2, <1>3, <3>1, Kept DEF Grows
  <2>9. LeasesFit' /\ NewRowsSound
    <3>1. \A n \in DOMAIN events' \ DOMAIN events : events'[n] = row
      BY <1>1, <2>2 DEF Lens
    <3> QED
      BY <1>1, <1>2, <1>3, <1>4, <3>1 DEF LeasesFit, NewRowsSound
  <2>10. ProcSound(r)'
    <3>1. procs'[r].batch = procs[r].batch
      BY <2>5, <2>6 DEF old
    <3>2. ASSUME NEW n \in DOMAIN procs[r].batch
          PROVE  /\ procs[r].batch[n] \in DOMAIN jobs
                 /\ jobs[procs[r].batch[n]].status # "scheduled"
                 /\ \A m \in DOMAIN procs[r].batch :
                      m # n => procs[r].batch[m] # procs[r].batch[n]
      BY <1>1 DEF ProcSound
    <3>3. jobs' = jobs
      BY <1>2
    <3> QED
      BY <1>1, <2>3, <2>5, <2>6, <3>1, <3>2, <3>3 DEF ProcSound
  <2> QED
    BY <2>6, <2>7, <2>8, <2>9, <2>10, StepSound
<1>6. CASE ~txns[p].url
  <2>1. UNCHANGED <<events, procs>>
    BY <1>2, <1>6
  <2>2. Shapes'
    BY <1>1, <1>2, <1>3, <2>1 DEF Shapes
  <2>3. Grows
    BY <1>1, <1>2, <1>3, <2>1, Kept DEF Grows
  <2>4. LeasesFit' /\ NewRowsSound
    BY <1>1, <1>2, <2>1 DEF LeasesFit, NewRowsSound
  <2> QED
    BY <2>1, <2>2, <2>3, <2>4, StepSound
<1> QED
  BY <1>5, <1>6

(* The rows of a compiled timeline. *)
RowOfStep(row, p, timeline, n) ==
  /\ row \in ScheduledActionRow /\ row.payment = p /\ row.step = n
  /\ row.type = timeline[n].type /\ row.type # "retry"
  /\ row.to = timeline[n].to /\ row.due = At(timeline[n].offset)
  /\ row.type \in {"transition", "snapshot"} => row.to \in InternalStates
  /\ row.status = "scheduled" /\ row.runs = 0 /\ row.lease = 0

LEMMA TimelineRows ==
  ASSUME Shapes, NEW p \in Payments, NEW timeline \in Timelines
  PROVE  /\ [n \in DOMAIN timeline |-> JobOfStep(p, timeline, n)] \in Seq(ScheduledActionRow)
         /\ Len([n \in DOMAIN timeline |-> JobOfStep(p, timeline, n)]) = Len(timeline)
         /\ Len(timeline) \in Nat /\ DOMAIN timeline = 1 .. Len(timeline)
         /\ \A n \in DOMAIN timeline :
              RowOfStep(JobOfStep(p, timeline, n), p, timeline, n)
<1> DEFINE rows == [n \in DOMAIN timeline |-> JobOfStep(p, timeline, n)]
<1>1. /\ timeline \in Seq(TimelineRow)
      /\ \A n \in DOMAIN timeline :
           timeline[n].type \in {"transition", "snapshot"} => timeline[n].to \in InternalStates
  BY TimelineAssumption DEF Timeline
<1>2. Len(timeline) \in Nat /\ DOMAIN timeline = 1 .. Len(timeline)
  BY <1>1
<1>3. now \in Nat /\ 0 \in 0 .. LeaseTime + Horizon
  BY Consts DEF Shapes
<1>4. ASSUME NEW n \in DOMAIN timeline
      PROVE  RowOfStep(JobOfStep(p, timeline, n), p, timeline, n)
  <2> DEFINE step == timeline[n]
  <2>1. step \in TimelineRow /\ n \in Nat
    BY <1>1, <1>2
  <2>2. step.type \in {"transition", "snapshot"} => step.to \in InternalStates
    BY <1>1
  <2>3. JobOfStep(p, timeline, n) =
          [payment |-> p, step |-> n, type |-> step.type, to |-> step.to,
           source |-> step.source, delivery |-> 0, due |-> At(step.offset),
           status |-> "scheduled", lease |-> 0, runs |-> 0]
    BY DEF JobOfStep
  <2> HIDE DEF step
  <2>4. At(step.offset) \in 0 .. Horizon
    BY <1>3, <2>1, Consts DEF TimelineRow, AuthoredTypes
  <2>5. step.type \in ActionTypes /\ step.type # "retry" /\ step.source \in Nat
        /\ step.to \in InternalStates \cup {"none"}
    BY <2>1 DEF TimelineRow, ActionTypes, AuthoredTypes
  <2>6. JobOfStep(p, timeline, n) \in ScheduledActionRow
    BY <1>3, <2>1, <2>3, <2>4, <2>5 DEF ScheduledActionRow
  <2> QED
    BY <2>2, <2>3, <2>5, <2>6 DEF step, RowOfStep
<1>5. rows \in [1 .. Len(timeline) -> ScheduledActionRow]
  <2>1. \A n \in DOMAIN timeline : JobOfStep(p, timeline, n) \in ScheduledActionRow
    BY <1>4 DEF RowOfStep
  <2> QED
    BY <1>2, <2>1
<1>6. rows \in Seq(ScheduledActionRow) /\ Len(rows) = Len(timeline)
  BY <1>2, <1>5, FunctionIsSeq
<1> QED
  BY <1>2, <1>4, <1>6

(* What a submission adds.                                                     *)
LEMMA Submitted ==
  ASSUME Shapes, NEW p \in Payments, NEW timeline \in Timelines, NEW url, Submit(p, timeline, url)
  PROVE  /\ jobs' \in Seq(ScheduledActionRow) /\ Len(jobs') = Len(jobs) + Len(timeline)
         /\ DOMAIN jobs' = 1 .. Len(jobs) + Len(timeline) /\ Len(timeline) \in Nat
         /\ DOMAIN timeline = 1 .. Len(timeline)
         /\ \A j \in DOMAIN jobs : jobs'[j] = jobs[j]
         /\ \A j \in DOMAIN jobs' \ DOMAIN jobs :
              /\ j - Len(jobs) \in DOMAIN timeline
              /\ jobs'[j] = JobOfStep(p, timeline, j - Len(jobs))
              /\ RowOfStep(jobs'[j], p, timeline, j - Len(jobs))
<1> DEFINE rows == [n \in DOMAIN timeline |-> JobOfStep(p, timeline, n)]
<1>1. jobs' = jobs \o rows /\ jobs \in Seq(ScheduledActionRow) /\ Lens
  BY LensOf DEF Submit, Shapes
<1>2. /\ rows \in Seq(ScheduledActionRow) /\ Len(rows) = Len(timeline)
      /\ Len(timeline) \in Nat /\ DOMAIN timeline = 1 .. Len(timeline)
  BY TimelineRows
<1>3. \A n \in DOMAIN timeline : rows[n] = JobOfStep(p, timeline, n)
  OBVIOUS
<1> HIDE DEF rows
<1>4. /\ jobs' \in Seq(ScheduledActionRow) /\ Len(jobs') = Len(jobs) + Len(rows)
      /\ \A j \in 1 .. Len(jobs) + Len(rows) :
           jobs'[j] = IF j <= Len(jobs) THEN jobs[j] ELSE rows[j - Len(jobs)]
  BY <1>1, <1>2, ConcatProperties
<1>5. DOMAIN jobs' = 1 .. Len(jobs) + Len(timeline)
  BY <1>2, <1>4
<1>6. \A j \in DOMAIN jobs : jobs'[j] = jobs[j]
  BY <1>1, <1>2, <1>4 DEF Lens
<1>7. \A j \in DOMAIN jobs' \ DOMAIN jobs :
        j - Len(jobs) \in DOMAIN timeline /\ jobs'[j] = rows[j - Len(jobs)]
  BY <1>1, <1>2, <1>4, <1>5 DEF Lens
<1>8. \A j \in DOMAIN jobs' \ DOMAIN jobs :
        RowOfStep(jobs'[j], p, timeline, j - Len(jobs))
  <2>1. \A n \in DOMAIN timeline : RowOfStep(rows[n], p, timeline, n)
    BY <1>3, TimelineRows
  <2> QED
    BY <1>7, <2>1
<1> QED
  BY <1>2, <1>3, <1>4, <1>5, <1>6, <1>7, <1>8

LEMMA SubmitSound ==
  ASSUME SchedInv, NEW p \in Payments, NEW timeline \in Timelines, NEW url \in BOOLEAN,
         Submit(p, timeline, url)
  PROVE  SchedInv' /\ Grows
<1>1. Shapes /\ LeasesFit /\ Lens
  BY LensOf DEF SchedInv
<1>2. /\ txns[p].state = "none" /\ txns' = [txns EXCEPT ![p] = [state |-> "processing", url |-> url]]
      /\ UNCHANGED <<now, snapshots, events, deliveries, attempts, procs, crashes>>
  BY DEF Submit
<1>3. /\ jobs' \in Seq(ScheduledActionRow) /\ Len(jobs') = Len(jobs) + Len(timeline)
      /\ DOMAIN jobs' = 1 .. Len(jobs) + Len(timeline) /\ Len(timeline) \in Nat
      /\ \A j \in DOMAIN jobs : jobs'[j] = jobs[j]
  BY <1>1, Submitted
<1>4. \A j \in DOMAIN jobs' \ DOMAIN jobs :
        /\ jobs'[j].payment = p /\ jobs'[j].type # "retry" /\ jobs'[j].lease = 0
        /\ jobs'[j].type \in {"transition", "snapshot"} => jobs'[j].to \in InternalStates
  BY <1>1, Submitted DEF RowOfStep
<1>5. txns' \in [Payments -> Txn] /\ TxnsGrow /\ txns'[p].state # "none"
  BY <1>1, <1>2 DEF Shapes, Txn, TxnsGrow, InternalStates
<1>6. Shapes'
  BY <1>1, <1>2, <1>3, <1>5 DEF Shapes
<1>7. Grows
  <2>1. JobsGrow
    BY <1>1, <1>3 DEF JobsGrow, SameJob, Lens
  <2> QED
    BY <1>1, <1>2, <1>5, <2>1, Kept DEF Grows
<1>8. LeasesFit'
  <2>1. now' = now /\ now \in 0 .. Horizon
    BY <1>1, <1>2 DEF Shapes
  <2>2. \A j \in DOMAIN jobs : jobs'[j].lease + now' <= LeaseTime + Horizon
    BY <1>1, <1>3, <2>1 DEF LeasesFit
  <2>3. \A j \in DOMAIN jobs' \ DOMAIN jobs : jobs'[j].lease + now' <= LeaseTime + Horizon
    BY <1>4, <2>1, Consts
  <2> QED
    BY <2>2, <2>3 DEF LeasesFit
<1>9. NewRowsSound
  BY <1>2, <1>4, <1>5 DEF NewRowsSound
<1> QED
  BY <1>2, <1>6, <1>7, <1>8, <1>9, StepSound
-----------------------------------------------------------------------------
LEMMA NextSound == SchedInv /\ [Next]_vars => SchedInv' /\ Grows
<1> SUFFICES ASSUME SchedInv, [Next]_vars PROVE SchedInv' /\ Grows
  OBVIOUS
<1>1. ASSUME NEW w \in Workers, WorkerStep(w) PROVE SchedInv' /\ Grows
  BY <1>1, ClaimSound, TransitionSound, ThrowIllegalSound, SnapshotSound, NothingToSendSound,
     MaterializeEventSound, RepeatEventSound, RetrySound, MarkSound DEF WorkerStep
<1>2. ASSUME NEW p \in Procs, DeliveryStep(p) PROVE SchedInv' /\ Grows
  BY <1>2, CreateDeliverySound, RecordStatusSound, RescheduleSound, RespondSound
     DEF DeliveryStep
<1>3. CASE UNCHANGED vars
  <2>1. Grows /\ Shapes' /\ LeasesFit' /\ NewRowsSound
    BY <1>3, Kept
       DEF vars, tables, SchedInv, Grows, Shapes, LeasesFit, NewRowsSound
  <2> QED
    BY <1>3, <2>1, StepSound DEF vars
<1> QED
  BY <1>1, <1>2, <1>3, SubmitSound, CrashSound, VoidPaymentSound, ReplaySound, CancelSound,
     TickSound DEF Next

(* The inductive invariant holds in every state the scheduler reaches.         *)
THEOREM SchedInvariance == Spec => []SchedInv
<1>1. Init => SchedInv
  BY InitSound
<1>2. SchedInv /\ [Next]_vars => SchedInv'
  BY NextSound
<1> QED
  BY <1>1, <1>2, PTL DEF Spec

LEMMA SchedTypes == SchedInv => TypeOK
<1> SUFFICES ASSUME SchedInv PROVE TypeOK
  OBVIOUS
<1>1. Shapes /\ JobsSound /\ DeliveriesRefer /\ AttemptsRefer /\ ProcsSound
  BY DEF SchedInv
<1>2. \A j \in DOMAIN jobs :
        /\ jobs[j] \in ScheduledActionRow
        /\ jobs[j].type = "retry" => jobs[j].delivery \in DOMAIN deliveries
  BY <1>1 DEF Shapes, JobsSound
<1>3. \A n \in DOMAIN events : events[n] \in CallbackEventRow
  BY <1>1 DEF Shapes
<1>4. \A d \in DOMAIN deliveries : deliveries[d] \in DeliveryRow
  <2> TAKE d \in DOMAIN deliveries
  <2> DEFINE row == deliveries[d]
  <2>1. row \in Delivery
    BY <1>1 DEF Shapes
  <2>2. /\ row.event \in DOMAIN events /\ row.job \in {0} \cup DOMAIN jobs
        /\ row.original \in {0} \cup DOMAIN deliveries
    BY <1>1 DEF DeliveriesRefer
  <2> HIDE DEF row
  <2>3. row = [event |-> row.event, job |-> row.job, original |-> row.original,
               status |-> row.status]
        /\ row.status \in {"scheduled", "cancelled"} \cup Decisions
    BY <2>1 DEF Delivery
  <2>4. row \in DeliveryRow
    BY <2>2, <2>3 DEF DeliveryRow
  <2> QED
    BY <2>4 DEF row
<1>5. \A n \in DOMAIN attempts : attempts[n] \in AttemptRow
  <2> TAKE n \in DOMAIN attempts
  <2> DEFINE row == attempts[n]
  <2>1. row \in Attempt
    BY <1>1 DEF Shapes
  <2>2. row.delivery \in DOMAIN deliveries
    BY <1>1 DEF AttemptsRefer
  <2> HIDE DEF row
  <2>3. row = [delivery |-> row.delivery, number |-> row.number, decision |-> row.decision]
        /\ row.number \in Nat /\ row.decision \in Decisions
    BY <2>1 DEF Attempt
  <2>4. row \in AttemptRow
    BY <2>2, <2>3 DEF AttemptRow
  <2> QED
    BY <2>4 DEF row
<1>6. \A p \in Procs : procs[p] \in Proc
  BY <1>1 DEF Shapes
<1>7. \A p \in Procs : procs[p].pc \in PCs
  BY <1>6 DEF Proc
<1>8. now \in 0 .. Horizon
  BY <1>1 DEF Shapes
<1> QED
  BY <1>1, <1>2, <1>3, <1>4, <1>5, <1>7, <1>8 DEF TypeOK, ProcsSound, ProcSound

(* TypeOK: rows refer to rows that exist, across every commit, crash and       *)
(* restart, and a running process holds what its program point needs: the      *)
(* event to deliver, the delivery its attempt belongs to, the batch it claimed. *)
THEOREM TypeCorrect == Spec => []TypeOK
  BY SchedInvariance, SchedTypes, PTL

-----------------------------------------------------------------------------
(* What a step does to the jobs' status and runs and to the processes.         *)

Rest(p) == \A q \in Procs \ {p} : procs'[q] = procs[q]
Keeps(p) == procs'[p].batch = procs[p].batch /\ Rest(p)

(* No job begins or ends; new ones have not run.                               *)
JobsStay ==
  /\ \A j \in DOMAIN jobs : jobs'[j].status = jobs[j].status /\ jobs'[j].runs = jobs[j].runs
  /\ \A j \in DOMAIN jobs' \ DOMAIN jobs : jobs'[j].status = "scheduled" /\ jobs'[j].runs = 0

(* Worker w claims a batch of due rows, the first ones in order.               *)
Claims(w) ==
  /\ procs[w].pc = "idle" /\ procs'[w].pc = "execute" /\ Rest(w)
  /\ DOMAIN jobs' = DOMAIN jobs
  /\ \A n \in DOMAIN procs'[w].batch : procs'[w].batch[n] \in DueJobs
  /\ \A m, n \in DOMAIN procs'[w].batch :
       m < n => ~Before(procs'[w].batch[n], procs'[w].batch[m])
  /\ \A j \in DueJobs \ Range(procs'[w].batch), n \in DOMAIN procs'[w].batch :
       ~Before(j, procs'[w].batch[n])
  /\ \A j \in DOMAIN jobs :
       /\ jobs'[j].runs = jobs[j].runs
       /\ jobs'[j].status = "delivered" => jobs[j].status = "delivered"
       /\ jobs'[j].status =
            IF j \in Range(procs'[w].batch) THEN "leased" ELSE jobs[j].status

(* The row that w is at takes effect: a transition, a snapshot, a delivery of  *)
(* its callback or one more attempt.                                           *)
Runs(w) ==
  /\ Keeps(w)
  /\ \/ /\ procs[w].pc = "execute" /\ procs'[w].pc = "mark"
        /\ (Job(w).type = "transition" /\ Transition(w)) \/ Job(w).type = "snapshot"
     \/ /\ procs[w].pc = "execute" /\ procs'[w].pc = "await" /\ Job(w).type = "retry"
        /\ procs'[w].delivery = Job(w).delivery
     \/ /\ procs[w].pc = "deliver" /\ procs'[w].pc = "await"
        /\ deliveries'[procs'[w].delivery].job = Current(w)
  /\ DOMAIN jobs' = DOMAIN jobs
  /\ \A j \in DOMAIN jobs : jobs'[j].status = jobs[j].status
  /\ \A j \in DOMAIN jobs \ {Current(w)} : jobs'[j].runs = jobs[j].runs
  /\ jobs'[Current(w)].runs = jobs[Current(w)].runs + 1

(* The row that w is at is finished.                                           *)
Finishes(w) ==
  /\ procs[w].pc = "mark" /\ procs'[w] = AfterCurrent(w) /\ Rest(w)
  /\ DOMAIN jobs' = DOMAIN jobs
  /\ \A j \in DOMAIN jobs : jobs'[j].runs = jobs[j].runs
  /\ \A j \in DOMAIN jobs \ {Current(w)} : jobs'[j].status = jobs[j].status
  /\ jobs'[Current(w)].status = "delivered"

(* Worker w goes on with the row it is at.                                     *)
GoesOn(w) ==
  /\ JobsStay /\ Keeps(w)
  /\ \/ procs[w].pc = "execute" /\ procs'[w].pc = "deliver" /\ Job(w).type \in CallbackTypes
     \/ /\ procs[w].pc = "execute" /\ procs'[w].pc = "mark"
        /\ Job(w).type \notin {"transition", "snapshot", "retry"}
        /\ Job(w).type = "webhook" => ~txns[Job(w).payment].url
     \/ /\ procs[w].pc = "await" /\ procs'[w].pc = "record"
        /\ procs'[w].delivery = procs[w].delivery
        /\ \E n \in DOMAIN attempts' : attempts'[n].delivery = procs[w].delivery
     \/ /\ procs[w].pc = "record" /\ procs'[w].pc \in {"reschedule", "mark"}
        /\ procs'[w].delivery = procs[w].delivery
     \/ /\ procs[w].pc = "reschedule" /\ procs'[w].pc = "mark"
        /\ procs'[w].delivery = procs[w].delivery

(* Worker w loses its batch: in a crash, or in an exception that ends the tick. *)
Loses(w) ==
  /\ JobsStay /\ procs'[w] = IdleProc
  /\ \A v \in Workers \ {w} : procs'[v] = procs[v]
  /\ ThrowIllegal(w) \/ Crash(w)
  /\ crashes' = crashes => procs[w].pc = "execute"

(* No worker moves.                                                            *)
NoWorkerMoves == JobsStay /\ \A v \in Workers : procs'[v] = procs[v]

LEMMA StayingJobs ==
  ASSUME Shapes
  PROVE  UNCHANGED jobs => JobsStay
  BY DEF JobsStay

LEMMA ClaimEffect ==
  ASSUME SchedInv, NEW w \in Workers, Claim(w)
  PROVE  Claims(w) /\ UNCHANGED crashes
<1>1. Shapes /\ DueJobs # {}
  BY DEF SchedInv, Claim
<1>2. PICK batch \in NextBatches :
        /\ jobs' = [j \in DOMAIN jobs |->
             IF j \in Range(batch)
             THEN [jobs[j] EXCEPT !.status = "leased", !.lease = LeaseTime]
             ELSE jobs[j]]
        /\ procs' = [procs EXCEPT ![w] = [IdleProc EXCEPT !.pc = "execute", !.batch = batch]]
  BY DEF Claim
<1>3. /\ \A n \in DOMAIN batch : batch[n] \in DueJobs
      /\ \A m, n \in DOMAIN batch : m < n => ~Before(batch[n], batch[m])
      /\ \A j \in DueJobs \ Range(batch), n \in DOMAIN batch : ~Before(j, batch[n])
  BY <1>1, Batches
<1>4. procs'[w].pc = "execute" /\ procs'[w].batch = batch /\ Rest(w)
  BY <1>1, <1>2 DEF Shapes, Proc, IdleProc, PCs, Procs, Rest
<1>5. ASSUME NEW j \in DOMAIN jobs
      PROVE  /\ jobs'[j].runs = jobs[j].runs
             /\ jobs'[j].status = "delivered" => jobs[j].status = "delivered"
             /\ jobs'[j].status = IF j \in Range(batch) THEN "leased" ELSE jobs[j].status
  <2> DEFINE old == jobs[j]
             new == jobs'[j]
  <2>1. old \in ScheduledActionRow
    BY <1>1, JobTypes
  <2>2. \/ j \notin Range(batch) /\ new = old
        \/ /\ j \in Range(batch)
           /\ new = [old EXCEPT !.status = "leased", !.lease = LeaseTime]
    BY <1>2
  <2> HIDE DEF old, new
  <2>3. /\ new.runs = old.runs /\ (new.status = "delivered" => old.status = "delivered")
        /\ new.status = IF j \in Range(batch) THEN "leased" ELSE old.status
    BY <2>1, <2>2 DEF ScheduledActionRow
  <2> QED
    BY <2>3 DEF old, new
<1> QED
  BY <1>2, <1>3, <1>4, <1>5 DEF Claims, Claim

(* A transition, a snapshot and a retry run the row they are at.               *)
LEMMA RunEffect ==
  ASSUME SchedInv, NEW w \in Workers, Transition(w) \/ Snapshot(w) \/ Retry(w)
  PROVE  Runs(w) /\ UNCHANGED crashes
<1>1. Shapes /\ w \in Procs /\ procs[w] \in Proc
  BY DEF SchedInv, Procs, Shapes
<1>2. procs[w].pc = "execute" /\ jobs' = [jobs EXCEPT ![Current(w)].runs = @ + 1]
      /\ UNCHANGED crashes
  BY DEF Transition, Snapshot, Retry, Executing, CountRun
<1>3. Current(w) \in DOMAIN jobs
  BY <1>2, CurrentJob
<1>4. /\ Keeps(w)
      /\ \/ /\ procs'[w].pc = "mark"
            /\ (Job(w).type = "transition" /\ Transition(w)) \/ Job(w).type = "snapshot"
         \/ /\ procs'[w].pc = "await" /\ Job(w).type = "retry"
            /\ procs'[w].delivery = Job(w).delivery
  BY <1>1 DEF Transition, Snapshot, Retry, Executing, Goto, Keeps, Rest, Shapes, Proc
<1>5. /\ DOMAIN jobs' = DOMAIN jobs
      /\ jobs'[Current(w)].runs = jobs[Current(w)].runs + 1
      /\ \A j \in DOMAIN jobs : /\ j # Current(w) => jobs'[j] = jobs[j]
                                /\ jobs'[j].status = jobs[j].status
  BY <1>1, <1>2, <1>3, RunCounted
<1> QED
  BY <1>2, <1>4, <1>5 DEF Runs

LEMMA CreateEffect ==
  ASSUME SchedInv, NEW p \in Procs, CreateDelivery(p)
  PROVE  /\ UNCHANGED crashes
         /\ p \in Workers => Runs(p)
         /\ p \notin Workers => NoWorkerMoves
<1>1. Shapes /\ procs[p] \in Proc
  BY DEF SchedInv, Shapes
<1>2. procs[p].pc = "deliver" /\ UNCHANGED crashes
      /\ procs'[p].pc = "await" /\ Keeps(p)
  BY <1>1 DEF CreateDelivery, Keeps, Rest, Shapes, Proc
<1>3. CASE p \in Workers
  <2>1. Current(p) \in DOMAIN jobs
    BY <1>2, <1>3, CurrentJob
  <2>2. jobs' = [jobs EXCEPT ![Current(p)].runs = @ + 1]
    <3>1. Current(p) # 0
      BY <1>1, <2>1, LensOf DEF Lens
    <3> QED
      BY <1>3, <3>1 DEF CreateDelivery
  <2>3. /\ DOMAIN jobs' = DOMAIN jobs
        /\ jobs'[Current(p)].runs = jobs[Current(p)].runs + 1
        /\ \A j \in DOMAIN jobs : /\ j # Current(p) => jobs'[j] = jobs[j]
                                  /\ jobs'[j].status = jobs[j].status
    BY <1>1, <2>1, <2>2, RunCounted
  <2>4. deliveries'[procs'[p].delivery].job = Current(p)
    <3> DEFINE row == NewDelivery(procs[p].event, Current(p), 0)
    <3>1. /\ deliveries' = Append(deliveries, row) /\ procs'[p].delivery = Len(deliveries')
          /\ row.job = Current(p)
      BY <1>1, <1>3 DEF CreateDelivery, Shapes, Proc, NewDelivery
    <3>2. row \in Delivery
      <4>1. procs[p].event \in Nat /\ Current(p) \in Nat
        BY <1>1, <2>1, LensOf DEF Proc, Lens
      <4> QED
        BY <4>1 DEF NewDelivery, Delivery
    <3> HIDE DEF row
    <3>3. deliveries'[Len(deliveries')] = row
      BY <1>1, <3>1, <3>2, Appended DEF Shapes
    <3> QED
      BY <3>1, <3>3
  <2> QED
    BY <1>2, <1>3, <2>3, <2>4 DEF Runs
<1>4. CASE p \notin Workers
  <2>1. jobs' = jobs
    BY <1>4 DEF CreateDelivery
  <2> QED
    BY <1>1, <1>2, <1>4, <2>1, StayingJobs DEF NoWorkerMoves, Keeps, Rest, Procs
<1> QED
  BY <1>2, <1>3, <1>4

LEMMA MarkEffect ==
  ASSUME SchedInv, NEW w \in Workers, Mark(w)
  PROVE  Finishes(w) /\ UNCHANGED crashes
<1>1. Shapes /\ w \in Procs
  BY DEF SchedInv, Procs
<1>2. /\ procs[w].pc = "mark" /\ procs' = [procs EXCEPT ![w] = AfterCurrent(w)]
      /\ jobs' = [jobs EXCEPT ![Current(w)].status = "delivered", ![Current(w)].lease = 0]
      /\ UNCHANGED crashes
  BY DEF Mark
<1>3. Current(w) \in DOMAIN jobs /\ jobs[Current(w)].status # "scheduled"
  BY <1>2, CurrentJob
<1>4. /\ DOMAIN jobs' = DOMAIN jobs /\ jobs'[Current(w)].status = "delivered"
      /\ \A j \in DOMAIN jobs : /\ j # Current(w) => jobs'[j] = jobs[j]
                                /\ jobs'[j].runs = jobs[j].runs
  BY <1>1, <1>2, <1>3, Marked
<1>5. procs'[w] = AfterCurrent(w) /\ Rest(w)
  BY <1>1, <1>2 DEF Shapes, Rest
<1> QED
  BY <1>2, <1>4, <1>5 DEF Finishes

(* The steps that leave the jobs as they are.                                  *)
LEMMA GoOnEffect ==
  ASSUME SchedInv, NEW w \in Workers,
         NothingToSend(w) \/ MaterializeEvent(w) \/ RepeatEvent(w)
  PROVE  GoesOn(w) /\ UNCHANGED crashes
<1>1. Shapes /\ w \in Procs /\ procs[w] \in Proc
  BY DEF SchedInv, Procs, Shapes
<1>2. procs[w].pc = "execute" /\ UNCHANGED <<jobs, crashes>>
  BY DEF NothingToSend, MaterializeEvent, RepeatEvent, Executing, tables
<1>3. /\ Keeps(w)
      /\ \/ procs'[w].pc = "deliver" /\ Job(w).type \in CallbackTypes
         \/ /\ procs'[w].pc = "mark" /\ Job(w).type \notin {"transition", "snapshot", "retry"}
            /\ (Job(w).type = "webhook" => ~txns[Job(w).payment].url)
  BY <1>1
     DEF NothingToSend, MaterializeEvent, RepeatEvent, Executing, Goto, Keeps, Rest, Shapes, Proc,
         CallbackTypes
<1> QED
  BY <1>1, <1>2, <1>3, StayingJobs DEF GoesOn

(* The steps of an attempt after its response.                                 *)
LEMMA AttemptEffect ==
  ASSUME SchedInv, NEW p \in Procs,
         (\E outcome \in Outcomes : Respond(p, outcome)) \/ RecordStatus(p) \/ Reschedule(p)
  PROVE  /\ UNCHANGED crashes
         /\ p \in Workers => GoesOn(p)
         /\ p \notin Workers => NoWorkerMoves
<1>1. Shapes /\ procs[p] \in Proc
  BY DEF SchedInv, Shapes
<1>2. UNCHANGED crashes
  BY DEF Respond, RecordStatus, Reschedule
<1>3. JobsStay
  <2>1. CASE Reschedule(p)
    <3> DEFINE row == RetryJob(procs[p].delivery, RetryInterval)
    <3>1. procs[p].delivery \in DOMAIN deliveries /\ jobs' = Append(jobs, row)
      BY <2>1 DEF Reschedule, SchedInv, ProcsSound, ProcSound
    <3>2. row \in ScheduledActionRow /\ row.status = "scheduled" /\ row.runs = 0
      BY <3>1, RetryRow, Consts
    <3> HIDE DEF row
    <3>3. /\ \A j \in DOMAIN jobs : jobs'[j] = jobs[j]
          /\ \A j \in DOMAIN jobs' \ DOMAIN jobs : jobs'[j] = row
      BY <1>1, <3>1, <3>2, Appended DEF Shapes
    <3> QED
      BY <3>2, <3>3 DEF JobsStay
  <2>2. CASE ~Reschedule(p)
    <3>1. jobs' = jobs
      BY <2>2 DEF Respond, RecordStatus
    <3> QED
      BY <1>1, <3>1, StayingJobs
  <2> QED
    BY <2>1, <2>2
<1>4. Rest(p)
  BY <1>1 DEF Respond, RecordStatus, Reschedule, Rest, Shapes
<1>5. CASE p \in Workers
  <2>1. CASE \E outcome \in Outcomes : Respond(p, outcome)
    <3> PICK outcome \in Outcomes : Respond(p, outcome)
      BY <2>1
    <3>1. procs[p].pc = "await" /\ procs'[p].pc = "record"
          /\ procs'[p].batch = procs[p].batch /\ procs'[p].delivery = procs[p].delivery
      BY <1>1 DEF Respond, Shapes, Proc
    <3>2. PICK row \in Attempt :
            attempts' = Append(attempts, row) /\ row.delivery = procs[p].delivery
      <4> DEFINE row == [delivery |-> procs[p].delivery, number |-> procs[p].number,
                         decision |-> Decide(outcome, procs[p].number)]
      <4>1. attempts' = Append(attempts, row) /\ row.delivery = procs[p].delivery
        BY DEF Respond
      <4>2. row \in Attempt
        BY <1>1, Decided DEF Proc, Attempt
      <4> QED
        BY <4>1, <4>2
    <3>3. Len(attempts) + 1 \in DOMAIN attempts' /\ attempts'[Len(attempts) + 1] = row
      <4>1. /\ DOMAIN attempts' = 1 .. Len(attempts) + 1 /\ Len(attempts) \in Nat
            /\ attempts'[Len(attempts) + 1] = row
        BY <1>1, <3>2, Appended DEF Shapes
      <4> QED
        BY <4>1
    <3> QED
      BY <1>2, <1>3, <1>4, <1>5, <3>1, <3>2, <3>3 DEF GoesOn, Keeps
  <2>2. CASE RecordStatus(p)
    <3>1. procs[p].pc = "record" /\ procs'[p].pc \in {"reschedule", "mark"}
          /\ procs'[p].batch = procs[p].batch /\ procs'[p].delivery = procs[p].delivery
      BY <1>1, <1>5, <2>2 DEF RecordStatus, Finished, Shapes, Proc
    <3> QED
      BY <1>2, <1>3, <1>4, <1>5, <3>1 DEF GoesOn, Keeps
  <2>3. CASE Reschedule(p)
    <3>1. procs[p].pc = "reschedule" /\ procs'[p].pc = "mark"
          /\ procs'[p].batch = procs[p].batch /\ procs'[p].delivery = procs[p].delivery
      BY <1>1, <1>5, <2>3 DEF Reschedule, Finished, Shapes, Proc
    <3> QED
      BY <1>2, <1>3, <1>4, <1>5, <3>1 DEF GoesOn, Keeps
  <2> QED
    BY <1>2, <1>5, <2>1, <2>2, <2>3
<1>6. CASE p \notin Workers
  BY <1>2, <1>3, <1>4, <1>6 DEF NoWorkerMoves, Rest, Procs
<1> QED
  BY <1>5, <1>6

LEMMA LoseEffect ==
  ASSUME SchedInv, NEW w \in Workers, ThrowIllegal(w) \/ Crash(w)
  PROVE  Loses(w) /\ crashes' \in Nat /\ crashes <= crashes'
         /\ (crashes' # crashes => crashes' = crashes + 1)
<1>1. Shapes /\ w \in Procs /\ crashes \in Nat /\ w \notin Requests
  BY ProcAssumption DEF SchedInv, Procs, Shapes
<1>2. ASSUME Restart(w), UNCHANGED <<txns, snapshots, events, deliveries, attempts>>,
             crashes' \in Nat
      PROVE  /\ JobsStay /\ procs'[w] = IdleProc
             /\ \A v \in Workers \ {w} : procs'[v] = procs[v]
  <2>1. /\ DOMAIN jobs' = DOMAIN jobs
        /\ \A j \in DOMAIN jobs : jobs'[j].status = jobs[j].status /\ jobs'[j].runs = jobs[j].runs
        /\ \A p \in Procs : procs'[p] = IF p \in Requests \cup {w} THEN IdleProc ELSE procs[p]
    BY <1>2, RestartSound
  <2>2. \A v \in Workers : v \notin Requests /\ v \in Procs
    BY ProcAssumption DEF Procs
  <2> QED
    BY <2>1, <2>2 DEF JobsStay
<1>3. CASE Crash(w)
  <2>1. Restart(w) /\ UNCHANGED <<txns, snapshots, events, deliveries, attempts>>
        /\ crashes' = crashes + 1
    BY <1>3 DEF Crash
  <2> QED
    BY <1>1, <1>2, <2>1 DEF Loses
<1>4. CASE ThrowIllegal(w)
  <2>1. /\ UNCHANGED <<txns, snapshots, events, deliveries, attempts, crashes>>
        /\ procs[w].pc = "execute"
    BY <1>4 DEF ThrowIllegal, Executing
  <2>2. CASE procs' = [procs EXCEPT ![w] = IdleProc] /\ UNCHANGED <<now, jobs>>
    <3>1. procs'[w] = IdleProc /\ \A v \in Workers \ {w} : procs'[v] = procs[v]
      BY <1>1, <2>2 DEF Shapes, Procs
    <3> QED
      BY <1>1, <2>1, <2>2, <3>1, StayingJobs DEF Loses
  <2>3. CASE Restart(w)
    BY <1>1, <1>2, <2>1, <2>3 DEF Loses
  <2> QED
    BY <1>4, <2>2, <2>3 DEF ThrowIllegal
<1> QED
  BY <1>3, <1>4

LEMMA SubmitEffect ==
  ASSUME SchedInv, NEW p \in Payments, NEW timeline \in Timelines, NEW url,
         Submit(p, timeline, url)
  PROVE  NoWorkerMoves /\ UNCHANGED crashes
<1>1. Shapes
  BY DEF SchedInv
<1>2. /\ \A j \in DOMAIN jobs : jobs'[j] = jobs[j]
      /\ \A j \in DOMAIN jobs' \ DOMAIN jobs :
           RowOfStep(jobs'[j], p, timeline, j - Len(jobs))
  BY <1>1, Submitted
<1>3. JobsStay
  BY <1>2 DEF JobsStay, RowOfStep
<1>4. UNCHANGED <<procs, crashes>>
  BY DEF Submit
<1> QED
  BY <1>3, <1>4 DEF NoWorkerMoves

LEMMA ReplayEffect ==
  ASSUME SchedInv, NEW d \in DOMAIN deliveries, NEW delay \in {0, RetryInterval}, Replay(d, delay)
  PROVE  NoWorkerMoves /\ UNCHANGED crashes
<1> DEFINE count == Len(deliveries')
           retry == RetryJob(d, delay)
           job == [retry EXCEPT !.delivery = count]
<1>1. Shapes /\ delay \in Nat /\ Lens
  BY LensOf, Consts DEF SchedInv
<1>2. /\ deliveries' = Append(deliveries, NewDelivery(deliveries[d].event, 0, d))
      /\ jobs' = IF delay = 0 THEN jobs ELSE Append(jobs, job)
      /\ UNCHANGED <<procs, crashes>>
  BY DEF Replay
<1>3. count \in Nat
  <2>1. NewDelivery(deliveries[d].event, 0, d) \in Delivery
    BY <1>1 DEF NewDelivery, Delivery, Lens, SchedInv, DeliveriesRefer
  <2> QED
    BY <1>1, <1>2, <2>1, Appended DEF Shapes
<1>4. retry \in ScheduledActionRow /\ retry.status = "scheduled" /\ retry.runs = 0
  BY <1>1, RetryRow
<1> HIDE DEF count, retry
<1>5. job \in ScheduledActionRow /\ job.status = "scheduled" /\ job.runs = 0
  BY <1>3, <1>4 DEF ScheduledActionRow
<1> HIDE DEF job
<1>6. JobsStay
  <2>1. CASE delay = 0
    BY <1>1, <1>2, <2>1, StayingJobs
  <2>2. CASE delay # 0
    <3>1. /\ \A j \in DOMAIN jobs : jobs'[j] = jobs[j]
          /\ \A j \in DOMAIN jobs' \ DOMAIN jobs : jobs'[j] = job
      BY <1>1, <1>2, <1>5, <2>2, Appended DEF Shapes
    <3> QED
      BY <1>5, <3>1 DEF JobsStay
  <2> QED
    BY <2>1, <2>2
<1> QED
  BY <1>2, <1>6 DEF NoWorkerMoves

LEMMA TickEffect ==
  ASSUME SchedInv, Tick
  PROVE  NoWorkerMoves /\ UNCHANGED crashes
<1>1. /\ DOMAIN jobs' = DOMAIN jobs
      /\ \A j \in DOMAIN jobs : jobs'[j].status = jobs[j].status /\ jobs'[j].runs = jobs[j].runs
  BY TickSound
<1> QED
  BY <1>1 DEF Tick, NoWorkerMoves, JobsStay

LEMMA RestEffect ==
  ASSUME SchedInv,
         \/ UNCHANGED vars
         \/ \E d \in DOMAIN deliveries : Cancel(d)
         \/ \E r \in Requests, p \in Payments : VoidPayment(r, p)
  PROVE  NoWorkerMoves /\ UNCHANGED crashes
<1>1. Shapes
  BY DEF SchedInv
<1>2. UNCHANGED <<jobs, crashes>>
  BY DEF Cancel, VoidPayment, vars, tables
<1>3. \A v \in Workers : procs'[v] = procs[v]
  <2>1. CASE \E r \in Requests, p \in Payments : VoidPayment(r, p)
    <3> PICK r \in Requests, p \in Payments : VoidPayment(r, p)
      BY <2>1
    <3>1. procs' = procs
          \/ procs' = [procs EXCEPT ![r].pc = "deliver", ![r].event = Len(events')]
      BY DEF VoidPayment
    <3>2. r \notin Workers
      BY ProcAssumption
    <3> QED
      BY <1>1, <3>1, <3>2 DEF Shapes, Procs
  <2>2. CASE ~\E r \in Requests, p \in Payments : VoidPayment(r, p)
    BY <2>2 DEF Cancel, vars
  <2> QED
    BY <2>1, <2>2
<1> QED
  BY <1>1, <1>2, <1>3, StayingJobs DEF NoWorkerMoves

(* Every step is one of these to the workers and their jobs.                   *)
LEMMA Effects ==
  ASSUME SchedInv, [Next]_vars
  PROVE  /\ \/ \E w \in Workers :
                 UNCHANGED crashes /\ (Claims(w) \/ Runs(w) \/ Finishes(w) \/ GoesOn(w))
            \/ \E w \in Workers : Loses(w)
            \/ UNCHANGED crashes /\ NoWorkerMoves
         /\ crashes' \in {crashes, crashes + 1}
<1>1. ASSUME NEW w \in Workers, WorkerStep(w)
      PROVE  \/ UNCHANGED crashes /\ (Claims(w) \/ Runs(w) \/ Finishes(w) \/ GoesOn(w))
             \/ Loses(w) /\ crashes' \in {crashes, crashes + 1}
  BY <1>1, ClaimEffect, RunEffect, MarkEffect, GoOnEffect, LoseEffect DEF WorkerStep
<1>2. ASSUME NEW p \in Procs, DeliveryStep(p)
      PROVE  /\ UNCHANGED crashes
             /\ NoWorkerMoves \/ (p \in Workers /\ (Runs(p) \/ GoesOn(p)))
  BY <1>2, CreateEffect, AttemptEffect DEF DeliveryStep
<1>3. ASSUME NEW w \in Workers, Crash(w)
      PROVE  Loses(w) /\ crashes' \in {crashes, crashes + 1}
  BY <1>3, LoseEffect
<1> QED
  BY <1>1, <1>2, <1>3, SubmitEffect, ReplayEffect, TickEffect, RestEffect DEF Next

-----------------------------------------------------------------------------
(* Only a claim takes rows.                                                    *)

LEMMA ShorterBatch ==
  ASSUME SchedInv, NEW w \in Workers, procs[w].pc # "idle"
  PROVE  Range(AfterCurrent(w).batch) \subseteq Range(procs[w].batch)
<1>1. CASE AfterCurrent(w) = IdleProc
  BY <1>1 DEF IdleProc, Range
<1>2. CASE AfterCurrent(w).batch = Tail(procs[w].batch)
  BY <1>2, NextOfBatch DEF Range
<1> QED
  BY <1>1, <1>2, NextOfBatch

LEMMA OnlyClaimsTake ==
  ASSUME SchedInv, NEW w \in Workers, NEW v \in Workers, NEW j,
         Runs(w) \/ Finishes(w) \/ GoesOn(w) \/ Loses(w) \/ NoWorkerMoves,
         Holds(v, j)'
  PROVE  Holds(v, j)
<1>1. v \in Procs
  BY DEF Procs
<1>2. CASE v # w \/ NoWorkerMoves
  BY <1>1, <1>2 DEF Holds, Runs, Finishes, GoesOn, Loses, NoWorkerMoves, Keeps, Rest
<1>3. CASE v = w /\ (Runs(w) \/ GoesOn(w))
  BY <1>3 DEF Runs, GoesOn, Keeps, Holds
<1>4. CASE v = w /\ Finishes(w)
  BY <1>4, ShorterBatch DEF Finishes, Holds
<1>5. CASE v = w /\ Loses(w)
  BY <1>5 DEF Loses, Holds, IdleProc, Range
<1> QED
  BY <1>2, <1>3, <1>4, <1>5

-----------------------------------------------------------------------------
(* OvertakenWhileLeased.  A claim may take a row whose due time lies ahead, of *)
(* a batch lost before a manual clock started over; what makes it safe is that *)
(* nothing that precedes a row that was ever claimed is still unclaimed.       *)

ClaimedInOrder ==
  \A j, k \in TimelineJobs :
    Precedes(j, k) /\ jobs[k].status # "scheduled" => jobs[j].status # "scheduled"

LEMMA StepFacts ==
  ASSUME SchedInv, [Next]_vars
  PROVE  /\ SchedInv /\ SchedInv' /\ Shapes /\ Shapes' /\ [Next]_vars
         /\ NoWorkerMoves
            \/ \E w \in Workers : Claims(w) \/ Runs(w) \/ Finishes(w) \/ GoesOn(w) \/ Loses(w)
         /\ DOMAIN jobs \subseteq DOMAIN jobs'
         /\ \A j \in DOMAIN jobs : SameJob(jobs[j], jobs'[j])
         /\ \A j \in DOMAIN jobs' \ DOMAIN jobs : jobs'[j].status = "scheduled"
<1>1. SchedInv' /\ Shapes /\ Shapes' /\ Grows
  BY NextSound DEF SchedInv
<1>2. NoWorkerMoves
      \/ \E w \in Workers : Claims(w) \/ Runs(w) \/ Finishes(w) \/ GoesOn(w) \/ Loses(w)
  BY Effects
<1>3. DOMAIN jobs \subseteq DOMAIN jobs'
  <2>1. Lens /\ Lens'
    BY <1>1, LensOf DEF Shapes, Lens
  <2> QED
    BY <1>1, <2>1 DEF Lens, Grows, JobsGrow
<1>4. \A j \in DOMAIN jobs : SameJob(jobs[j], jobs'[j])
  BY <1>1 DEF Grows, JobsGrow
<1>5. \A j \in DOMAIN jobs' \ DOMAIN jobs : jobs'[j].status = "scheduled"
  BY <1>2 DEF Claims, Runs, Finishes, GoesOn, Loses, NoWorkerMoves, JobsStay
<1> QED
  BY <1>1, <1>2, <1>3, <1>4, <1>5

(* The rows that a step adds: a submission's, or a retry.                      *)
Submits == \E p \in Payments, timeline \in Timelines, url \in BOOLEAN : Submit(p, timeline, url)

LEMMA AddedRows ==
  ASSUME SchedInv, [Next]_vars, ~Submits, NEW j \in DOMAIN jobs' \ DOMAIN jobs
  PROVE  jobs'[j].type = "retry"
<1>1. Shapes
  BY DEF SchedInv
<1>2. ASSUME NEW job \in ScheduledActionRow, job.type = "retry", jobs' = Append(jobs, job)
      PROVE  jobs'[j].type = "retry"
  BY <1>1, <1>2, Appended DEF Shapes
<1>3. ASSUME NEW d \in DOMAIN deliveries, NEW delay \in {0, RetryInterval}, Replay(d, delay)
      PROVE  jobs'[j].type = "retry"
  <2> DEFINE row == RetryJob(d, delay)
             count == Len(deliveries')
             job == [row EXCEPT !.delivery = count]
  <2>1. row \in ScheduledActionRow /\ row.type = "retry"
    BY <1>1, Consts, RetryRow DEF RetryJob
  <2>2. deliveries' \in Seq(Delivery)
    BY <1>3, NextSound DEF SchedInv, Shapes
  <2>3. count \in Nat /\ jobs' = Append(jobs, job)
    BY <1>3, <2>2 DEF Replay
  <2> HIDE DEF row, count
  <2>4. job \in ScheduledActionRow /\ job.type = "retry"
    BY <2>1, <2>3 DEF ScheduledActionRow
  <2> QED
    BY <1>2, <2>3, <2>4
<1>4. ASSUME NEW p \in Procs, DeliveryStep(p) PROVE jobs'[j].type = "retry"
  <2>1. CASE Reschedule(p)
    <3>1. procs[p].delivery \in DOMAIN deliveries /\ RetryInterval \in Nat
      BY <2>1, Consts DEF Reschedule, SchedInv, ProcsSound, ProcSound
    <3>2. RetryJob(procs[p].delivery, RetryInterval) \in ScheduledActionRow
          /\ RetryJob(procs[p].delivery, RetryInterval).type = "retry"
      BY <3>1, RetryRow DEF RetryJob
    <3> QED
      BY <1>2, <2>1, <3>2 DEF Reschedule
  <2>2. CASE CreateDelivery(p)
    BY <2>2 DEF CreateDelivery
  <2> QED
    BY <1>4, <2>1, <2>2 DEF DeliveryStep, RecordStatus, Respond
<1>5. ASSUME NEW w \in Workers, WorkerStep(w) \/ Crash(w) PROVE FALSE
  BY <1>5
     DEF WorkerStep, Claim, Transition, ThrowIllegal, Snapshot, NothingToSend, MaterializeEvent,
         RepeatEvent, Retry, Mark, CountRun, Restart, Crash, tables
<1> QED
  BY <1>3, <1>4, <1>5 DEF Next, Submits, VoidPayment, Cancel, Tick, vars, tables

(* The rows of a timeline that precede one that was there were there.          *)
LEMMA OldRows ==
  ASSUME SchedInv, [Next]_vars, NEW j \in TimelineJobs', NEW k \in TimelineJobs', Precedes(j, k)',
         k \in DOMAIN jobs
  PROVE  j \in TimelineJobs /\ k \in TimelineJobs /\ Precedes(j, k)
<1>1. /\ SchedInv /\ Shapes /\ [Next]_vars /\ jobs'[j].payment = jobs'[k].payment
      /\ j \in DOMAIN jobs' /\ jobs'[j].type # "retry"
  BY StepFacts DEF Precedes, TimelineJobs
<1>2. txns[jobs'[k].payment].state # "none"
  BY <1>1, StepFacts DEF SchedInv, JobsSound, SameJob
<1>3. j \in DOMAIN jobs
  <2>1. SUFFICES ASSUME j \notin DOMAIN jobs PROVE FALSE
    OBVIOUS
  <2>2. Submits
    BY <1>1, <2>1, AddedRows
  <2>3. PICK p \in Payments, timeline \in Timelines, url \in BOOLEAN : Submit(p, timeline, url)
    BY <2>2 DEF Submits
  <2>4. jobs'[j].payment = p
    BY <1>1, <2>1, <2>3, Submitted DEF RowOfStep
  <2> QED
    BY <1>1, <1>2, <2>3, <2>4 DEF Submit
<1> QED
  BY <1>3, StepFacts DEF TimelineJobs, Precedes, SameJob

LEMMA ClaimedInOrderStep ==
  ASSUME SchedInv, [Next]_vars, ClaimedInOrder
  PROVE  ClaimedInOrder'
<1> SUFFICES ASSUME NEW j \in TimelineJobs', NEW k \in TimelineJobs', Precedes(j, k)',
                    jobs'[k].status # "scheduled", jobs'[j].status = "scheduled"
             PROVE  FALSE
  BY DEF ClaimedInOrder
<1>1. k \in DOMAIN jobs
  BY StepFacts DEF TimelineJobs
<1>2. j \in TimelineJobs /\ k \in TimelineJobs /\ Precedes(j, k) /\ j \in DOMAIN jobs
  BY <1>1, OldRows DEF TimelineJobs
<1>3. SchedInv /\ Shapes
  BY StepFacts
<1>4. jobs[j].status = "scheduled" /\ jobs[k].status = "scheduled"
  BY <1>2, <1>3, StepFacts DEF SameJob, ClaimedInOrder
<1>5. PICK w \in Workers : Claims(w)
  <2>1. ASSUME NEW w \in Workers, Finishes(w) PROVE k # Current(w)
    BY <1>3, <1>4, <2>1, CurrentJob DEF Finishes
  <2> QED
    BY <1>1, <1>4, <2>1, StepFacts DEF Runs, Finishes, GoesOn, Loses, NoWorkerMoves, JobsStay
<1>6. k \in Range(procs'[w].batch) /\ j \notin Range(procs'[w].batch)
  BY <1>1, <1>2, <1>4, <1>5 DEF Claims
<1>7. PICK n \in DOMAIN procs'[w].batch : procs'[w].batch[n] = k
  BY <1>6 DEF Range
<1>8. k \in DueJobs
  BY <1>5, <1>7 DEF Claims
<1>9. j \in DueJobs
  <2>1. jobs[k].due <= now
    BY <1>4, <1>8 DEF DueJobs
  <2>2. jobs[j].due <= jobs[k].due
    <3>1. jobs[j].due \in 0 .. Horizon /\ jobs[k].due \in 0 .. Horizon
      BY <1>1, <1>2, <1>3, JobTypes
    <3> QED
      BY <1>2, <3>1 DEF Precedes
  <2>3. jobs[j].due \in 0 .. Horizon /\ jobs[k].due \in 0 .. Horizon /\ now \in 0 .. Horizon
    BY <1>1, <1>2, <1>3, JobTypes DEF Shapes
  <2> QED
    BY <1>2, <1>4, <2>1, <2>2, <2>3 DEF DueJobs
<1>10. ~Before(j, k)
  BY <1>5, <1>6, <1>7, <1>9 DEF Claims
<1> QED
  BY <1>2, <1>10 DEF Before, Precedes

LEMMA ClaimsTakePrevious ==
  ASSUME SchedInv, Shapes', ClaimedInOrder, NEW w \in Workers, Claims(w),
         NEW j \in TimelineJobs, NEW k \in TimelineJobs, Precedes(j, k), Holds(w, k)'
  PROVE  Done(j) \/ jobs[j].lease > 0 \/ ComesBefore(w, j, k)'
<1>1. Shapes /\ j \in DOMAIN jobs /\ k \in DOMAIN jobs
  BY DEF SchedInv, TimelineJobs
<1>2. /\ jobs[j].due \in 0 .. Horizon /\ jobs[k].due \in 0 .. Horizon /\ now \in 0 .. Horizon
      /\ jobs[j].lease \in Nat /\ jobs[j].status \in {"scheduled", "leased", "delivered"}
      /\ jobs[j].step \in Nat /\ jobs[k].step \in Nat
  BY <1>1, JobTypes DEF Shapes, ScheduledActionRow
<1>3. PICK n \in DOMAIN procs'[w].batch : procs'[w].batch[n] = k
  BY DEF Holds, Range
<1>4. SUFFICES ASSUME ~Done(j), jobs[j].lease = 0
               PROVE  ComesBefore(w, j, k)'
  BY <1>2
<1>5. k \in DueJobs
  BY <1>3 DEF Claims
<1>6. j \in DueJobs
  <2>1. CASE jobs[j].status = "leased"
    BY <1>1, <1>4, <2>1 DEF DueJobs
  <2>2. CASE jobs[j].status = "scheduled"
    <3>1. jobs[k].status = "scheduled"
      BY <2>2 DEF ClaimedInOrder
    <3>2. jobs[j].due <= now
      BY <1>2, <1>5, <3>1 DEF DueJobs, Precedes
    <3> QED
      BY <1>1, <2>2, <3>2 DEF DueJobs
  <2> QED
    BY <1>2, <1>4, <2>1, <2>2 DEF Done
<1>7. Before(j, k) /\ ~Before(k, j) /\ j # k
  BY <1>2 DEF Precedes, Before
<1>8. PICK m \in DOMAIN procs'[w].batch : procs'[w].batch[m] = j
  BY <1>3, <1>6, <1>7 DEF Claims, Range
<1>9. m < n
  <2>1. ~(n < m)
    BY <1>3, <1>7, <1>8 DEF Claims
  <2>2. m # n
    BY <1>3, <1>7, <1>8
  <2>3. procs'[w].batch \in Seq(Nat)
    BY DEF Shapes, Proc, Procs
  <2> QED
    BY <2>1, <2>2, <2>3
<1> QED
  BY <1>3, <1>8, <1>9 DEF ComesBefore

(* OvertakenWhileLeased: for any number of workers, crashes and rows in a      *)
(* batch and either clock, what a claim takes comes after everything that      *)
(* precedes it in its timeline, but for what another lease still holds.        *)
THEOREM CrashesKeepOrder == Spec => OvertakenWhileLeased
<1> DEFINE Overtaken == \A w \in Workers : \A j, k \in TimelineJobs :
                          Precedes(j, k) /\ ~Holds(w, k) /\ Holds(w, k)' =>
                            Done(j) \/ jobs[j].lease > 0 \/ ComesBefore(w, j, k)'
           Inv == SchedInv /\ ClaimedInOrder
<1>1. Init => Inv
  BY InitSound DEF Init, ClaimedInOrder, TimelineJobs
<1>2. Inv /\ [Next]_vars => Inv'
  BY NextSound, ClaimedInOrderStep
<1>3. Inv /\ [Next]_vars => [Overtaken]_vars
  <2> SUFFICES ASSUME Inv, [Next]_vars, NEW w \in Workers, NEW j \in TimelineJobs,
                      NEW k \in TimelineJobs, Precedes(j, k), ~Holds(w, k), Holds(w, k)'
               PROVE  Done(j) \/ jobs[j].lease > 0 \/ ComesBefore(w, j, k)'
    OBVIOUS
  <2>1. PICK v \in Workers : Claims(v)
    BY Effects, OnlyClaimsTake
  <2>2. v = w
    BY <2>1 DEF Claims, Rest, Holds, Procs
  <2>3. Shapes'
    BY NextSound DEF SchedInv
  <2> QED
    BY <2>1, <2>2, <2>3, ClaimsTakePrevious
<1> HIDE DEF Inv, Overtaken
<1>4. Spec => []Inv
  BY <1>1, <1>2, PTL DEF Spec
<1> QED
  BY <1>3, <1>4, PTL DEF Spec, OvertakenWhileLeased, Overtaken

-----------------------------------------------------------------------------
(* CrashRepeatsOnce: how often a job runs.  A job that runs or is done has run *)
(* once more than there were crashes, at most; any other, once per crash.      *)

OneWorker == \A v, w \in Workers : v = w

Running(j) ==
  \E w \in Workers :
    procs[w].pc \in {"await", "record", "reschedule", "mark"} /\ j = Current(w)
BatchUndone == \A w \in Workers : \A n \in DOMAIN procs[w].batch : ~Done(procs[w].batch[n])
RunsOf(j) == jobs[j].runs <= crashes + (IF Done(j) \/ Running(j) THEN 1 ELSE 0)
RunsBounded == \A j \in DOMAIN jobs : RunsOf(j)

LEMMA UndoneStep ==
  ASSUME OneWorker, SchedInv, BatchUndone, [Next]_vars
  PROVE  BatchUndone'
<1> SUFFICES ASSUME NEW v \in Workers, NEW n \in DOMAIN procs'[v].batch
             PROVE  jobs'[procs'[v].batch[n]].status # "delivered"
  BY DEF BatchUndone, Done
<1>1. /\ \A m \in DOMAIN procs[v].batch :
           /\ procs[v].batch[m] \in DOMAIN jobs /\ jobs[procs[v].batch[m]].status # "delivered"
           /\ \A k \in DOMAIN procs[v].batch : k # m => procs[v].batch[k] # procs[v].batch[m]
  BY DEF BatchUndone, Done, SchedInv, ProcsSound, ProcSound, Procs
<1>2. CASE Claims(v)
  BY <1>2 DEF Claims, DueJobs
<1>3. CASE Runs(v) \/ GoesOn(v)
  BY <1>1, <1>3 DEF Runs, GoesOn, Keeps, JobsStay
<1>4. CASE Finishes(v)
  <2>1. procs'[v] = AfterCurrent(v) /\ procs[v].pc = "mark"
    BY <1>4 DEF Finishes
  <2>2. procs'[v] # IdleProc
    BY DEF IdleProc
  <2>3. /\ n + 1 \in DOMAIN procs[v].batch /\ procs'[v].batch[n] = procs[v].batch[n + 1]
        /\ Current(v) = procs[v].batch[1] /\ n \in Nat \ {0} /\ 1 \in DOMAIN procs[v].batch
    <3>1. procs'[v].batch = Tail(procs[v].batch) /\ Tail(procs[v].batch) \in Seq(Nat)
      BY <2>1, <2>2, NextOfBatch
    <3> QED
      BY <2>1, <3>1, NextOfBatch, CurrentJob
  <2>4. n + 1 # 1
    BY <2>3
  <2> QED
    BY <1>1, <1>4, <2>3, <2>4 DEF Finishes
<1>5. CASE Loses(v)
  BY <1>5 DEF Loses, IdleProc
<1>6. CASE NoWorkerMoves
  BY <1>1, <1>6 DEF NoWorkerMoves, JobsStay
<1> QED
  BY <1>2, <1>3, <1>4, <1>5, <1>6, Effects DEF OneWorker

LEMMA RunsStep ==
  ASSUME OneWorker, SchedInv, BatchUndone, RunsBounded, [Next]_vars
  PROVE  RunsBounded'
<1> SUFFICES ASSUME NEW j \in DOMAIN jobs' PROVE RunsOf(j)'
  BY DEF RunsBounded
<1>1. /\ SchedInv' /\ Grows /\ crashes \in Nat /\ crashes' \in {crashes, crashes + 1}
      /\ Shapes /\ Shapes'
  BY NextSound, Effects DEF SchedInv, Shapes
<1>2. jobs'[j].runs \in Nat
  <2>1. jobs'[j] \in ScheduledActionRow
    BY <1>1 DEF Shapes
  <2> QED
    BY <2>1 DEF ScheduledActionRow
<1>3. CASE j \notin DOMAIN jobs
  <2>1. jobs'[j].runs = 0
    BY <1>3, Effects DEF Claims, Runs, Finishes, GoesOn, Loses, NoWorkerMoves, JobsStay
  <2>2. PICK k \in Nat : crashes' = k
    BY <1>1
  <2> QED
    BY <2>1, <2>2 DEF RunsOf
<1>4. CASE j \in DOMAIN jobs
  <2>1. /\ RunsOf(j) /\ jobs[j].runs \in Nat /\ (Done(j) => Done(j)')
    BY <1>1, <1>4, JobTypes DEF RunsBounded, Grows, JobsGrow, SameJob, Done
  <2>2. ASSUME jobs'[j].runs = jobs[j].runs, crashes' = crashes + 1 \/ (Running(j) => Done(j)' \/ Running(j)')
        PROVE  RunsOf(j)'
    BY <1>1, <2>1, <2>2 DEF RunsOf
  <2>3. ASSUME NEW w \in Workers, Claims(w) PROVE RunsOf(j)'
    <3>1. ~Running(j)
      BY <2>3 DEF Running, Claims, OneWorker
    <3> QED
      BY <1>4, <2>2, <2>3, <3>1 DEF Claims
  <2>4. ASSUME NEW w \in Workers, Runs(w), UNCHANGED crashes PROVE RunsOf(j)'
    <3>1. ~Running(j) /\ procs[w].pc # "idle"
      BY <2>4 DEF Running, Runs, OneWorker
    <3>2. CASE j = Current(w)
      <4>1. ~Done(j)
        BY <3>1, <3>2, CurrentJob DEF BatchUndone
      <4>2. jobs[j].runs <= crashes
        BY <1>1, <2>1, <3>1, <4>1 DEF RunsOf
      <4>3. Running(j)'
        BY <2>4, <3>2 DEF Running, Runs, Keeps, Current
      <4>4. jobs'[j].runs = jobs[j].runs + 1
        BY <2>4, <3>2 DEF Runs
      <4> QED
        BY <1>1, <2>1, <2>4, <4>2, <4>3, <4>4 DEF RunsOf
    <3>3. CASE j # Current(w)
      BY <1>4, <2>2, <2>4, <3>1, <3>3 DEF Runs
    <3> QED
      BY <3>2, <3>3
  <2>5. ASSUME NEW w \in Workers, Finishes(w) PROVE RunsOf(j)'
    <3>1. CASE j = Current(w)
      BY <1>4, <2>2, <2>5, <3>1 DEF Finishes, Done
    <3>2. CASE j # Current(w)
      <4>1. ~Running(j)
        BY <3>2 DEF Running, OneWorker
      <4> QED
        BY <1>4, <2>2, <2>5, <4>1 DEF Finishes
    <3> QED
      BY <3>1, <3>2
  <2>6. ASSUME NEW w \in Workers, GoesOn(w) PROVE RunsOf(j)'
    <3>1. Running(j) => Running(j)'
      BY <2>6 DEF Running, GoesOn, Keeps, Current, OneWorker
    <3> QED
      BY <1>4, <2>2, <2>6, <3>1 DEF GoesOn, JobsStay
  <2>7. ASSUME NEW w \in Workers, Loses(w) PROVE RunsOf(j)'
    <3>1. crashes' = crashes + 1 \/ ~Running(j)
      BY <1>1, <2>7 DEF Running, Loses, OneWorker
    <3> QED
      BY <1>4, <2>2, <2>7, <3>1 DEF Loses, JobsStay
  <2>8. CASE NoWorkerMoves
    <3>1. Running(j) => Running(j)'
      BY <2>8 DEF Running, NoWorkerMoves, Current
    <3> QED
      BY <1>4, <2>2, <2>8, <3>1 DEF NoWorkerMoves, JobsStay
  <2> QED
    BY <2>3, <2>4, <2>5, <2>6, <2>7, <2>8, Effects
<1> QED
  BY <1>3, <1>4

LEMMA RunsInit == Init => BatchUndone /\ RunsBounded
  BY DEF Init, BatchUndone, RunsBounded, IdleProc, Procs

LEMMA RunsBound == SchedInv /\ RunsBounded => EffectsBounded
<1> SUFFICES ASSUME SchedInv, RunsBounded, NEW j \in DOMAIN jobs
             PROVE  jobs[j].runs <= 1 + crashes
  BY DEF EffectsBounded
<1>1. jobs[j].runs \in Nat /\ crashes \in Nat
  BY JobTypes DEF SchedInv, Shapes
<1> QED
  BY <1>1 DEF RunsBounded, RunsOf

(* CrashRepeatsOnce: no callback is dropped.  From the row of a delivery to    *)
(* the mark of its job, a worker holds what proves the attempt.                *)

Tried(d) == \E n \in DOMAIN attempts : attempts[n].delivery = d
Attempted(j) == \E d \in DOMAIN deliveries : deliveries[d].job = j /\ Tried(d)
Carries(w) ==
  /\ procs[w].pc \in {"await", "record", "reschedule"} /\ Job(w).type # "retry" =>
       deliveries[procs[w].delivery].job = Current(w)
  /\ procs[w].pc \in {"record", "reschedule"} => Tried(procs[w].delivery)
  /\ procs[w].pc = "mark" /\ Job(w).type = "webhook" /\ txns[Job(w).payment].url =>
       Attempted(Current(w))
TriedIfDone(j) ==
  Done(j) /\ jobs[j].type = "webhook" /\ txns[jobs[j].payment].url => Attempted(j)
NoneDropped == (\A w \in Workers : Carries(w)) /\ \A j \in DOMAIN jobs : TriedIfDone(j)

LEMMA TriedStays ==
  ASSUME Shapes, Shapes', Grows
  PROVE  /\ \A d \in DOMAIN deliveries : d \in DOMAIN deliveries'
         /\ \A j \in DOMAIN jobs : j \in DOMAIN jobs'
         /\ \A d : Tried(d) => Tried(d)'
         /\ \A j : Attempted(j) => Attempted(j)'
<1>1. Lens /\ Lens'
  BY LensOf DEF Shapes, Lens
<1>2. /\ \A d \in DOMAIN deliveries : d \in DOMAIN deliveries'
      /\ \A j \in DOMAIN jobs : j \in DOMAIN jobs'
      /\ \A n \in DOMAIN attempts : n \in DOMAIN attempts'
  BY <1>1 DEF Lens, Grows, DeliveriesGrow, AttemptsGrow, JobsGrow
<1>3. \A d : Tried(d) => Tried(d)'
  BY <1>2 DEF Tried, Grows, AttemptsGrow
<1>4. \A j : Attempted(j) => Attempted(j)'
  BY <1>2, <1>3 DEF Attempted, Grows, DeliveriesGrow, SameDelivery
<1> QED
  BY <1>2, <1>3, <1>4

(* What a worker reads of its row does not change; a URL is never added.       *)
LEMMA CurrentStays ==
  ASSUME SchedInv, Shapes', Grows, NEW w \in Workers, procs[w].pc # "idle",
         procs'[w].batch = procs[w].batch
  PROVE  /\ Current(w)' = Current(w) /\ Job(w)'.type = Job(w).type
         /\ Job(w)'.payment = Job(w).payment /\ Job(w)'.delivery = Job(w).delivery
         /\ txns'[Job(w)'.payment].url => txns[Job(w).payment].url
<1>1. /\ Current(w) \in DOMAIN jobs /\ Job(w) = jobs[Current(w)]
      /\ Job(w).payment \in Payments /\ txns[Job(w).payment].state # "none"
  BY CurrentJob
<1>2. Current(w)' = Current(w)
  BY DEF Current
<1>3. SameJob(Job(w), Job(w)')
  BY <1>1, <1>2 DEF Grows, JobsGrow, Job
<1> QED
  BY <1>1, <1>2, <1>3 DEF SameJob, Grows, TxnsGrow

LEMMA CarriesStep ==
  ASSUME SchedInv, SchedInv', Grows, NEW w \in Workers, Carries(w), [Next]_vars
  PROVE  Carries(w)'
<1>1. Shapes /\ Shapes' /\ ProcSound(w)
  BY DEF SchedInv, ProcsSound, Procs
<1>2. CASE procs'[w].pc \in {"idle", "execute", "deliver"}
  BY <1>2 DEF Carries
<1>3. CASE procs'[w].pc \notin {"idle", "execute", "deliver"}
  <2>1. /\ procs[w].pc # "idle" /\ procs'[w].batch = procs[w].batch
        /\ procs'[w] = procs[w] \/ Runs(w) \/ GoesOn(w)
    <3>1. ~Claims(w) /\ ~Loses(w) /\ ~Finishes(w)
      BY <1>3, NextOfBatch DEF Claims, Loses, Finishes, IdleProc
    <3>2. procs'[w] = procs[w] \/ Runs(w) \/ GoesOn(w)
      BY <3>1, Effects
         DEF Procs, Rest, Keeps, Claims, Runs, Finishes, GoesOn, Loses, NoWorkerMoves
    <3> QED
      BY <1>3, <3>2 DEF Runs, GoesOn, Keeps
  <2>2. /\ Current(w)' = Current(w) /\ Job(w)'.type = Job(w).type
        /\ txns'[Job(w)'.payment].url => txns[Job(w).payment].url
    BY <1>1, <2>1, CurrentStays
  <2>3. ASSUME procs[w].pc \in {"await", "record", "reschedule"}
        PROVE  /\ procs[w].delivery \in DOMAIN deliveries
               /\ deliveries'[procs[w].delivery].job = deliveries[procs[w].delivery].job
    BY <1>1, <2>3 DEF ProcSound, Grows, DeliveriesGrow, SameDelivery
  <2>4. /\ \A d : Tried(d) => Tried(d)'
        /\ \A j : Attempted(j) => Attempted(j)'
    BY <1>1, TriedStays
  <2>5. CASE procs'[w] = procs[w]
    BY <1>3, <2>1, <2>2, <2>3, <2>4, <2>5 DEF Carries
  <2>6. CASE Runs(w)
    BY <2>1, <2>2, <2>6 DEF Runs, Carries
  <2>7. CASE GoesOn(w) /\ procs[w].pc = "execute"
    BY <2>2, <2>7 DEF GoesOn, Carries
  <2>8. CASE GoesOn(w) /\ procs[w].pc = "await"
    <3>1. procs'[w].pc = "record" /\ procs'[w].delivery = procs[w].delivery
          /\ Tried(procs[w].delivery)'
      BY <2>8 DEF GoesOn, Tried
    <3> QED
      BY <2>2, <2>3, <2>8, <3>1 DEF Carries
  <2>9. CASE GoesOn(w) /\ procs[w].pc \in {"record", "reschedule"}
    <3>1. procs'[w].pc \in {"reschedule", "mark"} /\ procs'[w].delivery = procs[w].delivery
      BY <2>9 DEF GoesOn
    <3>2. /\ Job(w).type # "retry" => deliveries[procs[w].delivery].job = Current(w)
          /\ Tried(procs[w].delivery)
      BY <2>9 DEF Carries
    <3>3. Job(w).type # "retry" => Attempted(Current(w))
      BY <2>3, <2>9, <3>2 DEF Attempted
    <3> QED
      BY <2>2, <2>3, <2>4, <2>9, <3>1, <3>2, <3>3 DEF Carries
  <2> QED
    BY <2>1, <2>5, <2>6, <2>7, <2>8, <2>9 DEF GoesOn
<1> QED
  BY <1>2, <1>3

LEMMA FinishedStep ==
  ASSUME SchedInv, SchedInv', Grows, NoneDropped, [Next]_vars, NEW j \in DOMAIN jobs'
  PROVE  TriedIfDone(j)'
<1>1. Shapes /\ Shapes'
  BY DEF SchedInv
<1>2. CASE j \notin DOMAIN jobs
  <2>1. jobs'[j].status = "scheduled"
    BY <1>2, Effects DEF Claims, Runs, Finishes, GoesOn, Loses, NoWorkerMoves, JobsStay
  <2> QED
    BY <2>1 DEF TriedIfDone, Done
<1>3. CASE j \in DOMAIN jobs
  <2>1. /\ SameJob(jobs[j], jobs'[j]) /\ jobs[j].payment \in Payments
        /\ txns[jobs[j].payment].state # "none"
    BY <1>1, <1>3, JobTypes DEF Grows, JobsGrow, SchedInv, JobsSound
  <2>2. txns'[jobs'[j].payment].url => txns[jobs[j].payment].url
    BY <2>1 DEF SameJob, Grows, TxnsGrow
  <2>3. Attempted(j) => Attempted(j)'
    BY <1>1, TriedStays
  <2>4. CASE Done(j) \/ ~Done(j)'
    BY <1>3, <2>1, <2>2, <2>3, <2>4 DEF NoneDropped, TriedIfDone, SameJob
  <2>5. CASE ~Done(j) /\ Done(j)'
    <3>1. PICK w \in Workers : Finishes(w) /\ j = Current(w)
      BY <1>3, <2>5, Effects
         DEF Done, Claims, Runs, Finishes, GoesOn, Loses, NoWorkerMoves, JobsStay
    <3>2. procs[w].pc = "mark" /\ Carries(w) /\ Job(w) = jobs[j]
      BY <3>1 DEF Finishes, NoneDropped, Job
    <3> QED
      BY <2>1, <2>2, <2>3, <3>1, <3>2 DEF Carries, TriedIfDone, SameJob
  <2> QED
    BY <2>4, <2>5
<1> QED
  BY <1>2, <1>3

LEMMA DroppedInit == Init => NoneDropped
  BY DEF Init, NoneDropped, Carries, IdleProc, Procs

LEMMA NoneDroppedMeans == SchedInv /\ NoneDropped => DeliveredMeansAttempted
<1> SUFFICES ASSUME SchedInv, NoneDropped, NEW j \in TimelineJobs,
                    Done(j) /\ jobs[j].type = "webhook" /\ txns[jobs[j].payment].url
             PROVE  \E d \in DOMAIN deliveries : deliveries[d].job = j /\ AttemptsOf(d) # {}
  BY DEF DeliveredMeansAttempted
<1>1. Attempted(j)
  BY DEF NoneDropped, TriedIfDone, TimelineJobs
<1> QED
  BY <1>1 DEF Attempted, Tried, AttemptsOf

(* DeliveredMeansAttempted: whatever the number of workers, whenever they      *)
(* crash, a callback action is finished only after an attempt was recorded.    *)
THEOREM NoCallbackDropped == Spec => []DeliveredMeansAttempted
<1>1. Init => NoneDropped
  BY DroppedInit
<1>2. SchedInv /\ NoneDropped /\ [Next]_vars => NoneDropped'
  BY NextSound, CarriesStep, FinishedStep DEF NoneDropped
<1> QED
  BY <1>1, <1>2, SchedInvariance, NoneDroppedMeans, PTL DEF Spec

(* CrashRepeatsOnce: with one scheduler loop, each crash repeats an action at  *)
(* most once, no poll or expired lease repeats one, and no callback is dropped. *)
THEOREM CrashesRepeatOnce ==
  ASSUME OneWorker
  PROVE  Spec => []CrashRepeatsOnce
<1>1. Init => BatchUndone /\ RunsBounded
  BY RunsInit
<1>2. SchedInv /\ BatchUndone /\ RunsBounded /\ [Next]_vars => BatchUndone' /\ RunsBounded'
  BY UndoneStep, RunsStep
<1>3. SchedInv /\ RunsBounded /\ DeliveredMeansAttempted => CrashRepeatsOnce
  BY RunsBound DEF CrashRepeatsOnce
<1> QED
  BY <1>1, <1>2, <1>3, SchedInvariance, NoCallbackDropped, PTL DEF Spec

-----------------------------------------------------------------------------
(* DeliveriesSettled: while nobody is between the commits of an attempt, the   *)
(* rows of a delivery agree; a process that is between them holds what is      *)
(* missing.                                                                    *)

Count(d) == Cardinality(AttemptsOf(d))
Verdict(d) == IF AttemptsOf(d) = {} THEN "none" ELSE LastDecision(d)
Active(p, d) == procs[p].pc \in {"await", "record", "reschedule"} /\ procs[p].delivery = d

(* The retries of a delivery that no worker has begun.                         *)
Waiting(d) == {j \in PendingRetries(d) : ~Running(j)}

Numbered(d) ==
  Count(d) <= MaxAttempts /\ {attempts[n].number : n \in AttemptsOf(d)} = 1 .. Count(d)

Resting(d) ==
  /\ Verdict(d) # "none" => deliveries[d].status = Verdict(d)
  /\ Verdict(d) = "retry_scheduled" => Waiting(d) # {}
  /\ Waiting(d) # {} => Verdict(d) \in {"none", "retry_scheduled"}

(* Process p holds delivery d, and nobody else does or will.                   *)
Handled(p, d) ==
  /\ Waiting(d) = {}
  /\ \A q \in Procs : Active(q, d) => q = p
  /\ procs[p].pc = "await" => procs[p].number = Count(d) + 1 /\ procs[p].number <= MaxAttempts
  /\ procs[p].pc \in {"record", "reschedule"} => Verdict(d) = procs[p].decision
  /\ procs[p].pc = "reschedule" =>
       deliveries[d].status = "retry_scheduled" /\ procs[p].decision = "retry_scheduled"

Consistent(d) ==
  /\ Numbered(d)
  /\ Verdict(d) = "none" => deliveries[d].status \in {"scheduled", "cancelled"}
  /\ Verdict(d) = "retry_scheduled" => Count(d) < MaxAttempts
  /\ \A j, k \in Waiting(d) : j = k
  /\ (\A p \in Procs : ~Active(p, d)) => Resting(d)
  /\ \A p \in Procs : Active(p, d) => Handled(p, d)

(* A request handler makes the first attempt only; a worker that executes a    *)
(* retry holds the delivery of its row.                                        *)
InHand(p) ==
  /\ p \in Requests /\ procs[p].pc = "await" => procs[p].number = 1
  /\ p \in Workers /\ procs[p].pc = "deliver" => Job(p).type \in CallbackTypes
  /\ p \in Workers /\ procs[p].pc \in {"await", "record", "reschedule", "mark"} =>
       (Job(p).type = "retry" => procs[p].delivery = Job(p).delivery)

SettleInv ==
  /\ \A d \in DOMAIN deliveries : Consistent(d)
  /\ \A p \in Procs : InHand(p)

NoCrashes == OneWorker /\ MaxCrashes = 0

LEMMA GreatestExists ==
  ASSUME NEW m \in Nat, NEW T, T \subseteq 1 .. m, T # {}
  PROVE  Max(T) \in T /\ \A y \in T : y =< Max(T)
<1> DEFINE below == {m - x : x \in T}
<1>1. below \subseteq Nat /\ below # {}
  <2>1. \A x \in T : x \in Nat /\ m - x \in Nat
    OBVIOUS
  <2> QED
    BY <2>1
<1>2. Min(below) \in below /\ \A z \in below : Min(below) =< z
  BY <1>1, LeastExists
<1>3. PICK x \in T : Min(below) = m - x
  BY <1>2
<1>4. ASSUME NEW y \in T PROVE x >= y
  <2>1. m - x =< m - y
    BY <1>2, <1>3
  <2> QED
    BY <2>1
<1>5. Max(T) \in T /\ \A y \in T : Max(T) >= y
  BY <1>4 DEF Max
<1> QED
  BY <1>5

(* What the last attempt of a delivery decided.                                *)
LEMMA VerdictType ==
  ASSUME Shapes, NEW d
  PROVE  /\ AttemptsOf(d) = {} <=> Verdict(d) = "none"
         /\ AttemptsOf(d) = {} <=> Count(d) = 0
         /\ AttemptsOf(d) # {} =>
              /\ Max(AttemptsOf(d)) \in AttemptsOf(d)
              /\ \A n \in AttemptsOf(d) : n =< Max(AttemptsOf(d))
              /\ Verdict(d) = LastDecision(d) /\ Verdict(d) \in Decisions
         /\ Count(d) \in Nat
<1>1. /\ AttemptsOf(d) \subseteq 1 .. Len(attempts) /\ Len(attempts) \in Nat
      /\ IsFiniteSet(AttemptsOf(d)) /\ Count(d) \in Nat
  BY LensOf, Numbers DEF Lens, AttemptsOf, Count
<1>2. AttemptsOf(d) # {} =>
        /\ Max(AttemptsOf(d)) \in AttemptsOf(d)
        /\ \A n \in AttemptsOf(d) : n =< Max(AttemptsOf(d))
  BY <1>1, GreatestExists
<1>3. \A n \in AttemptsOf(d) : attempts[n].decision \in Decisions
  <2>1. \A n \in AttemptsOf(d) : attempts[n] \in Attempt
    BY DEF Shapes, AttemptsOf
  <2> QED
    BY <2>1 DEF Attempt
<1>4. AttemptsOf(d) = {} <=> Count(d) = 0
  BY <1>1, FS_EmptySet DEF Count
<1> QED
  BY <1>1, <1>2, <1>3, <1>4 DEF Verdict, LastDecision, Decisions

(* A delivery that gets no attempt keeps its count and verdict.                *)
LEMMA NotAttempted ==
  ASSUME Shapes, Shapes', Grows, NEW d,
         \A n \in DOMAIN attempts' \ DOMAIN attempts : attempts'[n].delivery # d
  PROVE  /\ AttemptsOf(d)' = AttemptsOf(d)
         /\ Count(d)' = Count(d) /\ Verdict(d)' = Verdict(d)
         /\ Numbered(d) => Numbered(d)'
<1>0. Lens /\ Lens'
  BY LensOf DEF Shapes, Lens
<1>1. /\ DOMAIN attempts \subseteq DOMAIN attempts'
      /\ \A n \in DOMAIN attempts : attempts'[n] = attempts[n]
  BY <1>0 DEF Grows, AttemptsGrow, Lens
<1>2. AttemptsOf(d)' = AttemptsOf(d)
  BY <1>1 DEF AttemptsOf
<1>3. \A n \in AttemptsOf(d) : attempts'[n] = attempts[n]
  BY <1>1 DEF AttemptsOf
<1>4. Count(d)' = Count(d)
  BY <1>2 DEF Count
<1>5. Verdict(d)' = Verdict(d)
  BY <1>2, <1>3, VerdictType DEF Verdict, LastDecision
<1>6. Numbered(d) => Numbered(d)'
  BY <1>2, <1>3, <1>4 DEF Numbered
<1> QED
  BY <1>2, <1>4, <1>5, <1>6

(* One more attempt of a delivery.                                             *)
LEMMA AttemptAdded ==
  ASSUME Shapes, NEW row \in Attempt, attempts' = Append(attempts, row), Shapes',
         NEW d, row.delivery = d
  PROVE  /\ Count(d)' = Count(d) + 1 /\ Verdict(d)' = row.decision
         /\ {attempts[n].number : n \in AttemptsOf(d)}' =
              {attempts[n].number : n \in AttemptsOf(d)} \cup {row.number}
<1> DEFINE last == Len(attempts) + 1
<1>1. /\ Len(attempts) \in Nat /\ DOMAIN attempts = 1 .. Len(attempts)
      /\ DOMAIN attempts' = 1 .. last /\ attempts'[last] = row
      /\ \A n \in DOMAIN attempts : attempts'[n] = attempts[n]
  BY Appended DEF Shapes
<1>2. /\ AttemptsOf(d)' = AttemptsOf(d) \cup {last} /\ last \notin AttemptsOf(d)
      /\ \A n \in AttemptsOf(d) : attempts'[n] = attempts[n]
  BY <1>1 DEF AttemptsOf
<1>3. Count(d)' = Count(d) + 1
  BY <1>2, Numbers, FS_AddElement DEF Count
<1>4. Max(AttemptsOf(d)') = last
  <2>1. /\ AttemptsOf(d)' \subseteq 1 .. last /\ last \in Nat /\ last \in AttemptsOf(d)'
    BY <1>1, <1>2 DEF AttemptsOf
  <2> DEFINE later == AttemptsOf(d)'
  <2> HIDE DEF later, last
  <2>2. Max(later) \in later /\ \A n \in later : n =< Max(later)
    BY <2>1, GreatestExists DEF later
  <2>3. Max(later) \in 1 .. last /\ last =< Max(later)
    BY <2>1, <2>2 DEF later
  <2>4. Max(later) = last
    BY <2>1, <2>3
  <2> QED
    BY <2>4 DEF later
<1>5. Verdict(d)' = row.decision
  BY <1>1, <1>2, <1>4 DEF Verdict, LastDecision
<1>6. {attempts'[n].number : n \in AttemptsOf(d)'} =
        {attempts[n].number : n \in AttemptsOf(d)} \cup {row.number}
  <2> HIDE DEF last
  <2>1. {attempts'[n].number : n \in AttemptsOf(d)'} =
          {attempts'[n].number : n \in AttemptsOf(d)} \cup {attempts'[last].number}
    BY <1>2
  <2>2. {attempts'[n].number : n \in AttemptsOf(d)} = {attempts[n].number : n \in AttemptsOf(d)}
    BY <1>2
  <2> QED
    BY <1>1, <2>1, <2>2
<1> QED
  BY <1>3, <1>5, <1>6

LEMMA CrashFree ==
  ASSUME MaxCrashes = 0, SchedInv, [Next]_vars
  PROVE  UNCHANGED crashes
<1>1. \A w \in Workers : ~Crash(w)
  BY DEF SchedInv, Shapes, Crash
<1>2. ASSUME NEW w \in Workers, WorkerStep(w) PROVE UNCHANGED crashes
  <2>1. CASE ThrowIllegal(w)
    BY <2>1 DEF ThrowIllegal
  <2> QED
    BY <1>2, <2>1, ClaimEffect, RunEffect, MarkEffect, GoOnEffect DEF WorkerStep
<1>3. ASSUME NEW p \in Procs, DeliveryStep(p) PROVE UNCHANGED crashes
  BY <1>3, CreateEffect, AttemptEffect DEF DeliveryStep
<1> QED
  BY <1>1, <1>2, <1>3, SubmitEffect, ReplayEffect, TickEffect, RestEffect DEF Next

(* A job that no worker begins in this step is begun if it was.                *)
Begun(j) == Done(j) \/ Running(j)

LEMMA BegunStays ==
  ASSUME OneWorker, SchedInv, [Next]_vars, UNCHANGED crashes, NEW j \in DOMAIN jobs,
         \A w \in Workers : Runs(w) => j # Current(w),
         \A w \in Workers :
           GoesOn(w) /\ procs[w].pc = "execute" /\ procs'[w].pc = "mark" => j # Current(w)
  PROVE  Begun(j)' <=> Begun(j)
<1>1. Done(j) => Done(j)'
  BY NextSound DEF Grows, JobsGrow, SameJob, Done
<1>2. ASSUME NEW w \in Workers, Claims(w) PROVE Begun(j)' <=> Begun(j)
  <2>1. ~Running(j) /\ ~Running(j)'
    BY <1>2 DEF Running, Claims, OneWorker
  <2> QED
    BY <1>1, <1>2, <2>1 DEF Begun, Claims, Done
<1>3. ASSUME NEW w \in Workers, Runs(w) PROVE Begun(j)' <=> Begun(j)
  <2>1. Done(j)' <=> Done(j)
    BY <1>3 DEF Runs, Done
  <2>2. j # Current(w) /\ Current(w)' = Current(w)
    BY <1>3 DEF Runs, Keeps, Current
  <2>3. ~Running(j) /\ ~Running(j)'
    BY <2>2 DEF Running, OneWorker
  <2> QED
    BY <2>1, <2>3 DEF Begun
<1>4. ASSUME NEW w \in Workers, Finishes(w) PROVE Begun(j)' <=> Begun(j)
  <2>1. ~Running(j)'
    <3>1. procs'[w].pc \in {"idle", "execute"}
      BY <1>4, NextOfBatch DEF Finishes, IdleProc
    <3> QED
      BY <3>1 DEF Running, OneWorker
  <2>2. Running(j) <=> j = Current(w)
    BY <1>4 DEF Running, Finishes, OneWorker
  <2> QED
    BY <1>1, <1>4, <2>1, <2>2 DEF Begun, Finishes, Done
<1>5. ASSUME NEW w \in Workers, GoesOn(w) PROVE Begun(j)' <=> Begun(j)
  <2>1. Done(j)' <=> Done(j)
    BY <1>5 DEF GoesOn, JobsStay, Done
  <2>2. Current(w)' = Current(w)
    BY <1>5 DEF GoesOn, Keeps, Current
  <2>3. Running(j) <=> Running(j)'
    BY <1>5, <2>2 DEF Running, GoesOn, OneWorker
  <2> QED
    BY <2>1, <2>3 DEF Begun
<1>6. ASSUME NEW w \in Workers, Loses(w) PROVE Begun(j)' <=> Begun(j)
  <2>1. ~Running(j) /\ ~Running(j)'
    BY <1>6 DEF Running, Loses, IdleProc, OneWorker
  <2> QED
    BY <1>6, <2>1 DEF Begun, Loses, JobsStay, Done
<1>7. CASE NoWorkerMoves
  <2>1. Running(j) <=> Running(j)'
    BY <1>7 DEF NoWorkerMoves, Running, Current
  <2> QED
    BY <1>7, <2>1 DEF Begun, NoWorkerMoves, JobsStay, Done
<1> QED
  BY <1>2, <1>3, <1>4, <1>5, <1>6, <1>7, Effects

(* A retry is begun by its worker's next attempt and by nothing else.          *)
LEMMA BegunStep ==
  ASSUME NoCrashes, SchedInv, [Next]_vars, \A w \in Workers : InHand(w),
         NEW j \in DOMAIN jobs, jobs[j].type = "retry",
         \A w \in Workers :
           ~(procs[w].pc = "execute" /\ procs'[w].pc = "await" /\ j = Current(w))
  PROVE  Begun(j)' <=> Begun(j)
<1>1. OneWorker /\ UNCHANGED crashes
  BY CrashFree DEF NoCrashes
<1>2. \A w \in Workers : Runs(w) => j # Current(w)
  BY DEF Runs, InHand, Job, CallbackTypes
<1>3. \A w \in Workers :
        GoesOn(w) /\ procs[w].pc = "execute" /\ procs'[w].pc = "mark" => j # Current(w)
  BY DEF GoesOn, Job
<1> QED
  BY <1>1, <1>2, <1>3, BegunStays

(* The waiting retries of a delivery, when none is begun and none is added.    *)
LEMMA WaitingStays ==
  ASSUME NoCrashes, SchedInv, [Next]_vars, \A w \in Workers : InHand(w),
         NEW d,
         \A w \in Workers :
           ~(/\ procs[w].pc = "execute" /\ procs'[w].pc = "await"
             /\ Job(w).type = "retry" /\ Job(w).delivery = d),
         \A j \in DOMAIN jobs' \ DOMAIN jobs :
           ~(jobs'[j].type = "retry" /\ jobs'[j].delivery = d)
  PROVE  Waiting(d)' = Waiting(d)
<1>1. SchedInv' /\ Grows /\ Lens /\ Lens'
  BY NextSound, LensOf DEF SchedInv, Shapes, Lens
<1>2. DOMAIN jobs \subseteq DOMAIN jobs'
  BY <1>1 DEF Lens, Grows, JobsGrow
<1>3. \A j \in DOMAIN jobs :
        jobs'[j].type = jobs[j].type /\ jobs'[j].delivery = jobs[j].delivery
  BY <1>1 DEF Grows, JobsGrow, SameJob
<1>4. ASSUME NEW j \in DOMAIN jobs, jobs[j].type = "retry", jobs[j].delivery = d
      PROVE  Begun(j)' <=> Begun(j)
  BY <1>4, BegunStep DEF Job
<1>5. \A j : j \in Waiting(d) <=>
        j \in DOMAIN jobs /\ jobs[j].type = "retry" /\ jobs[j].delivery = d /\ ~Begun(j)
  BY DEF Waiting, PendingRetries, Begun
<1>6. \A j : j \in Waiting(d)' <=>
        j \in DOMAIN jobs' /\ jobs'[j].type = "retry" /\ jobs'[j].delivery = d /\ ~Begun(j)'
  BY DEF Waiting, PendingRetries, Begun
<1> QED
  BY <1>2, <1>3, <1>4, <1>5, <1>6

(* A delivery that a step does not concern.                                    *)
LEMMA Undisturbed ==
  ASSUME NoCrashes, SchedInv, [Next]_vars, \A p \in Procs : InHand(p), \A p \in Procs : InHand(p)',
         NEW d \in DOMAIN deliveries, Consistent(d),
         deliveries'[d].status = deliveries[d].status,
         \A p \in Procs : procs'[p] = procs[p] \/ (~Active(p, d) /\ ~Active(p, d)'),
         \A n \in DOMAIN attempts' \ DOMAIN attempts : attempts'[n].delivery # d,
         \A j \in DOMAIN jobs' \ DOMAIN jobs :
           ~(jobs'[j].type = "retry" /\ jobs'[j].delivery = d)
  PROVE  Consistent(d)'
<1>1. SchedInv' /\ Grows /\ Shapes /\ Shapes' /\ Workers \subseteq Procs
  BY NextSound DEF SchedInv, Procs
<1>2. ASSUME NEW w \in Workers,
             procs[w].pc = "execute", procs'[w].pc = "await",
             Job(w).type = "retry", Job(w).delivery = d
      PROVE  FALSE
  <2>1. Runs(w)
    BY <1>1, <1>2, Effects, NextOfBatch
       DEF Claims, Finishes, GoesOn, Loses, NoWorkerMoves, IdleProc, NoCrashes, OneWorker
  <2>2. procs'[w].delivery = d
    BY <1>2, <2>1 DEF Runs
  <2>3. Active(w, d)' /\ procs'[w] # procs[w]
    BY <1>2, <2>2 DEF Active
  <2> QED
    BY <1>1, <2>3
<1>3. Waiting(d)' = Waiting(d)
  BY <1>1, <1>2, WaitingStays
<1>4. /\ Count(d)' = Count(d) /\ Verdict(d)' = Verdict(d)
      /\ Numbered(d) => Numbered(d)'
  BY <1>1, NotAttempted
<1>5. \A p \in Procs : (Active(p, d)' <=> Active(p, d)) /\ (Active(p, d) => procs'[p] = procs[p])
  BY DEF Active
<1>6. (\A p \in Procs : ~Active(p, d)') => Resting(d)'
  BY <1>3, <1>4, <1>5 DEF Consistent, Resting
<1>7. \A p \in Procs : Active(p, d)' => Handled(p, d)'
  BY <1>3, <1>4, <1>5 DEF Consistent, Handled
<1> QED
  BY <1>3, <1>4, <1>6, <1>7 DEF Consistent

(* What a request handler does of its attempt.                                 *)
LEMMA HandlerMoves ==
  ASSUME SchedInv, [Next]_vars, NEW r \in Requests
  PROVE  procs'[r] = procs[r] \/ procs'[r].pc # "await" \/ procs'[r].number = 1
<1> DEFINE Fine == procs'[r] = procs[r] \/ procs'[r].pc # "await" \/ procs'[r].number = 1
<1>0. /\ Shapes /\ r \in Procs /\ r \notin Workers /\ Workers \subseteq Procs
      /\ procs \in [Procs -> Proc]
  BY ProcAssumption DEF SchedInv, Procs, Shapes
<1>1. IdleProc.pc # "await"
  BY DEF IdleProc
<1>2. ASSUME NEW w \in Workers, Restart(w) PROVE Fine
  BY <1>0, <1>1, <1>2 DEF Restart
<1>3. ASSUME NEW w \in Workers, WorkerStep(w) PROVE Fine
  <2>1. CASE ThrowIllegal(w)
    BY <1>0, <1>2, <2>1 DEF ThrowIllegal
  <2>2. CASE ~ThrowIllegal(w)
    <3>1. Claims(w) \/ Runs(w) \/ Finishes(w) \/ GoesOn(w)
      BY <1>3, <2>2, ClaimEffect, RunEffect, MarkEffect, GoOnEffect DEF WorkerStep
    <3> QED
      BY <1>0, <3>1 DEF Claims, Runs, Finishes, GoesOn, Keeps, Rest
  <2> QED
    BY <2>1, <2>2
<1>4. ASSUME NEW w \in Workers, Crash(w) PROVE Fine
  BY <1>2, <1>4 DEF Crash
<1>5. ASSUME NEW p \in Procs, DeliveryStep(p) PROVE Fine
  <2>1. CASE p # r
    BY <1>0, <1>5, <2>1
       DEF DeliveryStep, CreateDelivery, Respond, RecordStatus, Reschedule
  <2>2. CASE p = r /\ CreateDelivery(r)
    BY <1>0, <2>2 DEF CreateDelivery, Proc
  <2>3. CASE p = r /\ \E outcome \in Outcomes : Respond(r, outcome)
    BY <1>0, <2>3 DEF Respond, Proc
  <2>4. CASE p = r /\ RecordStatus(r)
    BY <1>0, <1>1, <2>4 DEF RecordStatus, Finished, Proc
  <2>5. CASE p = r /\ Reschedule(r)
    BY <1>0, <1>1, <2>5 DEF Reschedule, Finished
  <2> QED
    BY <1>5, <2>1, <2>2, <2>3, <2>4, <2>5 DEF DeliveryStep
<1>6. ASSUME NEW q \in Requests, NEW p \in Payments, VoidPayment(q, p) PROVE Fine
  <2>1. \/ procs' = procs
        \/ procs' = [procs EXCEPT ![q].pc = "deliver", ![q].event = Len(events')]
    BY <1>6 DEF VoidPayment
  <2> QED
    BY <1>0, <2>1 DEF Proc
<1>7. CASE UNCHANGED procs
  BY <1>7
<1>8. CASE \/ \E p \in Payments, timeline \in Timelines, url \in BOOLEAN : Submit(p, timeline, url)
           \/ \E d \in DOMAIN deliveries, delay \in {0, RetryInterval} : Replay(d, delay)
           \/ \E d \in DOMAIN deliveries : Cancel(d)
           \/ Tick \/ UNCHANGED vars
  BY <1>7, <1>8 DEF Submit, Replay, Cancel, Tick, vars
<1> QED
  BY <1>3, <1>4, <1>5, <1>6, <1>8 DEF Next

LEMMA InHandStep ==
  ASSUME SchedInv, [Next]_vars, \A p \in Procs : InHand(p), NEW p \in Procs
  PROVE  InHand(p)'
<1>1. SchedInv' /\ Grows /\ Shapes' /\ InHand(p)
  BY NextSound DEF SchedInv
<1>2. CASE p \in Requests
  BY <1>1, <1>2, HandlerMoves, ProcAssumption DEF InHand
<1>3. CASE p \in Workers
  <2>1. p \notin Requests
    BY <1>3, ProcAssumption
  <2>2. CASE procs'[p].pc \in {"idle", "execute"}
    BY <2>1, <2>2 DEF InHand
  <2>3. CASE procs'[p].pc \notin {"idle", "execute"}
    <3>1. /\ procs[p].pc # "idle" /\ procs'[p].batch = procs[p].batch
          /\ procs'[p] = procs[p] \/ Runs(p) \/ GoesOn(p)
      <4>1. ~Claims(p) /\ ~Loses(p) /\ ~Finishes(p)
        BY <1>3, <2>3, NextOfBatch DEF Claims, Loses, Finishes, IdleProc
      <4>2. procs'[p] = procs[p] \/ Runs(p) \/ GoesOn(p)
        BY <1>3, <4>1, Effects
           DEF Procs, Rest, Keeps, Claims, Runs, Finishes, GoesOn, Loses, NoWorkerMoves
      <4> QED
        BY <2>3, <4>2 DEF Runs, GoesOn, Keeps
    <3>2. Job(p)'.type = Job(p).type /\ Job(p)'.delivery = Job(p).delivery
      BY <1>1, <1>3, <3>1, CurrentStays
    <3>3. CASE procs'[p] = procs[p]
      BY <1>1, <1>3, <2>1, <3>2, <3>3 DEF InHand
    <3>4. CASE Runs(p)
      BY <1>1, <1>3, <2>1, <3>2, <3>4 DEF InHand, Runs, CallbackTypes
    <3>5. CASE GoesOn(p)
      BY <1>1, <1>3, <2>1, <3>2, <3>5 DEF InHand, GoesOn, CallbackTypes
    <3> QED
      BY <3>1, <3>3, <3>4, <3>5
  <2> QED
    BY <2>2, <2>3
<1> QED
  BY <1>2, <1>3 DEF Procs

SettleStep ==
  /\ NoCrashes /\ SchedInv /\ BatchUndone /\ SettleInv /\ [Next]_vars

LEMMA SettleFacts ==
  ASSUME SettleStep
  PROVE  /\ SchedInv' /\ Grows /\ Shapes /\ Shapes' /\ Workers \subseteq Procs
         /\ \A p \in Procs : InHand(p) /\ InHand(p)'
         /\ \A d \in DOMAIN deliveries : Consistent(d)
         /\ DOMAIN deliveries \subseteq DOMAIN deliveries'
         /\ MaxAttempts \in Nat \ {0}
<1>1. SchedInv' /\ Grows /\ Shapes /\ Shapes'
  BY NextSound DEF SettleStep, SchedInv
<1>2. Lens /\ Lens'
  BY <1>1, LensOf DEF Shapes, Lens
<1>3. DOMAIN deliveries \subseteq DOMAIN deliveries'
  BY <1>1, <1>2 DEF Lens, Grows, DeliveriesGrow
<1>4. \A p \in Procs : InHand(p) /\ InHand(p)'
  BY InHandStep DEF SettleStep, SettleInv
<1> QED
  BY <1>1, <1>3, <1>4, Consts DEF SettleStep, SettleInv, Procs

LEMMA RespondSettles ==
  ASSUME SettleStep, NEW p \in Procs, NEW outcome \in Outcomes, Respond(p, outcome),
         NEW d \in DOMAIN deliveries'
  PROVE  Consistent(d)'
<1> DEFINE e == procs[p].delivery
           decision == Decide(outcome, procs[p].number)
           row == [delivery |-> e, number |-> procs[p].number, decision |-> decision]
<1>1. /\ Shapes /\ Shapes' /\ procs[p] \in Proc /\ ProcSound(p) /\ MaxAttempts \in Nat
      /\ \A q \in Procs : InHand(q) /\ InHand(q)'
  BY SettleFacts DEF Shapes, SettleStep, SchedInv, ProcsSound
<1>2. /\ procs[p].pc = "await" /\ attempts' = Append(attempts, row)
      /\ UNCHANGED <<deliveries, jobs>> /\ d \in DOMAIN deliveries
      /\ procs'[p].pc = "record" /\ procs'[p].decision = decision
      /\ procs'[p].delivery = e /\ procs'[p].batch = procs[p].batch
      /\ \A q \in Procs \ {p} : procs'[q] = procs[q]
  BY <1>1 DEF Respond, Shapes, Proc
<1>3. row \in Attempt /\ row.delivery = e /\ row.decision = decision
      /\ row.number = procs[p].number /\ e \in DOMAIN deliveries
  BY <1>1, <1>2, Decided DEF Proc, Attempt, ProcSound
<1>4. decision # "none" /\ (decision = "retry_scheduled" => procs[p].number < MaxAttempts)
  BY <1>1 DEF Decide, Outcomes, Proc
<1>5. Consistent(d) /\ Consistent(e)
  BY <1>2, <1>3, SettleFacts
<1> HIDE DEF row, decision, e
<1>6. CASE d # e
  <2>1. \A n \in DOMAIN attempts' \ DOMAIN attempts : attempts'[n].delivery # d
    <3>1. /\ Len(attempts) \in Nat /\ DOMAIN attempts = 1 .. Len(attempts)
          /\ DOMAIN attempts' = 1 .. Len(attempts) + 1 /\ attempts'[Len(attempts) + 1] = row
      BY <1>1, <1>2, <1>3, Appended DEF Shapes
    <3>2. \A n \in DOMAIN attempts' \ DOMAIN attempts : n = Len(attempts) + 1
      BY <3>1
    <3> QED
      BY <1>3, <1>6, <3>1, <3>2
  <2>2. \A q \in Procs : procs'[q] = procs[q] \/ (~Active(q, d) /\ ~Active(q, d)')
    BY <1>2, <1>6 DEF Active, e
  <2> QED
    BY <1>1, <1>2, <1>5, <2>1, <2>2, Undisturbed DEF SettleStep
<1>7. CASE d = e
  <2>1. Active(p, d) /\ Handled(p, d)
    BY <1>2, <1>5, <1>7 DEF Active, Consistent, e
  <2>2. \A q \in Procs : Active(q, d)' <=> q = p
    BY <1>2, <1>7, <2>1 DEF Handled, Active, e
  <2>3. Count(d)' = Count(d) + 1 /\ Verdict(d)' = decision
        /\ {attempts[n].number : n \in AttemptsOf(d)}' =
              {attempts[n].number : n \in AttemptsOf(d)} \cup {procs[p].number}
    BY <1>1, <1>2, <1>3, <1>7, AttemptAdded
  <2>4. Count(d) \in Nat /\ procs[p].number = Count(d) + 1 /\ procs[p].number <= MaxAttempts
        /\ Waiting(d) = {}
    BY <1>1, <1>2, <2>1, VerdictType DEF Handled
  <2>5. Numbered(d)'
    <3>1. {attempts[n].number : n \in AttemptsOf(d)} = 1 .. Count(d)
      BY <1>5, <1>7 DEF Consistent, Numbered
    <3>2. 1 .. Count(d) + 1 = (1 .. Count(d)) \cup {Count(d) + 1}
      BY <2>4
    <3> QED
      BY <2>3, <2>4, <3>1, <3>2 DEF Numbered
  <2>6. Waiting(d)' = Waiting(d)
    <3>1. \A w \in Workers : ~(procs[w].pc = "execute" /\ procs'[w].pc = "await")
      BY <1>2, SettleFacts
    <3> QED
      BY <1>1, <1>2, <3>1, SettleFacts, WaitingStays DEF SettleStep
  <2>7. Handled(p, d)'
    BY <1>2, <2>2, <2>3, <2>4, <2>6 DEF Handled
  <2>8. (Verdict(d)' = "retry_scheduled" => Count(d)' < MaxAttempts) /\ Verdict(d)' # "none"
    BY <1>4, <2>3, <2>4
  <2> QED
    BY <2>2, <2>4, <2>5, <2>6, <2>7, <2>8 DEF Consistent
<1> QED
  BY <1>6, <1>7

LEMMA RecordStatusSettles ==
  ASSUME SettleStep, NEW p \in Procs, RecordStatus(p), NEW d \in DOMAIN deliveries'
  PROVE  Consistent(d)'
<1> DEFINE e == procs[p].delivery
           decision == procs[p].decision
<1>1. /\ Shapes /\ Shapes' /\ procs[p] \in Proc /\ ProcSound(p)
      /\ \A q \in Procs : InHand(q) /\ InHand(q)'
  BY SettleFacts DEF Shapes, SettleStep, SchedInv, ProcsSound
<1>2. /\ procs[p].pc = "record" /\ UNCHANGED <<attempts, jobs>>
      /\ \A q \in Procs \ {p} : procs'[q] = procs[q]
      /\ e \in DOMAIN deliveries /\ decision # "none" /\ decision \in Decisions
  BY <1>1 DEF RecordStatus, Shapes, ProcSound, Proc
<1>3. /\ d \in DOMAIN deliveries /\ Consistent(d)
      /\ d # e => deliveries'[d].status = deliveries[d].status
      /\ d = e => deliveries'[d].status = decision
  <2>1. deliveries' = [deliveries EXCEPT ![e].status = decision]
    BY DEF RecordStatus
  <2>2. d \in DOMAIN deliveries
    BY <1>1, <1>2, <2>1, StatusSet
  <2>3. deliveries[d] \in Delivery
    BY <1>1, <2>2 DEF Shapes
  <2>4. d = e => deliveries'[d].status = decision
    BY <2>1, <2>2, <2>3 DEF Delivery
  <2>5. d # e => deliveries'[d].status = deliveries[d].status
    BY <2>1, <2>2
  <2> QED
    BY <2>2, <2>4, <2>5, SettleFacts
<1>4. /\ decision = "retry_scheduled" =>
           /\ procs'[p].pc = "reschedule" /\ procs'[p].delivery = e
           /\ procs'[p].decision = decision
      /\ decision # "retry_scheduled" => procs'[p].pc \in {"mark", "idle"}
  BY <1>1 DEF RecordStatus, Shapes, Finished, IdleProc, Proc
<1> HIDE DEF e, decision
<1>5. CASE d # e
  <2>1. \A q \in Procs : procs'[q] = procs[q] \/ (~Active(q, d) /\ ~Active(q, d)')
    BY <1>2, <1>4, <1>5 DEF Active, e
  <2> QED
    BY <1>1, <1>2, <1>3, <1>5, <2>1, Undisturbed DEF SettleStep
<1>6. CASE d = e
  <2>1. Active(p, d) /\ Handled(p, d)
    BY <1>2, <1>3, <1>6 DEF Active, Consistent, e
  <2>2. Waiting(d)' = Waiting(d) /\ Waiting(d) = {}
    <3>1. \A w \in Workers : ~(procs[w].pc = "execute" /\ procs'[w].pc = "await")
      BY <1>2, SettleFacts
    <3> QED
      BY <1>1, <1>2, <2>1, <3>1, SettleFacts, WaitingStays DEF SettleStep, Handled
  <2>3. /\ Count(d)' = Count(d) /\ Verdict(d)' = Verdict(d) /\ Verdict(d) = decision
        /\ Numbered(d) => Numbered(d)'
    <3>1. Verdict(d) = decision
      BY <1>2, <2>1 DEF Handled, decision
    <3> QED
      BY <1>1, <1>2, <3>1, SettleFacts, NotAttempted
  <2>4. \A q \in Procs : Active(q, d)' => q = p /\ decision = "retry_scheduled"
    BY <1>2, <1>4, <1>6, <2>1 DEF Active, Handled, e
  <2>5. decision = "retry_scheduled" => Active(p, d)' /\ Handled(p, d)'
    BY <1>3, <1>4, <1>6, <2>2, <2>3, <2>4 DEF Active, Handled, e
  <2>6. decision # "retry_scheduled" => Resting(d)'
    BY <1>3, <1>6, <2>2, <2>3 DEF Resting
  <2> QED
    BY <1>2, <1>3, <1>6, <2>2, <2>3, <2>4, <2>5, <2>6 DEF Consistent
<1> QED
  BY <1>5, <1>6

LEMMA RescheduleSettles ==
  ASSUME SettleStep, NEW p \in Procs, Reschedule(p), NEW d \in DOMAIN deliveries'
  PROVE  Consistent(d)'
<1> DEFINE e == procs[p].delivery
           row == RetryJob(e, RetryInterval)
<1> PICK next : next = Len(jobs) + 1
  OBVIOUS
<1>1. /\ Shapes /\ Shapes' /\ procs[p] \in Proc /\ ProcSound(p) /\ Lens /\ SchedInv
      /\ \A q \in Procs : InHand(q) /\ InHand(q)'
  BY SettleFacts, LensOf DEF Shapes, SettleStep, SchedInv, ProcsSound
<1>2. /\ procs[p].pc = "reschedule" /\ UNCHANGED <<deliveries, attempts>>
      /\ \A q \in Procs \ {p} : procs'[q] = procs[q]
      /\ jobs' = Append(jobs, row) /\ e \in DOMAIN deliveries
      /\ d \in DOMAIN deliveries /\ Consistent(d)
  BY <1>1, SettleFacts DEF Reschedule, Shapes, ProcSound
<1>3. procs'[p].pc \in {"mark", "idle"}
  BY <1>1 DEF Reschedule, Shapes, Finished, IdleProc, Proc
<1>4. row \in ScheduledActionRow /\ row.type = "retry" /\ row.delivery = e
      /\ row.status = "scheduled"
  BY <1>1, <1>2, RetryRow, Consts
<1> HIDE DEF row
<1>5. /\ DOMAIN jobs' = DOMAIN jobs \cup {next} /\ next \notin DOMAIN jobs
      /\ jobs'[next] = row
  <2>1. /\ Len(jobs) \in Nat /\ DOMAIN jobs = 1 .. Len(jobs)
        /\ DOMAIN jobs' = 1 .. Len(jobs) + 1 /\ jobs'[next] = row
    BY <1>1, <1>2, <1>4, Appended DEF Shapes
  <2> QED
    BY <2>1
<1> HIDE DEF e
<1>6. CASE d # e
  <2>1. \A q \in Procs : procs'[q] = procs[q] \/ (~Active(q, d) /\ ~Active(q, d)')
    BY <1>2, <1>3, <1>6 DEF Active, e
  <2>2. \A j \in DOMAIN jobs' \ DOMAIN jobs : jobs'[j].delivery # d
    BY <1>4, <1>5, <1>6
  <2> QED
    BY <1>1, <1>2, <2>1, <2>2, Undisturbed DEF SettleStep
<1>7. CASE d = e
  <2>1. Active(p, d) /\ Handled(p, d)
    BY <1>2, <1>7 DEF Active, Consistent, e
  <2>2. \A q \in Procs : ~Active(q, d)'
    BY <1>2, <1>3, <2>1 DEF Active, Handled
  <2>3. /\ Verdict(d) = "retry_scheduled" /\ deliveries[d].status = "retry_scheduled"
        /\ Waiting(d) = {}
    BY <1>2, <2>1 DEF Handled
  <2>4. /\ Count(d)' = Count(d) /\ Verdict(d)' = Verdict(d) /\ Numbered(d)'
    BY <1>1, <1>2, SettleFacts, NotAttempted DEF Consistent
  <2>5. Waiting(d)' = {next}
    <3>1. ~Done(next)' /\ ~Running(next)'
      <4>1. ~Done(next)'
        BY <1>4, <1>5 DEF Done
      <4>2. ASSUME NEW w \in Workers, procs'[w].pc # "idle", next = Current(w)' PROVE FALSE
        <5>1. procs'[w].batch = procs[w].batch /\ procs[w].pc # "idle"
          BY <1>1, <1>2, <4>2, SettleFacts DEF Reschedule, Shapes, Finished, IdleProc, Proc
        <5>2. Current(w) \in DOMAIN jobs
          BY <1>1, <5>1, CurrentJob
        <5> QED
          BY <1>5, <4>2, <5>1, <5>2 DEF Current
      <4> QED
        BY <4>1, <4>2 DEF Running
    <3>2. next \in Waiting(d)'
      BY <1>4, <1>5, <1>7, <3>1 DEF Waiting, PendingRetries
    <3>3. ASSUME NEW j \in Waiting(d)', j # next PROVE FALSE
      <4>1. j \in DOMAIN jobs /\ jobs'[j].type = "retry" /\ jobs'[j].delivery = d /\ ~Begun(j)'
        BY <1>5, <3>3 DEF Waiting, PendingRetries, Begun
      <4>2. jobs[j].type = "retry" /\ jobs[j].delivery = d
        BY <4>1, SettleFacts DEF Grows, JobsGrow, SameJob
      <4>3. \A w \in Workers : ~(procs[w].pc = "execute" /\ procs'[w].pc = "await")
        BY <1>2, <1>3, SettleFacts
      <4>4. Begun(j)' <=> Begun(j)
        BY <1>1, <4>1, <4>2, <4>3, SettleFacts, BegunStep DEF SettleStep
      <4> QED
        BY <2>3, <4>1, <4>2, <4>4 DEF Waiting, PendingRetries, Begun
    <3> QED
      BY <3>2, <3>3
  <2> QED
    BY <1>2, <2>2, <2>3, <2>4, <2>5 DEF Consistent, Resting
<1> QED
  BY <1>6, <1>7

LEMMA RetrySettles ==
  ASSUME SettleStep, NEW w \in Workers, Retry(w), NEW d \in DOMAIN deliveries'
  PROVE  Consistent(d)'
<1> DEFINE e == Job(w).delivery
<1> PICK current : current = Current(w)
  OBVIOUS
<1>1. /\ Shapes /\ Shapes' /\ w \in Procs /\ procs[w] \in Proc /\ SchedInv /\ OneWorker
      /\ \A q \in Procs : InHand(q) /\ InHand(q)'
  BY SettleFacts DEF Shapes, SettleStep, SchedInv, NoCrashes
<1>2. /\ procs[w].pc = "execute" /\ Job(w).type = "retry"
      /\ UNCHANGED <<deliveries, attempts>>
      /\ procs'[w].pc = "await" /\ procs'[w].delivery = e /\ procs'[w].batch = procs[w].batch
      /\ procs'[w].number = Count(e) + 1
      /\ \A q \in Procs \ {w} : procs'[q] = procs[q]
      /\ d \in DOMAIN deliveries /\ Consistent(d)
  BY <1>1, SettleFacts DEF Retry, Executing, Shapes, Proc, NextNumber, Count
<1>3. /\ DOMAIN jobs' = DOMAIN jobs /\ current \in DOMAIN jobs /\ Job(w) = jobs[current]
      /\ current = procs[w].batch[1] /\ 1 \in DOMAIN procs[w].batch
  BY <1>1, <1>2, CurrentJob DEF Retry, CountRun
<1> HIDE DEF e
<1>4. CASE d # e
  <2>1. \A q \in Procs : procs'[q] = procs[q] \/ (~Active(q, d) /\ ~Active(q, d)')
    BY <1>2, <1>4 DEF Active
  <2> QED
    BY <1>1, <1>2, <1>3, <2>1, Undisturbed DEF SettleStep
<1>5. CASE d = e
  <2>1. current \in Waiting(d)
    <3>1. ~Done(current)
      BY <1>3 DEF SettleStep, BatchUndone
    <3>2. ~Running(current)
      BY <1>1, <1>2 DEF Running, OneWorker
    <3> QED
      BY <1>2, <1>3, <1>5, <3>1, <3>2 DEF Waiting, PendingRetries, e
  <2>2. /\ \A q \in Procs : ~Active(q, d)
        /\ Resting(d) /\ Verdict(d) \in {"none", "retry_scheduled"}
    BY <1>2, <2>1 DEF Consistent, Handled, Resting
  <2>3. \A q \in Procs : Active(q, d)' <=> q = w
    BY <1>1, <1>2, <1>5, <2>2 DEF Active
  <2>4. /\ Count(d)' = Count(d) /\ Verdict(d)' = Verdict(d) /\ Numbered(d)'
    BY <1>1, <1>2, SettleFacts, NotAttempted DEF Consistent
  <2>5. Count(d) \in Nat /\ Count(d) + 1 <= MaxAttempts
    BY <1>1, <1>2, <2>2, VerdictType, SettleFacts DEF Consistent
  <2>6. Waiting(d)' = {}
    <3>1. ASSUME NEW j \in Waiting(d)' PROVE FALSE
      <4>1. j \in DOMAIN jobs /\ jobs'[j].type = "retry" /\ jobs'[j].delivery = d /\ ~Begun(j)'
        BY <1>3, <3>1 DEF Waiting, PendingRetries, Begun
      <4>2. jobs[j].type = "retry" /\ jobs[j].delivery = d
        BY <4>1, SettleFacts DEF Grows, JobsGrow, SameJob
      <4>3. j # current
        <5>1. Running(current)'
          BY <1>2 DEF Running, Current
        <5> QED
          BY <4>1, <5>1 DEF Begun
      <4>4. \A v \in Workers :
              ~(procs[v].pc = "execute" /\ procs'[v].pc = "await" /\ j = Current(v))
        BY <1>1, <4>3 DEF OneWorker
      <4>5. Begun(j)' <=> Begun(j)
        BY <1>1, <4>1, <4>2, <4>4, SettleFacts, BegunStep DEF SettleStep
      <4>6. j \in Waiting(d)
        BY <4>1, <4>2, <4>5 DEF Waiting, PendingRetries, Begun
      <4> QED
        BY <1>2, <2>1, <4>3, <4>6 DEF Consistent
    <3> QED
      BY <3>1
  <2>7. Handled(w, d)'
    BY <1>2, <1>5, <2>3, <2>4, <2>5, <2>6 DEF Handled
  <2> QED
    BY <1>1, <1>2, <2>3, <2>4, <2>6, <2>7 DEF Consistent
<1> QED
  BY <1>4, <1>5

(* A delivery that is new has no attempt and no retry, and nobody holds it.    *)
LEMMA FreshDelivery ==
  ASSUME SettleStep, NEW d, d \notin DOMAIN deliveries, UNCHANGED attempts
  PROVE  /\ Count(d)' = 0 /\ Verdict(d)' = "none" /\ Numbered(d)'
         /\ \A j \in DOMAIN jobs : ~(jobs'[j].type = "retry" /\ jobs'[j].delivery = d)
         /\ \A p \in Procs : ~Active(p, d)
<1>1. /\ Shapes /\ Shapes' /\ MaxAttempts \in Nat /\ Grows
      /\ AttemptsRefer /\ JobsSound /\ ProcsSound
  BY SettleFacts DEF SettleStep, SchedInv
<1>2. AttemptsOf(d)' = {}
  BY <1>1 DEF AttemptsRefer, AttemptsOf
<1>3. Count(d)' = 0 /\ Verdict(d)' = "none"
  BY <1>2, FS_EmptySet DEF Count, Verdict
<1>4. Numbered(d)'
  <2>1. {attempts'[n].number : n \in AttemptsOf(d)'} = {} /\ 1 .. 0 = {}
    BY <1>2
  <2>2. {attempts'[n].number : n \in AttemptsOf(d)'} = 1 .. Count(d)'
    BY <1>3, <2>1
  <2>3. Count(d)' <= MaxAttempts
    BY <1>1, <1>3
  <2> QED
    BY <2>2, <2>3 DEF Numbered
<1>5. \A j \in DOMAIN jobs : ~(jobs'[j].type = "retry" /\ jobs'[j].delivery = d)
  BY <1>1 DEF JobsSound, Grows, JobsGrow, SameJob
<1>6. \A p \in Procs : ~Active(p, d)
  BY <1>1 DEF Active, ProcsSound, ProcSound
<1> QED
  BY <1>3, <1>4, <1>5, <1>6

LEMMA CreateDeliverySettles ==
  ASSUME SettleStep, NEW p \in Procs, CreateDelivery(p), NEW d \in DOMAIN deliveries'
  PROVE  Consistent(d)'
<1> DEFINE job == IF p \in Workers THEN Current(p) ELSE 0
           row == NewDelivery(procs[p].event, job, 0)
<1>1. /\ Shapes /\ Shapes' /\ procs[p] \in Proc /\ SchedInv /\ Lens /\ MaxAttempts \in Nat \ {0}
      /\ \A q \in Procs : InHand(q) /\ InHand(q)'
  BY SettleFacts, LensOf DEF Shapes, SettleStep
<1>2. /\ procs[p].pc = "deliver" /\ UNCHANGED attempts /\ deliveries' = Append(deliveries, row)
      /\ procs'[p].pc = "await" /\ procs'[p].number = 1
      /\ procs'[p].delivery = Len(deliveries')
      /\ \A q \in Procs \ {p} : procs'[q] = procs[q]
      /\ DOMAIN jobs' = DOMAIN jobs
  BY <1>1 DEF CreateDelivery, Shapes, Proc
<1>3. row \in Delivery /\ row.status = "scheduled"
  <2>1. procs[p].event \in Nat
    BY <1>1 DEF Proc
  <2>2. job \in Nat
    BY <1>1, <1>2, CurrentJob DEF Lens
  <2> HIDE DEF job
  <2> QED
    BY <2>1, <2>2 DEF NewDelivery, Delivery
<1> HIDE DEF row
<1>4. /\ Len(deliveries) \in Nat /\ DOMAIN deliveries = 1 .. Len(deliveries)
      /\ DOMAIN deliveries' = 1 .. Len(deliveries) + 1 /\ Len(deliveries') = Len(deliveries) + 1
      /\ deliveries'[Len(deliveries) + 1] = row
      /\ \A e \in DOMAIN deliveries : deliveries'[e] = deliveries[e]
  BY <1>1, <1>2, <1>3, Appended DEF Shapes
<1>5. CASE d \in DOMAIN deliveries
  <2>1. d # Len(deliveries')
    BY <1>4, <1>5
  <2>2. \A q \in Procs : procs'[q] = procs[q] \/ (~Active(q, d) /\ ~Active(q, d)')
    BY <1>2, <2>1 DEF Active
  <2>3. Consistent(d)
    BY <1>5, SettleFacts
  <2> QED
    BY <1>1, <1>2, <1>4, <1>5, <2>2, <2>3, Undisturbed DEF SettleStep
<1>6. CASE d \notin DOMAIN deliveries
  <2>1. d = Len(deliveries') /\ deliveries'[d].status = "scheduled"
    BY <1>3, <1>4, <1>6
  <2>2. /\ Count(d)' = 0 /\ Verdict(d)' = "none" /\ Numbered(d)'
        /\ \A j \in DOMAIN jobs : ~(jobs'[j].type = "retry" /\ jobs'[j].delivery = d)
        /\ \A q \in Procs : ~Active(q, d)
    BY <1>2, <1>6, FreshDelivery
  <2>3. Waiting(d)' = {}
    BY <1>2, <2>2 DEF Waiting, PendingRetries
  <2>4. \A q \in Procs : Active(q, d)' <=> q = p
    BY <1>2, <2>1, <2>2 DEF Active
  <2>5. Handled(p, d)'
    BY <1>1, <1>2, <2>2, <2>3, <2>4 DEF Handled
  <2> QED
    BY <2>1, <2>2, <2>3, <2>4, <2>5 DEF Consistent
<1> QED
  BY <1>5, <1>6

LEMMA ReplaySettles ==
  ASSUME SettleStep, NEW c \in DOMAIN deliveries, NEW delay \in {0, RetryInterval},
         Replay(c, delay), NEW d \in DOMAIN deliveries'
  PROVE  Consistent(d)'
<1> DEFINE count == Len(deliveries')
           row == NewDelivery(deliveries[c].event, 0, c)
           retry == RetryJob(c, delay)
           job == [retry EXCEPT !.delivery = count]
<1>1. /\ Shapes /\ Shapes' /\ SchedInv /\ Lens /\ delay \in Nat
      /\ \A q \in Procs : InHand(q) /\ InHand(q)'
  BY SettleFacts, LensOf, Consts DEF SettleStep
<1>2. /\ deliveries' = Append(deliveries, row)
      /\ jobs' = IF delay = 0 THEN jobs ELSE Append(jobs, job)
      /\ UNCHANGED <<attempts, procs>>
  BY DEF Replay
<1>3. row \in Delivery /\ row.status = "scheduled"
  BY <1>1 DEF NewDelivery, Delivery, Lens, SchedInv, DeliveriesRefer
<1> HIDE DEF row
<1>4. /\ Len(deliveries) \in Nat /\ DOMAIN deliveries = 1 .. Len(deliveries)
      /\ DOMAIN deliveries' = 1 .. Len(deliveries) + 1 /\ count = Len(deliveries) + 1
      /\ deliveries'[Len(deliveries) + 1] = row
      /\ \A e \in DOMAIN deliveries : deliveries'[e] = deliveries[e]
  BY <1>1, <1>2, <1>3, Appended DEF Shapes
<1>5. retry \in ScheduledActionRow /\ count \in Nat
  BY <1>1, <1>4, RetryRow
<1> HIDE DEF retry, count
<1>6. job \in ScheduledActionRow /\ job.delivery = count
  BY <1>5 DEF ScheduledActionRow
<1> HIDE DEF job
<1>7. \A j, k \in DOMAIN jobs' \ DOMAIN jobs : j = k /\ jobs'[j].delivery = count
  <2>1. CASE delay = 0
    BY <1>2, <2>1
  <2>2. CASE delay # 0
    <3>1. /\ Len(jobs) \in Nat /\ DOMAIN jobs = 1 .. Len(jobs)
          /\ DOMAIN jobs' = 1 .. Len(jobs) + 1 /\ jobs'[Len(jobs) + 1] = job
      BY <1>1, <1>2, <1>6, <2>2, Appended DEF Shapes
    <3>2. \A j \in DOMAIN jobs' \ DOMAIN jobs : j = Len(jobs) + 1
      BY <3>1
    <3> QED
      BY <1>6, <3>1, <3>2
  <2> QED
    BY <2>1, <2>2
<1>8. CASE d \in DOMAIN deliveries
  <2>1. d # count /\ Consistent(d)
    BY <1>4, <1>8, SettleFacts
  <2>2. \A j \in DOMAIN jobs' \ DOMAIN jobs : jobs'[j].delivery # d
    BY <1>7, <2>1
  <2> QED
    BY <1>1, <1>2, <1>4, <1>8, <2>1, <2>2, Undisturbed DEF SettleStep
<1>9. CASE d \notin DOMAIN deliveries
  <2>1. d = count /\ deliveries'[d].status = "scheduled"
    BY <1>3, <1>4, <1>9
  <2>2. /\ Count(d)' = 0 /\ Verdict(d)' = "none" /\ Numbered(d)'
        /\ \A j \in DOMAIN jobs : ~(jobs'[j].type = "retry" /\ jobs'[j].delivery = d)
        /\ \A q \in Procs : ~Active(q, d)
    BY <1>2, <1>9, FreshDelivery
  <2>3. \A q \in Procs : ~Active(q, d)'
    BY <1>2, <2>2 DEF Active
  <2>4. \A j \in Waiting(d)' : j \in DOMAIN jobs' \ DOMAIN jobs
    BY <2>2 DEF Waiting, PendingRetries
  <2>5. \A j, k \in Waiting(d)' : j = k
    BY <1>7, <2>4
  <2> QED
    BY <2>1, <2>2, <2>3, <2>5, SettleFacts DEF Consistent, Resting
<1> QED
  BY <1>8, <1>9

LEMMA CancelSettles ==
  ASSUME SettleStep, NEW c \in DOMAIN deliveries, Cancel(c), NEW d \in DOMAIN deliveries'
  PROVE  Consistent(d)'
<1>1. /\ Shapes /\ Shapes' /\ SchedInv
      /\ \A q \in Procs : InHand(q) /\ InHand(q)'
  BY SettleFacts DEF SettleStep
<1>2. /\ deliveries' = [deliveries EXCEPT ![c].status = "cancelled"]
      /\ deliveries[c].status = "scheduled" /\ UNCHANGED <<jobs, attempts, procs>>
      /\ \A q \in Procs : procs[q].pc \in {"idle", "await"}
  BY DEF Cancel, Quiet, Yields
<1>3. /\ d \in DOMAIN deliveries /\ deliveries'[c].status = "cancelled" /\ Consistent(d)
      /\ d # c => deliveries'[d] = deliveries[d]
  BY <1>1, <1>2, StatusSet, SettleFacts
<1>4. CASE d # c
  BY <1>1, <1>2, <1>3, <1>4, Undisturbed DEF SettleStep
<1>5. CASE d = c
  <2>1. /\ Count(d)' = Count(d) /\ Verdict(d)' = Verdict(d) /\ Numbered(d)'
    BY <1>1, <1>2, <1>3, SettleFacts, NotAttempted DEF Consistent
  <2>2. Waiting(d)' = Waiting(d)
    BY <1>2 DEF Waiting, PendingRetries, Running, Done, Current
  <2>3. Verdict(d) # "scheduled"
    BY <1>1, VerdictType DEF Decisions
  <2>4. (\A q \in Procs : ~Active(q, d)') => Resting(d)'
    BY <1>2, <1>3, <1>5, <2>1, <2>2, <2>3 DEF Consistent, Resting, Active
  <2>5. \A q \in Procs : Active(q, d)' => Handled(q, d)'
    BY <1>2, <1>3, <1>5, <2>1, <2>2 DEF Consistent, Handled, Active
  <2> QED
    BY <1>3, <1>5, <2>1, <2>2, <2>4, <2>5 DEF Consistent
<1> QED
  BY <1>4, <1>5

(* The process ends on an illegal transition: what waits for a response is lost. *)
LEMMA ThrowSettles ==
  ASSUME SettleStep, NEW w \in Workers, ThrowIllegal(w), NEW d \in DOMAIN deliveries'
  PROVE  Consistent(d)'
<1>1. /\ Shapes /\ Shapes' /\ SchedInv /\ OneWorker /\ w \in Procs
      /\ \A q \in Procs : InHand(q) /\ InHand(q)'
  BY SettleFacts DEF SettleStep, NoCrashes
<1>2. /\ procs[w].pc = "execute" /\ UNCHANGED <<deliveries, attempts>>
      /\ d \in DOMAIN deliveries /\ Consistent(d)
      /\ \A q \in Procs \ {w} : procs[q].pc \in {"idle", "await"}
      /\ DOMAIN jobs' = DOMAIN jobs
  <2>1. \A q \in Procs \ {w} : ~({q, w} \subseteq Workers)
    BY <1>1 DEF OneWorker
  <2>2. \A q \in Procs \ {w} : Yields(q)
    BY <2>1 DEF ThrowIllegal, Executing, CanRun
  <2> QED
    BY <2>2, SettleFacts DEF ThrowIllegal, Executing, Restart, Yields
<1>3. CASE procs' = [procs EXCEPT ![w] = IdleProc]
  <2>1. \A q \in Procs : procs'[q] = procs[q] \/ (~Active(q, d) /\ ~Active(q, d)')
    BY <1>1, <1>2, <1>3 DEF Active, IdleProc, Shapes
  <2> QED
    BY <1>1, <1>2, <2>1, Undisturbed DEF SettleStep
<1>4. CASE Restart(w)
  <2>1. \A q \in Procs : ~Active(q, d)'
    BY <1>1, <1>4 DEF Restart, IdleProc, Active, Procs, OneWorker
  <2>2. /\ Count(d)' = Count(d) /\ Verdict(d)' = Verdict(d) /\ Numbered(d)'
    BY <1>1, <1>2, SettleFacts, NotAttempted DEF Consistent
  <2>3. Waiting(d)' = Waiting(d)
    <3>1. \A v \in Workers : ~(procs[v].pc = "execute" /\ procs'[v].pc = "await")
      BY <1>1, <1>4 DEF Restart, IdleProc, OneWorker
    <3> QED
      BY <1>1, <1>2, <3>1, SettleFacts, WaitingStays DEF SettleStep
  <2>4. Resting(d)
    <3>1. CASE \A q \in Procs : ~Active(q, d)
      BY <1>2, <3>1 DEF Consistent
    <3>2. ASSUME NEW q \in Procs, Active(q, d) PROVE Resting(d)
      <4>1. procs[q].pc = "await" /\ q \in Requests
        BY <1>1, <1>2, <3>2 DEF Active, Procs, OneWorker
      <4>2. Waiting(d) = {} /\ procs[q].number = 1 /\ procs[q].number = Count(d) + 1
        BY <1>1, <1>2, <3>2, <4>1 DEF Consistent, Handled, InHand
      <4>3. Verdict(d) = "none"
        BY <1>1, <4>2, VerdictType
      <4> QED
        BY <4>2, <4>3 DEF Resting
    <3> QED
      BY <3>1, <3>2
  <2> QED
    BY <1>2, <2>1, <2>2, <2>3, <2>4 DEF Consistent, Resting
<1> QED
  BY <1>3, <1>4 DEF ThrowIllegal

(* The steps that no delivery is concerned by.                                 *)
LEMMA OthersSettle ==
  ASSUME SettleStep, UNCHANGED <<deliveries, attempts>>,
         \A p \in Procs : \/ procs'[p] = procs[p]
                          \/ /\ procs[p].pc \in {"idle", "execute", "deliver", "mark"}
                             /\ procs'[p].pc \in {"idle", "execute", "deliver", "mark"},
         \A j \in DOMAIN jobs' \ DOMAIN jobs : jobs'[j].type # "retry",
         NEW d \in DOMAIN deliveries'
  PROVE  Consistent(d)'
<1>1. /\ Shapes /\ Shapes' /\ SchedInv
      /\ \A q \in Procs : InHand(q) /\ InHand(q)'
      /\ d \in DOMAIN deliveries /\ Consistent(d)
  BY SettleFacts DEF SettleStep
<1>2. \A p \in Procs : procs'[p] = procs[p] \/ (~Active(p, d) /\ ~Active(p, d)')
  BY DEF Active
<1> QED
  BY <1>1, <1>2, Undisturbed DEF SettleStep

LEMMA WorkerSettles ==
  ASSUME SettleStep, NEW w \in Workers, WorkerStep(w), NEW d \in DOMAIN deliveries'
  PROVE  Consistent(d)'
<1>1. /\ Shapes /\ SchedInv /\ w \in Procs /\ procs[w] \in Proc
  BY SettleFacts DEF SettleStep, Shapes
<1>2. CASE Claim(w)
  <2>1. Claims(w)
    BY <1>1, <1>2, ClaimEffect
  <2> QED
    BY <1>2, <2>1, OthersSettle DEF Claims, Rest, Claim
<1>3. CASE Transition(w) \/ Snapshot(w)
  <2>1. /\ UNCHANGED <<deliveries, attempts>> /\ DOMAIN jobs' = DOMAIN jobs
        /\ procs[w].pc = "execute" /\ procs'[w].pc = "mark"
        /\ \A q \in Procs \ {w} : procs'[q] = procs[q]
    BY <1>1, <1>3 DEF Transition, Snapshot, Executing, Goto, CountRun, Shapes, Proc
  <2> QED
    BY <2>1, OthersSettle
<1>4. CASE NothingToSend(w) \/ MaterializeEvent(w) \/ RepeatEvent(w)
  <2>1. /\ UNCHANGED <<deliveries, attempts>> /\ DOMAIN jobs' = DOMAIN jobs
        /\ procs[w].pc = "execute" /\ procs'[w].pc \in {"mark", "deliver"}
        /\ \A q \in Procs \ {w} : procs'[q] = procs[q]
    BY <1>1, <1>4
       DEF NothingToSend, MaterializeEvent, RepeatEvent, Executing, Goto, Shapes, Proc, tables
  <2> QED
    BY <2>1, OthersSettle
<1>5. CASE Mark(w)
  <2>1. Finishes(w) /\ procs[w].pc = "mark"
    BY <1>1, <1>5, MarkEffect DEF Finishes
  <2>2. AfterCurrent(w).pc \in {"idle", "execute"}
    <3>1. AfterCurrent(w) = IdleProc \/ AfterCurrent(w).pc = "execute"
      BY <1>1, <2>1, NextOfBatch
    <3> QED
      BY <3>1 DEF IdleProc
  <2> QED
    BY <1>5, <2>1, <2>2, OthersSettle DEF Finishes, Rest, Mark
<1>6. CASE ThrowIllegal(w)
  BY <1>6, ThrowSettles
<1>7. CASE Retry(w)
  BY <1>7, RetrySettles
<1> QED
  BY <1>2, <1>3, <1>4, <1>5, <1>6, <1>7 DEF WorkerStep

LEMMA ConsistentStep ==
  ASSUME SettleStep, NEW d \in DOMAIN deliveries'
  PROVE  Consistent(d)'
<1>1. /\ Shapes /\ SchedInv
  BY SettleFacts DEF SettleStep
<1>2. ASSUME NEW p \in Payments, NEW timeline \in Timelines, NEW url \in BOOLEAN,
             Submit(p, timeline, url)
      PROVE  Consistent(d)'
  <2>1. \A j \in DOMAIN jobs' \ DOMAIN jobs : jobs'[j].type # "retry"
    BY <1>1, <1>2, Submitted DEF RowOfStep
  <2> QED
    BY <1>2, <2>1, OthersSettle DEF Submit
<1>3. ASSUME NEW r \in Requests, NEW p \in Payments, VoidPayment(r, p)
      PROVE  Consistent(d)'
  <2>1. /\ UNCHANGED <<deliveries, attempts, jobs>> /\ r \in Procs /\ procs[r].pc = "idle"
    BY <1>3 DEF VoidPayment, Procs
  <2>2. \/ procs' = procs
        \/ procs' = [procs EXCEPT ![r].pc = "deliver", ![r].event = Len(events')]
    BY <1>3 DEF VoidPayment
  <2>3. \A q \in Procs : procs'[q] = procs[q] \/ (q = r /\ procs'[q].pc = "deliver")
    BY <1>1, <2>1, <2>2 DEF Shapes, Proc
  <2> QED
    BY <2>1, <2>3, OthersSettle
<1>4. CASE Tick
  <2>1. UNCHANGED <<deliveries, attempts, procs>> /\ DOMAIN jobs' = DOMAIN jobs
    BY <1>4 DEF Tick
  <2> QED
    BY <2>1, OthersSettle
<1>5. CASE UNCHANGED vars
  BY <1>5, OthersSettle DEF vars, tables
<1>6. ASSUME NEW w \in Workers, Crash(w) PROVE FALSE
  BY <1>1, <1>6 DEF Crash, SettleStep, NoCrashes, Shapes
<1>7. ASSUME NEW p \in Procs, DeliveryStep(p) PROVE Consistent(d)'
  BY <1>7, CreateDeliverySettles, RecordStatusSettles, RescheduleSettles, RespondSettles
     DEF DeliveryStep
<1> QED
  BY <1>2, <1>3, <1>4, <1>5, <1>6, <1>7, WorkerSettles, ReplaySettles, CancelSettles
     DEF SettleStep, Next

LEMMA SettleInit == Init => SettleInv
<1> SUFFICES ASSUME Init PROVE SettleInv
  OBVIOUS
<1>1. DOMAIN deliveries = {}
  BY DEF Init
<1>2. \A p \in Procs : procs[p].pc = "idle"
  BY DEF Init, IdleProc
<1> QED
  BY <1>1, <1>2 DEF SettleInv, InHand

LEMMA SettledAtRest == SchedInv /\ SettleInv => DeliveriesSettled
<1> SUFFICES ASSUME SchedInv, SettleInv, NEW d \in DOMAIN deliveries
             PROVE  /\ Cardinality(AttemptsOf(d)) <= MaxAttempts
                    /\ {attempts[n].number : n \in AttemptsOf(d)}
                         = 1 .. Cardinality(AttemptsOf(d))
                    /\ Touching(d) = {} /\ AttemptsOf(d) # {} =>
                         deliveries[d].status = LastDecision(d)
                    /\ Touching(d) = {} =>
                         /\ deliveries[d].status = "retry_scheduled" =>
                              Cardinality(PendingRetries(d)) = 1
                         /\ Cardinality(PendingRetries(d)) <= 1
  BY DEF DeliveriesSettled, AttemptsBounded, StatusIsLastDecision, RetryBacked
<1>1. Shapes /\ Consistent(d) /\ \A p \in Procs : InHand(p)
  BY DEF SchedInv, SettleInv
<1>2. /\ Cardinality(AttemptsOf(d)) <= MaxAttempts
      /\ {attempts[n].number : n \in AttemptsOf(d)} = 1 .. Cardinality(AttemptsOf(d))
  BY <1>1 DEF Consistent, Numbered, Count
<1>3. ASSUME Touching(d) = {}
      PROVE  Resting(d) /\ Waiting(d) = PendingRetries(d)
  <2>1. \A p \in Procs : ~Active(p, d)
    BY <1>3 DEF Active, Touching
  <2>2. ASSUME NEW j \in PendingRetries(d), Running(j) PROVE FALSE
    <3>1. PICK w \in Workers :
            procs[w].pc \in {"await", "record", "reschedule", "mark"} /\ j = Current(w)
      BY <2>2 DEF Running
    <3>2. procs[w].delivery = d /\ w \in Procs
      BY <1>1, <2>2, <3>1 DEF PendingRetries, InHand, Job, Procs
    <3> QED
      BY <1>3, <3>1, <3>2 DEF Touching
  <2> QED
    BY <1>1, <2>1, <2>2 DEF Consistent, Waiting
<1>4. ASSUME Touching(d) = {}, AttemptsOf(d) # {}
      PROVE  deliveries[d].status = LastDecision(d)
  BY <1>1, <1>3, <1>4, VerdictType DEF Resting, Decisions
<1>5. ASSUME Touching(d) = {}
      PROVE  /\ deliveries[d].status = "retry_scheduled" => Cardinality(PendingRetries(d)) = 1
             /\ Cardinality(PendingRetries(d)) <= 1
  <2>1. \A j, k \in PendingRetries(d) : j = k
    BY <1>1, <1>3, <1>5 DEF Consistent
  <2>2. CASE PendingRetries(d) = {}
    <3>1. deliveries[d].status # "retry_scheduled"
      BY <1>1, <1>3, <1>5, <2>2, VerdictType DEF Consistent, Resting
    <3>2. Cardinality(PendingRetries(d)) = 0
      BY <2>2, FS_EmptySet
    <3> QED
      BY <3>1, <3>2
  <2>3. CASE PendingRetries(d) # {}
    <3>1. PICK j : PendingRetries(d) = {j}
      BY <2>1, <2>3
    <3>2. Cardinality(PendingRetries(d)) = 1
      BY <3>1, FS_Singleton
    <3> QED
      BY <3>2
  <2> QED
    BY <2>2, <2>3
<1> QED
  BY <1>2, <1>4, <1>5

(* DeliveriesSettled: with one scheduler loop and no crash, whatever the       *)
(* timelines, replays, cancels and operations beside it, the three commits of  *)
(* an attempt agree at rest, and attempts are numbered and bounded.            *)
THEOREM DeliveriesSettle ==
  ASSUME NoCrashes
  PROVE  Spec => []DeliveriesSettled
<1>1. Init => BatchUndone /\ SettleInv
  BY RunsInit, SettleInit
<1>2. SchedInv /\ BatchUndone /\ SettleInv /\ [Next]_vars => BatchUndone' /\ SettleInv'
  <2> SUFFICES ASSUME SchedInv, BatchUndone, SettleInv, [Next]_vars
               PROVE  BatchUndone' /\ SettleInv'
    OBVIOUS
  <2>1. SettleStep
    BY DEF SettleStep
  <2> QED
    BY <2>1, UndoneStep, ConsistentStep, SettleFacts DEF SettleInv, NoCrashes
<1> QED
  BY <1>1, <1>2, SchedInvariance, SettledAtRest, PTL DEF Spec

-----------------------------------------------------------------------------
(* TimelineOrder and TransitionsLegal, with one loop, no crash and lawful      *)
(* timelines.  A transition that throws leaves the rest of its batch leased,   *)
(* and later actions overtake it: the order and the legality of what is played *)
(* hold together or not at all.                                                *)

(* A leased row is in a worker's batch, and batches are in order.              *)
LeasedHeld ==
  \A j \in DOMAIN jobs : jobs[j].status = "leased" => \E w \in Workers : Holds(w, j)
BatchInOrder ==
  \A w \in Workers : \A m, n \in DOMAIN procs[w].batch :
    m < n => ~Before(procs[w].batch[n], procs[w].batch[m])

(* Rows are finished in order.                                                 *)
FinishedInOrder == \A j, k \in TimelineJobs : Precedes(j, k) /\ Done(k) => Done(j)

(* The rows of payment p are those of a timeline, submitted at instant t and   *)
(* inserted after row `base`.                                                  *)
RowsFrom(p, timeline, t, base) ==
  /\ \A j \in TimelineJobs : jobs[j].payment = p => j - base \in DOMAIN timeline
  /\ \A n \in DOMAIN timeline :
       /\ base + n \in TimelineJobs
       /\ jobs[base + n].payment = p /\ jobs[base + n].step = n
       /\ jobs[base + n].type = timeline[n].type /\ jobs[base + n].to = timeline[n].to
       /\ jobs[base + n].due = Min2(t + timeline[n].offset, Horizon)
Authored(p) ==
  \E timeline \in Timelines, t \in 0 .. Horizon, base \in Nat : RowsFrom(p, timeline, t, base)

(* The state of payment p is the one its last transition gave it, unless a     *)
(* void came after.                                                            *)
Played(p) ==
  {j \in DOMAIN jobs : jobs[j].type = "transition" /\ jobs[j].payment = p /\ Begun(j)}
Leaves(l, state) ==
  \/ state = jobs[l].to
  \/ state = "voided" /\ Requests # {} /\ jobs[l].to \in {"authorized", "succeeded"}
Follows(p) ==
  \/ Played(p) = {} /\ txns[p].state = "processing"
  \/ \E l \in Played(p) :
       /\ \A j \in Played(p) : j = l \/ Precedes(j, l)
       /\ Leaves(l, txns[p].state)

PlayInv ==
  /\ LeasedHeld /\ BatchInOrder /\ ClaimedInOrder /\ FinishedInOrder
  /\ \A p \in Payments : txns[p].state # "none" => Authored(p) /\ Follows(p)

PlayState ==
  NoCrashes /\ LawfulTimelines /\ SchedInv /\ BatchUndone /\ SettleInv /\ PlayInv
PlayStep == PlayState /\ [Next]_vars

(* What is before the row a worker is at is finished.                          *)
LEMMA HeadOrder ==
  ASSUME PlayState, NEW w \in Workers, procs[w].pc # "idle",
         Current(w) \in TimelineJobs, NEW j \in TimelineJobs, Precedes(j, Current(w))
  PROVE  Done(j)
<1> DEFINE k == Current(w)
           batch == procs[w].batch
<1>1. /\ SchedInv /\ Shapes /\ OneWorker /\ LeasedHeld /\ BatchInOrder /\ ClaimedInOrder
      /\ j \in DOMAIN jobs
  BY DEF PlayState, PlayInv, NoCrashes, SchedInv, TimelineJobs
<1>2. /\ k = batch[1] /\ k \in DOMAIN jobs /\ jobs[k].status # "scheduled"
      /\ 1 \in DOMAIN batch /\ DOMAIN batch \subseteq Nat \ {0}
  <2>1. batch \in Seq(Nat)
    BY <1>1, CurrentJob
  <2>2. DOMAIN batch \subseteq Nat \ {0}
    BY <2>1
  <2> QED
    BY <1>1, <2>2, CurrentJob
<1>3. jobs[j].status # "scheduled"
  BY <1>1, <1>2 DEF ClaimedInOrder
<1>4. ASSUME jobs[j].status = "leased" PROVE FALSE
  <2>1. PICK n \in DOMAIN batch : batch[n] = j
    BY <1>1, <1>4 DEF LeasedHeld, Holds, Range, OneWorker
  <2>2. CASE n = 1
    <3>1. jobs[k].due \in Nat /\ jobs[k].step \in Nat
      <4>1. jobs[k].due \in 0 .. Horizon /\ jobs[k].step \in Nat
        BY <1>1, <1>2, JobTypes
      <4> QED
        BY <4>1
    <3> QED
      BY <1>2, <2>1, <2>2, <3>1 DEF Precedes
  <2>3. CASE n # 1
    <3>1. ~Before(batch[n], batch[1])
      BY <1>1, <1>2, <2>3 DEF BatchInOrder
    <3> QED
      BY <1>2, <2>1, <3>1 DEF Before, Precedes
  <2> QED
    BY <2>2, <2>3
<1>5. jobs[j].status \in {"scheduled", "leased", "delivered"}
  <2>1. jobs[j] \in ScheduledActionRow
    BY <1>1 DEF Shapes
  <2> QED
    BY <2>1 DEF ScheduledActionRow
<1> QED
  BY <1>3, <1>4, <1>5 DEF Done

(* Two transitions of a payment are played one before the other, as authored.  *)
LEMMA AuthoredOrder ==
  ASSUME LawfulTimelines, Shapes, NEW p, NEW timeline \in Timelines, NEW t \in 0 .. Horizon,
         NEW base \in Nat, RowsFrom(p, timeline, t, base),
         NEW j \in TimelineJobs, NEW k \in TimelineJobs,
         jobs[j].type = "transition", jobs[j].payment = p,
         jobs[k].type = "transition", jobs[k].payment = p
  PROVE  /\ j - base \in TransitionsIn(timeline) /\ jobs[j].to = timeline[j - base].to
         /\ Precedes(j, k) <=> j < k
<1> DEFINE m == j - base
           n == k - base
           a == timeline[m].offset
           b == timeline[n].offset
<1>1. /\ timeline \in Seq(TimelineRow) /\ Lawful(timeline, Requests # {})
      /\ m \in DOMAIN timeline /\ n \in DOMAIN timeline
  BY TimelineAssumption DEF Timeline, LawfulTimelines, RowsFrom
<1>2. /\ m \in Nat /\ n \in Nat /\ j \in Nat /\ k \in Nat /\ j = base + m /\ k = base + n
  <2>1. m \in Nat /\ n \in Nat
    BY <1>1
  <2>2. j \in Nat /\ k \in Nat
    BY LensOf DEF TimelineJobs, Lens
  <2> QED
    BY <2>1, <2>2
<1> HIDE DEF m, n
<1>3. /\ jobs[j].step = m /\ jobs[k].step = n
      /\ jobs[j].due = Min2(t + a, Horizon) /\ jobs[k].due = Min2(t + b, Horizon)
      /\ m \in TransitionsIn(timeline) /\ n \in TransitionsIn(timeline)
      /\ jobs[j].to = timeline[m].to
  BY <1>1, <1>2 DEF RowsFrom, TransitionsIn
<1>4. (m < n => a <= b) /\ (n < m => b <= a)
  BY <1>1, <1>3 DEF Lawful, LawfulNext
<1>5. a \in Nat /\ b \in Nat
  <2>1. timeline[m] \in TimelineRow /\ timeline[n] \in TimelineRow
    BY <1>1
  <2> QED
    BY <2>1 DEF TimelineRow, AuthoredTypes
<1> HIDE DEF a, b
<1>6. t \in Nat /\ Horizon \in Nat
  BY Consts
<1>7. (m < n => jobs[j].due <= jobs[k].due) /\ (n < m => jobs[k].due <= jobs[j].due)
      /\ (m = n => jobs[j].due = jobs[k].due) /\ jobs[j].due \in Nat /\ jobs[k].due \in Nat
  BY <1>2, <1>3, <1>4, <1>5, <1>6 DEF Min2, a, b
<1>8. Precedes(j, k) <=> m < n
  BY <1>2, <1>3, <1>7 DEF Precedes
<1>9. m < n <=> j < k
  BY <1>2
<1> QED
  BY <1>3, <1>8, <1>9 DEF m

(* What a worker finds at its head does not throw.                             *)
LEMMA HeadApplicable ==
  ASSUME PlayState, NEW w \in Workers, procs[w].pc = "execute",
         Job(w).type \in {"transition", "snapshot"}
  PROVE  Applicable(w)
<1> DEFINE k == Current(w)
           p == Job(w).payment
<1>1. /\ SchedInv /\ Shapes /\ OneWorker /\ LawfulTimelines /\ PlayInv
      /\ k \in DOMAIN jobs /\ Job(w) = jobs[k] /\ p \in Payments
      /\ jobs[k].payment = p /\ k \in TimelineJobs
      /\ Authored(p) /\ Follows(p)
  BY CurrentJob DEF PlayState, PlayInv, NoCrashes, SchedInv, TimelineJobs
<1>2. PICK timeline \in Timelines, t \in 0 .. Horizon, base \in Nat :
        RowsFrom(p, timeline, t, base)
  BY <1>1 DEF Authored
<1> DEFINE n == k - base
<1>3. /\ n \in DOMAIN timeline /\ timeline[n].type = Job(w).type /\ timeline[n].to = Job(w).to
      /\ k = base + n /\ Lawful(timeline, Requests # {})
  <2>1. n \in DOMAIN timeline /\ timeline \in Seq(TimelineRow) /\ Lawful(timeline, Requests # {})
    BY <1>1, <1>2, TimelineAssumption DEF Timeline, RowsFrom, LawfulTimelines
  <2>2. k \in Nat /\ base \in Nat
    BY <1>1, LensOf DEF Lens
  <2>3. k = base + n
    BY <2>2
  <2> HIDE DEF n, k
  <2> QED
    BY <1>1, <1>2, <2>1, <2>3 DEF RowsFrom
<1>4. HasProjection(Job(w).to)
  BY <1>3 DEF Lawful
<1>5. ASSUME Job(w).type = "transition"
      PROVE  IsLegalTransition(txns[p].state, Job(w).to)
  <2> DEFINE steps == TransitionsIn(timeline)
  <2>1. \A j \in TimelineJobs :
          jobs[j].type = "transition" /\ jobs[j].payment = p =>
            /\ j - base \in steps /\ jobs[j].to = timeline[j - base].to
            /\ Precedes(j, k) <=> j < k
            /\ Precedes(k, j) <=> k < j
    BY <1>1, <1>2, <1>5, AuthoredOrder
  <2>2. /\ n \in steps /\ n \in Nat /\ k \in Nat
        /\ steps \subseteq DOMAIN timeline /\ DOMAIN timeline \subseteq Nat
    <3>1. timeline \in Seq(TimelineRow) /\ k \in Nat
      BY <1>1, TimelineAssumption, LensOf DEF Lens, Timeline
    <3>2. DOMAIN timeline \subseteq Nat
      BY <3>1
    <3> QED
      BY <1>3, <1>5, <3>1, <3>2 DEF TransitionsIn
  <2>3. ASSUME NEW m \in steps, m < n
        PROVE  base + m \in Played(p) /\ jobs[base + m].to = timeline[m].to
    <3>1. /\ base + m \in TimelineJobs /\ jobs[base + m].payment = p
          /\ jobs[base + m].type = "transition" /\ jobs[base + m].to = timeline[m].to
      BY <1>2, <2>2, <2>3 DEF RowsFrom, TransitionsIn
    <3>2. base + m < k
      BY <1>3, <2>2, <2>3
    <3>3. Precedes(base + m, k)
      BY <2>1, <3>1, <3>2
    <3>4. Done(base + m)
      BY <1>1, <3>1, <3>3, HeadOrder
    <3> QED
      BY <3>1, <3>4 DEF Played, Begun, TimelineJobs
  <2>4. ASSUME NEW l \in Played(p)
        PROVE  l - base \in steps /\ l - base < n /\ l = base + (l - base)
               /\ jobs[l].to = timeline[l - base].to
    <3>1. l \in TimelineJobs /\ jobs[l].type = "transition" /\ jobs[l].payment = p /\ Begun(l)
      BY DEF Played, TimelineJobs
    <3>2. l \in Nat
      BY <1>1, <3>1, LensOf DEF TimelineJobs, Lens
    <3>3. ~Running(l)
      BY <1>1 DEF Running, OneWorker
    <3>4. Done(l) /\ ~Done(k)
      <4>1. ~Done(k)
        BY <1>1, CurrentJob DEF PlayState, BatchUndone
      <4> QED
        BY <3>1, <3>3, <4>1 DEF Begun
    <3>5. ~(k < l) /\ l # k
      BY <1>1, <2>1, <3>1, <3>4 DEF PlayInv, FinishedInOrder
    <3>6. l < k
      BY <2>2, <3>2, <3>5
    <3>7. l - base \in steps /\ jobs[l].to = timeline[l - base].to
      BY <2>1, <3>1
    <3> QED
      BY <1>3, <2>2, <3>2, <3>6, <3>7
  <2>5. CASE Played(p) = {} /\ txns[p].state = "processing"
    <3>1. \A m \in steps : n <= m
      BY <2>2, <2>3, <2>5
    <3> QED
      BY <1>3, <2>2, <2>5, <3>1 DEF Lawful
  <2>6. ASSUME NEW l \in Played(p), \A j \in Played(p) : j = l \/ Precedes(j, l),
               Leaves(l, txns[p].state)
        PROVE  IsLegalTransition(txns[p].state, Job(w).to)
    <3>1. PICK m : m = l - base
      OBVIOUS
    <3>2. m \in steps /\ m < n /\ m \in Nat /\ l = base + m /\ jobs[l].to = timeline[m].to
      BY <2>2, <2>4, <3>1
    <3>3. ASSUME NEW i \in steps PROVE i <= m \/ n <= i
      <4>1. SUFFICES ASSUME i < n, m < i PROVE FALSE
        BY <2>2, <3>2
      <4>2. base + i \in Played(p) /\ base + i \in TimelineJobs
        BY <2>3, <4>1 DEF Played, TimelineJobs
      <4>3. Precedes(base + i, l)
        BY <2>2, <2>6, <3>2, <4>1, <4>2
      <4>4. base + i < l
        BY <1>1, <1>2, <4>2, <4>3, AuthoredOrder DEF Played, TimelineJobs
      <4> QED
        BY <2>2, <3>2, <4>1, <4>4
    <3>4. /\ IsLegalTransition(timeline[m].to, timeline[n].to)
          /\ Requests # {} => timeline[m].to \notin {"authorized", "succeeded"}
      BY <1>3, <2>2, <3>2, <3>3 DEF Lawful, LawfulNext
    <3> QED
      BY <1>3, <2>6, <3>2, <3>4 DEF Leaves
  <2> QED
    BY <1>1, <2>5, <2>6 DEF Follows
<1> QED
  BY <1>4, <1>5 DEF Applicable

LEMMA PlayFacts ==
  ASSUME PlayStep
  PROVE  /\ SchedInv /\ SchedInv' /\ Shapes /\ Shapes' /\ Grows /\ OneWorker /\ PlayInv
         /\ BatchUndone /\ [Next]_vars /\ UNCHANGED crashes /\ (\A w \in Workers : InHand(w))
         /\ NoWorkerMoves \/ \E w \in Workers : Claims(w) \/ Runs(w) \/ Finishes(w) \/ GoesOn(w)
         /\ DOMAIN jobs \subseteq DOMAIN jobs'
         /\ \A j \in DOMAIN jobs : SameJob(jobs[j], jobs'[j]) /\ (Done(j) => Done(j)')
         /\ \A j \in DOMAIN jobs' \ DOMAIN jobs : jobs'[j].status = "scheduled"
<1>1. /\ SchedInv /\ Shapes /\ OneWorker /\ PlayInv /\ BatchUndone /\ [Next]_vars
      /\ \A w \in Workers : InHand(w)
  BY DEF PlayStep, PlayState, NoCrashes, SchedInv, SettleInv, Procs
<1>2. UNCHANGED crashes
  BY <1>1, CrashFree DEF PlayStep, PlayState, NoCrashes
<1>3. SchedInv' /\ Shapes' /\ Grows
  BY <1>1, NextSound DEF SchedInv
<1>4. ASSUME NEW w \in Workers, Loses(w) PROVE FALSE
  <2>1. ~Crash(w)
    BY <1>1 DEF Crash, Shapes, PlayStep, PlayState, NoCrashes
  <2>2. ~ThrowIllegal(w)
    BY HeadApplicable DEF ThrowIllegal, Executing, PlayStep
  <2> QED
    BY <1>4, <2>1, <2>2 DEF Loses
<1>5. NoWorkerMoves \/ \E w \in Workers : Claims(w) \/ Runs(w) \/ Finishes(w) \/ GoesOn(w)
  BY <1>1, <1>4, Effects
<1>6. DOMAIN jobs \subseteq DOMAIN jobs'
  <2>1. Lens /\ Lens'
    BY <1>1, <1>3, LensOf DEF Shapes, Lens
  <2> QED
    BY <1>3, <2>1 DEF Lens, Grows, JobsGrow
<1>7. \A j \in DOMAIN jobs : SameJob(jobs[j], jobs'[j]) /\ (Done(j) => Done(j)')
  BY <1>3 DEF Grows, JobsGrow, SameJob, Done
<1>8. \A j \in DOMAIN jobs' \ DOMAIN jobs : jobs'[j].status = "scheduled"
  BY <1>5 DEF Claims, Runs, Finishes, GoesOn, NoWorkerMoves, JobsStay
<1> QED
  BY <1>1, <1>2, <1>3, <1>5, <1>6, <1>7, <1>8

(* How a step changes the state of a transaction.                              *)
LEMMA StateMoves ==
  ASSUME SchedInv, [Next]_vars, NEW p \in Payments, txns[p].state # "none"
  PROVE  \/ txns'[p].state = txns[p].state
         \/ \E w \in Workers :
              Transition(w) /\ Job(w).payment = p /\ txns'[p].state = Job(w).to
         \/ /\ txns[p].state \in {"authorized", "succeeded"} /\ Requests # {}
            /\ txns'[p].state = "voided"
<1>1. txns \in [Payments -> Txn]
  BY DEF SchedInv, Shapes
<1>2. ASSUME NEW q \in Payments, NEW timeline \in Timelines, NEW url \in BOOLEAN,
             Submit(q, timeline, url)
      PROVE  txns'[p] = txns[p]
  BY <1>1, <1>2 DEF Submit
<1>3. ASSUME NEW w \in Workers, Transition(w)
      PROVE  txns'[p].state = IF Job(w).payment = p THEN Job(w).to ELSE txns[p].state
  <2> DEFINE q == Job(w).payment
             to == Job(w).to
  <2>1. txns' = [txns EXCEPT ![q].state = to]
    BY <1>3 DEF Transition
  <2> HIDE DEF q, to
  <2>2. txns'[p].state = IF q = p THEN to ELSE txns[p].state
    BY <1>1, <2>1 DEF Txn
  <2> QED
    BY <2>2 DEF q, to
<1>4. ASSUME NEW r \in Requests, NEW q \in Payments, VoidPayment(r, q)
      PROVE  \/ txns'[p].state = txns[p].state
             \/ txns[p].state \in {"authorized", "succeeded"} /\ txns'[p].state = "voided"
  BY <1>1, <1>4 DEF VoidPayment, Txn
<1>5. ASSUME NEW w \in Workers, WorkerStep(w) \/ Crash(w), ~Transition(w)
      PROVE  UNCHANGED txns
  BY <1>5
     DEF WorkerStep, Claim, ThrowIllegal, Snapshot, NothingToSend, MaterializeEvent, RepeatEvent,
         Retry, Mark, Crash, tables
<1>6. ASSUME NEW q \in Procs, DeliveryStep(q) PROVE UNCHANGED txns
  BY <1>6 DEF DeliveryStep, CreateDelivery, RecordStatus, Reschedule, Respond
<1>7. CASE \/ \E d \in DOMAIN deliveries, delay \in {0, RetryInterval} : Replay(d, delay)
           \/ \E d \in DOMAIN deliveries : Cancel(d)
           \/ Tick \/ UNCHANGED vars
  BY <1>7 DEF Replay, Cancel, Tick, vars, tables
<1> QED
  BY <1>2, <1>3, <1>4, <1>5, <1>6, <1>7 DEF Next

(* The rows behind the head of a batch are what is left of it.                 *)
LEMMA BatchLeft ==
  ASSUME SchedInv, NEW w \in Workers, procs[w].pc # "idle"
  PROVE  /\ \A m \in DOMAIN procs[w].batch :
              m # 1 => /\ m - 1 \in DOMAIN AfterCurrent(w).batch
                       /\ AfterCurrent(w).batch[m - 1] = procs[w].batch[m]
         /\ \A n \in DOMAIN AfterCurrent(w).batch :
              /\ n \in Nat \ {0} /\ n + 1 \in DOMAIN procs[w].batch
              /\ AfterCurrent(w).batch[n] = procs[w].batch[n + 1]
<1> DEFINE batch == procs[w].batch
           rest == Tail(batch)
<1>1. batch \in Seq(Nat) /\ batch # << >>
  BY CurrentJob
<1>2. AfterCurrent(w).batch = IF Len(batch) = 1 THEN << >> ELSE rest
  BY DEF AfterCurrent, IdleProc
<1> HIDE DEF batch
<1>3. /\ rest \in Seq(Nat) /\ Len(rest) = Len(batch) - 1
      /\ \A n \in 1 .. Len(rest) : rest[n] = batch[n + 1]
  BY <1>1, HeadTailProperties
<1> HIDE DEF rest
<1>4. /\ Len(batch) \in Nat /\ DOMAIN batch = 1 .. Len(batch)
      /\ Len(rest) \in Nat /\ DOMAIN rest = 1 .. Len(rest)
  BY <1>1, <1>3
<1>5. CASE Len(batch) = 1
  <2>1. AfterCurrent(w).batch = << >> /\ DOMAIN << >> = {}
    BY <1>2, <1>5
  <2> QED
    BY <1>4, <1>5, <2>1 DEF batch
<1>6. CASE Len(batch) # 1
  <2>1. AfterCurrent(w).batch = rest
    BY <1>2, <1>6
  <2>2. \A m \in DOMAIN batch : m # 1 => m - 1 \in DOMAIN rest /\ rest[m - 1] = batch[m]
    BY <1>3, <1>4
  <2>3. \A n \in DOMAIN rest : n \in Nat \ {0} /\ n + 1 \in DOMAIN batch /\ rest[n] = batch[n + 1]
    BY <1>3, <1>4
  <2> QED
    BY <2>1, <2>2, <2>3 DEF batch
<1> QED
  BY <1>5, <1>6

LEMMA LeasedHeldStep ==
  ASSUME PlayStep
  PROVE  LeasedHeld'
<1> SUFFICES ASSUME NEW j \in DOMAIN jobs', jobs'[j].status = "leased"
             PROVE  \E w \in Workers : Holds(w, j)'
  BY DEF LeasedHeld
<1>1. /\ SchedInv /\ OneWorker /\ LeasedHeld /\ Workers \subseteq Procs /\ j \in DOMAIN jobs
  BY PlayFacts DEF PlayInv, Procs
<1>2. ASSUME jobs[j].status = "leased" PROVE \E w \in Workers : Holds(w, j)
  BY <1>1, <1>2 DEF LeasedHeld
<1>3. ASSUME NEW w \in Workers, Claims(w) PROVE \E v \in Workers : Holds(v, j)'
  <2>1. procs[w].batch = << >>
    BY <1>1, <1>3 DEF Claims, SchedInv, ProcsSound, ProcSound
  <2>2. jobs[j].status # "leased"
    <3>1. ~Holds(w, j)
      BY <2>1 DEF Holds, Range
    <3> QED
      BY <1>1, <1>2, <3>1 DEF OneWorker
  <2>3. j \in Range(procs'[w].batch)
    BY <1>1, <1>3, <2>2 DEF Claims
  <2> QED
    BY <2>3 DEF Holds
<1>4. ASSUME NEW w \in Workers, Runs(w) \/ GoesOn(w) PROVE \E v \in Workers : Holds(v, j)'
  <2>1. jobs[j].status = "leased" /\ procs'[w].batch = procs[w].batch
    BY <1>1, <1>4 DEF Runs, GoesOn, Keeps, JobsStay
  <2> QED
    BY <1>1, <1>2, <2>1 DEF Holds, OneWorker
<1>5. ASSUME NEW w \in Workers, Finishes(w) PROVE \E v \in Workers : Holds(v, j)'
  <2>1. j # Current(w) /\ jobs[j].status = "leased" /\ procs[w].pc # "idle"
    BY <1>1, <1>5 DEF Finishes
  <2>2. PICK m \in DOMAIN procs[w].batch : procs[w].batch[m] = j
    BY <1>1, <1>2, <2>1 DEF Holds, Range, OneWorker
  <2>3. m # 1
    BY <1>1, <2>1, <2>2, CurrentJob
  <2>4. m - 1 \in DOMAIN procs'[w].batch /\ procs'[w].batch[m - 1] = j
    BY <1>1, <1>5, <2>1, <2>2, <2>3, BatchLeft DEF Finishes
  <2> QED
    BY <2>4 DEF Holds, Range
<1>6. CASE NoWorkerMoves
  BY <1>1, <1>2, <1>6 DEF NoWorkerMoves, JobsStay, Holds
<1> QED
  BY <1>3, <1>4, <1>5, <1>6, PlayFacts

LEMMA BatchInOrderStep ==
  ASSUME PlayStep
  PROVE  BatchInOrder'
<1> SUFFICES ASSUME NEW w \in Workers, NEW m \in DOMAIN procs'[w].batch,
                    NEW n \in DOMAIN procs'[w].batch, m < n,
                    NEW j, NEW k, j = procs'[w].batch[m], k = procs'[w].batch[n]
             PROVE  ~Before(k, j)'
  BY DEF BatchInOrder, Before
<1>1. SchedInv /\ SchedInv' /\ OneWorker /\ BatchInOrder /\ Workers \subseteq Procs
  BY PlayFacts DEF PlayInv, Procs
<1>2. ASSUME j \in DOMAIN jobs, k \in DOMAIN jobs, ~Before(k, j) PROVE ~Before(k, j)'
  BY <1>2, PlayFacts DEF Before, SameJob
<1>3. \A i \in DOMAIN procs[w].batch : procs[w].batch[i] \in DOMAIN jobs
  BY <1>1 DEF SchedInv, ProcsSound, ProcSound
<1>4. CASE Claims(w)
  <2>1. j \in DOMAIN jobs /\ k \in DOMAIN jobs
    BY <1>4 DEF Claims, DueJobs
  <2>2. ~Before(k, j)
    <3>1. \A x, y \in DOMAIN procs'[w].batch :
            x < y => ~Before(procs'[w].batch[y], procs'[w].batch[x])
      BY <1>4 DEF Claims
    <3> QED
      BY <3>1
  <2> QED
    BY <1>2, <2>1, <2>2
<1>5. CASE procs'[w].batch = procs[w].batch
  <2>1. /\ m \in DOMAIN procs[w].batch /\ n \in DOMAIN procs[w].batch
        /\ j = procs[w].batch[m] /\ k = procs[w].batch[n]
    BY <1>5
  <2>2. ~Before(k, j)
    BY <1>1, <2>1 DEF BatchInOrder
  <2> QED
    BY <1>2, <1>3, <2>1, <2>2
<1>6. CASE Finishes(w)
  <2>1. /\ m \in Nat /\ n \in Nat
        /\ m + 1 \in DOMAIN procs[w].batch /\ j = procs[w].batch[m + 1]
        /\ n + 1 \in DOMAIN procs[w].batch /\ k = procs[w].batch[n + 1]
    BY <1>1, <1>6, BatchLeft DEF Finishes
  <2>2. m + 1 < n + 1
    BY <2>1
  <2>3. ~Before(k, j)
    BY <1>1, <2>1, <2>2 DEF BatchInOrder
  <2> QED
    BY <1>2, <1>3, <2>1, <2>3
<1>7. CASE Runs(w) \/ GoesOn(w) \/ NoWorkerMoves
  BY <1>5, <1>7 DEF Runs, GoesOn, Keeps, NoWorkerMoves
<1> QED
  BY <1>1, <1>4, <1>6, <1>7, PlayFacts DEF OneWorker

LEMMA FinishedInOrderStep ==
  ASSUME PlayStep
  PROVE  FinishedInOrder'
<1> SUFFICES ASSUME NEW j \in TimelineJobs', NEW k \in TimelineJobs', Precedes(j, k)', Done(k)'
             PROVE  Done(j)'
  BY DEF FinishedInOrder
<1>1. k \in DOMAIN jobs
  BY PlayFacts DEF TimelineJobs, Done
<1>2. j \in TimelineJobs /\ k \in TimelineJobs /\ Precedes(j, k) /\ j \in DOMAIN jobs
  BY <1>1, OldRows, PlayFacts DEF TimelineJobs
<1>3. Done(j)
  <2>1. CASE Done(k)
    BY <1>2, <2>1, PlayFacts DEF PlayInv, FinishedInOrder
  <2>2. CASE ~Done(k)
    <3>1. PICK w \in Workers : Finishes(w) /\ k = Current(w)
      BY <1>1, <2>2, PlayFacts
         DEF Done, Claims, Runs, Finishes, GoesOn, NoWorkerMoves, JobsStay
    <3> QED
      BY <1>2, <3>1, HeadOrder DEF Finishes, PlayStep
  <2> QED
    BY <2>1, <2>2
<1> QED
  BY <1>2, <1>3, PlayFacts

LEMMA NoneStays ==
  ASSUME SchedInv, [Next]_vars, ~Submits, NEW p \in Payments, txns[p].state = "none"
  PROVE  txns'[p].state = "none"
<1>1. txns \in [Payments -> Txn]
  BY DEF SchedInv, Shapes
<1>2. ASSUME NEW w \in Workers, Transition(w) PROVE txns'[p] = txns[p]
  <2> DEFINE q == Job(w).payment
             to == Job(w).to
  <2>1. txns' = [txns EXCEPT ![q].state = to] /\ q # p
    BY <1>2, CurrentJob DEF Transition, Executing
  <2> HIDE DEF q, to
  <2> QED
    BY <1>1, <2>1
<1>3. ASSUME NEW r \in Requests, NEW q \in Payments, VoidPayment(r, q) PROVE txns'[p] = txns[p]
  BY <1>1, <1>3 DEF VoidPayment
<1>4. ASSUME NEW w \in Workers, WorkerStep(w) \/ Crash(w), ~Transition(w)
      PROVE  UNCHANGED txns
  BY <1>4
     DEF WorkerStep, Claim, ThrowIllegal, Snapshot, NothingToSend, MaterializeEvent, RepeatEvent,
         Retry, Mark, Crash, tables
<1>5. ASSUME NEW q \in Procs, DeliveryStep(q) PROVE UNCHANGED txns
  BY <1>5 DEF DeliveryStep, CreateDelivery, RecordStatus, Reschedule, Respond
<1> QED
  BY <1>2, <1>3, <1>4, <1>5 DEF Next, Submits, Replay, Cancel, Tick, vars, tables

(* A worker is at a row that is there and was claimed.                         *)
LEMMA HeldNow ==
  ASSUME SchedInv', NEW w \in Workers, procs'[w].pc # "idle", NEW j, j = Current(w)'
  PROVE  jobs'[j].status # "scheduled"
<1>1. procs'[w].batch \in Seq(Nat) /\ procs'[w].batch # << >>
  BY DEF SchedInv, Shapes, Proc, ProcsSound, ProcSound, Procs
<1>2. j = procs'[w].batch[1] /\ 1 \in DOMAIN procs'[w].batch
  BY <1>1 DEF Current
<1> QED
  BY <1>2 DEF SchedInv, ProcsSound, ProcSound, Procs

(* A payment's rows are those of its timeline, from its submission on.         *)
LEMMA AuthoredStep ==
  ASSUME PlayStep, NEW p \in Payments, txns'[p].state # "none"
  PROVE  Authored(p)'
<1>1. /\ SchedInv /\ Shapes /\ Lens /\ [Next]_vars
      /\ now \in 0 .. Horizon /\ Len(jobs) \in Nat /\ DOMAIN jobs = 1 .. Len(jobs)
  BY PlayFacts, LensOf DEF Shapes, Lens
<1>2. CASE txns[p].state = "none"
  <2>1. PICK q \in Payments, timeline \in Timelines, url \in BOOLEAN : Submit(q, timeline, url)
    <3>1. Submits
      <4>1. SUFFICES ASSUME ~Submits PROVE FALSE
        OBVIOUS
      <4>2. txns'[p].state = "none"
        BY <1>1, <1>2, <4>1, NoneStays
      <4> QED
        BY <4>2
    <3> QED
      BY <3>1 DEF Submits
  <2>2. q = p /\ \A j \in DOMAIN jobs : jobs[j].payment # p
    BY <1>1, <1>2, <2>1 DEF Submit, SchedInv, JobsSound, Shapes
  <2>0. PICK base \in Nat, t \in 0 .. Horizon : base = Len(jobs) /\ t = now
    BY <1>1
  <2>3. /\ \A j \in DOMAIN jobs : jobs'[j] = jobs[j]
        /\ DOMAIN jobs' = 1 .. base + Len(timeline) /\ Len(timeline) \in Nat
        /\ DOMAIN timeline = 1 .. Len(timeline)
        /\ \A j \in DOMAIN jobs' \ DOMAIN jobs :
             /\ j - base \in DOMAIN timeline
             /\ RowOfStep(jobs'[j], p, timeline, j - base)
    BY <1>1, <2>0, <2>1, <2>2, Submitted
  <2>4. ASSUME NEW j \in TimelineJobs', jobs'[j].payment = p PROVE j - base \in DOMAIN timeline
    BY <2>2, <2>3, <2>4 DEF TimelineJobs
  <2>5. ASSUME NEW n \in DOMAIN timeline
        PROVE  /\ base + n \in TimelineJobs'
               /\ jobs'[base + n].payment = p /\ jobs'[base + n].step = n
               /\ jobs'[base + n].type = timeline[n].type /\ jobs'[base + n].to = timeline[n].to
               /\ jobs'[base + n].due = Min2(t + timeline[n].offset, Horizon)
    <3>1. PICK j : j = base + n
      OBVIOUS
    <3>2. j \in DOMAIN jobs' \ DOMAIN jobs /\ j - base = n
      BY <1>1, <2>0, <2>3, <3>1
    <3>3. RowOfStep(jobs'[j], p, timeline, n)
      BY <2>3, <3>2
    <3> QED
      BY <2>0, <3>1, <3>2, <3>3 DEF RowOfStep, TimelineJobs, At
  <2>6. RowsFrom(p, timeline, t, base)'
    BY <2>4, <2>5 DEF RowsFrom
  <2> QED
    BY <2>6 DEF Authored
<1>3. CASE txns[p].state # "none"
  <2>1. PICK timeline \in Timelines, t \in 0 .. Horizon, base \in Nat :
          RowsFrom(p, timeline, t, base)
    BY <1>3, PlayFacts DEF PlayInv, Authored
  <2>2. ASSUME NEW j \in TimelineJobs', jobs'[j].payment = p PROVE j - base \in DOMAIN timeline
    <3>1. j \in DOMAIN jobs
      <4>1. SUFFICES ASSUME j \notin DOMAIN jobs PROVE FALSE
        OBVIOUS
      <4>2. PICK q \in Payments, line \in Timelines, url \in BOOLEAN : Submit(q, line, url)
        BY <1>1, <4>1, AddedRows DEF Submits, TimelineJobs
      <4>3. jobs'[j].payment = q
        BY <1>1, <4>1, <4>2, Submitted DEF RowOfStep, TimelineJobs
      <4> QED
        BY <1>3, <2>2, <4>2, <4>3 DEF Submit
    <3> QED
      BY <2>1, <2>2, <3>1, PlayFacts DEF RowsFrom, TimelineJobs, SameJob
  <2>3. ASSUME NEW n \in DOMAIN timeline
        PROVE  /\ base + n \in TimelineJobs'
               /\ jobs'[base + n].payment = p /\ jobs'[base + n].step = n
               /\ jobs'[base + n].type = timeline[n].type /\ jobs'[base + n].to = timeline[n].to
               /\ jobs'[base + n].due = Min2(t + timeline[n].offset, Horizon)
    BY <2>1, PlayFacts DEF RowsFrom, TimelineJobs, SameJob
  <2>4. RowsFrom(p, timeline, t, base)'
    BY <2>2, <2>3 DEF RowsFrom
  <2> QED
    BY <2>4 DEF Authored
<1> QED
  BY <1>2, <1>3

(* A transition is begun by the step that performs it and by nothing else.     *)
LEMMA TransitionBegins ==
  ASSUME PlayStep, NEW j \in DOMAIN jobs, jobs[j].type = "transition",
         \A w \in Workers : Transition(w) => j # Current(w)
  PROVE  Begun(j)' <=> Begun(j)
<1>1. /\ OneWorker /\ SchedInv /\ [Next]_vars /\ UNCHANGED crashes
      /\ \A w \in Workers : InHand(w)
  BY PlayFacts
<1>2. \A w \in Workers : Runs(w) => j # Current(w)
  BY <1>1 DEF Runs, InHand, Job, CallbackTypes
<1>3. \A w \in Workers :
        GoesOn(w) /\ procs[w].pc = "execute" /\ procs'[w].pc = "mark" => j # Current(w)
  BY DEF GoesOn, Job
<1> QED
  BY <1>1, <1>2, <1>3, BegunStays

LEMMA FreshPlayed ==
  ASSUME PlayStep, NEW p \in Payments
  PROVE  /\ Played(p)' \subseteq DOMAIN jobs
         /\ \A j \in DOMAIN jobs :
              jobs'[j].payment = jobs[j].payment /\ jobs'[j].type = jobs[j].type
<1>1. \A j \in DOMAIN jobs' \ DOMAIN jobs : ~Begun(j)'
  <2>1. ASSUME NEW j \in DOMAIN jobs' \ DOMAIN jobs PROVE ~Done(j)'
    BY PlayFacts DEF Done
  <2>2. ASSUME NEW j \in DOMAIN jobs' \ DOMAIN jobs, Running(j)' PROVE FALSE
    <3>1. PICK w \in Workers :
            procs'[w].pc \in {"await", "record", "reschedule", "mark"} /\ j = Current(w)'
      BY <2>2 DEF Running
    <3>2. jobs'[j].status # "scheduled"
      BY <3>1, HeldNow, PlayFacts
    <3> QED
      BY <3>2, PlayFacts
  <2> QED
    BY <2>1, <2>2 DEF Begun
<1> QED
  BY <1>1, PlayFacts DEF Played, SameJob

(* The state follows the last transition played.                               *)
LEMMA FollowsStep ==
  ASSUME PlayStep, NEW p \in Payments, txns'[p].state # "none"
  PROVE  Follows(p)'
<1>1. /\ SchedInv /\ Shapes /\ OneWorker /\ [Next]_vars /\ BatchUndone /\ PlayInv
  BY PlayFacts
<1>2. /\ \A j : j \in Played(p)' => j \in DOMAIN jobs
      /\ \A j \in DOMAIN jobs :
           /\ jobs'[j].payment = jobs[j].payment /\ jobs'[j].type = jobs[j].type
           /\ jobs'[j].to = jobs[j].to
           /\ \A k \in DOMAIN jobs : Precedes(j, k)' <=> Precedes(j, k)
  BY FreshPlayed, PlayFacts DEF SameJob, Precedes
<1>3. CASE txns[p].state = "none"
  <2>1. PICK q \in Payments, timeline \in Timelines, url \in BOOLEAN : Submit(q, timeline, url)
    <3>1. Submits
      BY <1>1, <1>3, NoneStays
    <3> QED
      BY <3>1 DEF Submits
  <2>2. txns'[p].state = "processing" /\ \A j \in DOMAIN jobs : jobs[j].payment # p
    BY <1>1, <1>3, <2>1 DEF Submit, SchedInv, JobsSound, Shapes, Txn
  <2>3. Played(p)' = {}
    BY <1>2, <2>2 DEF Played
  <2> QED
    BY <2>2, <2>3 DEF Follows
<1>4. CASE txns[p].state # "none"
  <2>1. Follows(p) /\ Authored(p)
    BY <1>1, <1>4 DEF PlayInv
  <2>2. ASSUME NEW w \in Workers, Transition(w), Job(w).payment = p
        PROVE  Follows(p)'
    <3>1. PICK k : k = Current(w)
      OBVIOUS
    <3>2. /\ procs[w].pc = "execute" /\ k \in DOMAIN jobs /\ jobs[k].payment = p /\ Job(w) = jobs[k]
          /\ jobs[k].type = "transition" /\ ~Done(k)
          /\ \A j \in DOMAIN jobs : ~Running(j)
      BY <1>1, <2>2, <3>1, CurrentJob DEF Transition, Executing, BatchUndone, Running, OneWorker
    <3>3. Begun(k)' /\ txns'[p].state = jobs[k].to
      <4>1. Runs(w) /\ procs[w].pc = "execute"
        BY <1>1, <2>2, <3>2, RunEffect
      <4>2. procs'[w].pc \in {"mark", "await"} /\ Current(w)' = k
        BY <3>1, <4>1 DEF Runs, Keeps, Current
      <4>3. txns'[p].state = jobs[k].to
        <5> DEFINE to == Job(w).to
        <5>1. txns' = [txns EXCEPT ![p].state = to]
          BY <2>2 DEF Transition
        <5>2. txns[p] \in Txn /\ txns \in [Payments -> Txn]
          BY <1>1 DEF Shapes
        <5> HIDE DEF to
        <5>3. txns'[p].state = to
          BY <5>1, <5>2 DEF Txn
        <5> QED
          BY <3>2, <5>3 DEF to
      <4> QED
        BY <4>2, <4>3 DEF Begun, Running
    <3>4. k \in Played(p)'
      BY <1>2, <3>2, <3>3, PlayFacts DEF Played
    <3>5. ASSUME NEW j \in Played(p)', j # k PROVE Precedes(j, k)'
      <4>1. /\ j \in DOMAIN jobs /\ jobs[j].type = "transition" /\ jobs[j].payment = p
            /\ Begun(j)'
        BY <1>2 DEF Played
      <4>2. Done(j)
        <5>1. \A v \in Workers : Transition(v) => j # Current(v)
          BY <1>1, <3>1, <3>5 DEF OneWorker
        <5> QED
          BY <3>2, <4>1, <5>1, TransitionBegins DEF Begun
      <4>3. ~Precedes(k, j)
        BY <1>1, <3>2, <4>1, <4>2 DEF PlayInv, FinishedInOrder, TimelineJobs
      <4>4. Precedes(j, k)
        <5>1. PICK timeline \in Timelines, t \in 0 .. Horizon, base \in Nat :
                RowsFrom(p, timeline, t, base)
          BY <2>1 DEF Authored
        <5>2. LawfulTimelines /\ j \in TimelineJobs /\ k \in TimelineJobs /\ j \in Nat /\ k \in Nat
          BY <1>1, <3>2, <4>1, LensOf DEF TimelineJobs, PlayStep, PlayState, Lens
        <5>3. (Precedes(j, k) <=> j < k) /\ (Precedes(k, j) <=> k < j)
          BY <1>1, <3>2, <4>1, <5>1, <5>2, AuthoredOrder
        <5> QED
          BY <3>5, <4>3, <5>2, <5>3
      <4> QED
        BY <1>2, <3>2, <4>1, <4>4
    <3>6. Leaves(k, txns[p].state)'
      BY <1>2, <3>2, <3>3 DEF Leaves
    <3> QED
      BY <3>4, <3>5, <3>6 DEF Follows
  <2>3. ASSUME \A w \in Workers : ~(Transition(w) /\ Job(w).payment = p)
        PROVE  Follows(p)'
    <3>1. \A j : j \in Played(p)' <=> j \in Played(p)
      <4>1. ASSUME NEW j \in DOMAIN jobs, jobs[j].type = "transition", jobs[j].payment = p
            PROVE  Begun(j)' <=> Begun(j)
        BY <2>3, <4>1, TransitionBegins DEF Job
      <4> QED
        BY <1>2, <4>1, PlayFacts DEF Played
    <3>2. \/ txns'[p].state = txns[p].state
          \/ /\ txns[p].state \in {"authorized", "succeeded"} /\ Requests # {}
             /\ txns'[p].state = "voided"
      BY <1>1, <1>4, <2>3, StateMoves
    <3>3. CASE Played(p) = {} /\ txns[p].state = "processing"
      BY <3>1, <3>2, <3>3 DEF Follows
    <3>4. ASSUME NEW l \in Played(p), \A j \in Played(p) : j = l \/ Precedes(j, l),
                 Leaves(l, txns[p].state)
          PROVE  Follows(p)'
      <4>1. l \in Played(p)' /\ l \in DOMAIN jobs
        BY <3>1 DEF Played
      <4>2. \A j \in Played(p)' : j = l \/ Precedes(j, l)'
        BY <1>2, <3>1, <3>4, <4>1
      <4>3. Leaves(l, txns[p].state)'
        BY <1>2, <3>2, <3>4, <4>1 DEF Leaves
      <4> QED
        BY <4>1, <4>2, <4>3 DEF Follows
    <3> QED
      BY <2>1, <3>3, <3>4 DEF Follows
  <2> QED
    BY <2>2, <2>3
<1> QED
  BY <1>3, <1>4

LEMMA PlayInit == Init => PlayInv
<1> SUFFICES ASSUME Init PROVE PlayInv
  OBVIOUS
<1>1. DOMAIN jobs = {} /\ \A p \in Payments : txns[p].state = "none"
  BY DEF Init
<1>2. \A w \in Workers : procs[w].batch = << >>
  BY DEF Init, IdleProc, Procs
<1> QED
  BY <1>1, <1>2
     DEF PlayInv, LeasedHeld, BatchInOrder, ClaimedInOrder, FinishedInOrder, TimelineJobs

(* What has run is done or is what the worker is at.                           *)
LEMMA InOrder ==
  ASSUME PlayState, RunsBounded, crashes = 0
  PROVE  TimelineOrder
<1> SUFFICES ASSUME NEW j \in TimelineJobs, NEW k \in TimelineJobs, Precedes(j, k),
                    jobs[k].runs > 0 \/ Done(k)
             PROVE  Done(j)
  BY DEF TimelineOrder
<1>1. SchedInv /\ Shapes /\ PlayInv /\ k \in DOMAIN jobs
  BY DEF PlayState, SchedInv, TimelineJobs
<1>2. CASE Done(k)
  BY <1>1, <1>2 DEF PlayInv, FinishedInOrder
<1>3. CASE ~Done(k)
  <2>1. jobs[k].runs \in Nat /\ RunsOf(k)
    BY <1>1, JobTypes DEF RunsBounded
  <2>2. Running(k)
    BY <1>3, <2>1 DEF RunsOf
  <2>3. PICK w \in Workers : procs[w].pc # "idle" /\ k = Current(w)
    BY <2>2 DEF Running
  <2> QED
    BY <2>3, HeadOrder
<1> QED
  BY <1>2, <1>3

(* The invariants together, with one scheduler loop and no crash.              *)
LEMMA PlayInvariance ==
  ASSUME NoCrashes, LawfulTimelines
  PROVE  Spec => [](PlayState /\ RunsBounded /\ crashes = 0)
<1> DEFINE Inv == PlayState /\ RunsBounded /\ crashes = 0
<1>1. Init => Inv
  BY InitSound, RunsInit, SettleInit, PlayInit DEF Init, PlayState
<1>2. Inv /\ [Next]_vars => Inv'
  <2> SUFFICES ASSUME Inv, [Next]_vars
               PROVE  Inv'
    OBVIOUS
  <2>1. SettleStep /\ PlayStep /\ OneWorker /\ SchedInv /\ BatchUndone /\ ClaimedInOrder
    BY DEF SettleStep, PlayStep, PlayState, NoCrashes, PlayInv
  <2>2. SchedInv' /\ BatchUndone' /\ RunsBounded'
    BY <2>1, NextSound, UndoneStep, RunsStep
  <2>3. SettleInv'
    BY <2>1, ConsistentStep, SettleFacts DEF SettleInv
  <2>4. PlayInv'
    BY <2>1, LeasedHeldStep, BatchInOrderStep, ClaimedInOrderStep, FinishedInOrderStep,
       AuthoredStep, FollowsStep DEF PlayInv
  <2>5. crashes' = 0
    BY <2>1, PlayFacts
  <2> QED
    BY <2>2, <2>3, <2>4, <2>5 DEF PlayState, NoCrashes, OneWorker, LawfulTimelines, Lawful
<1> HIDE DEF Inv
<1>3. Spec => []Inv
  BY <1>1, <1>2, PTL DEF Spec
<1> QED
  BY <1>3 DEF Inv

(* TimelineOrder: with one scheduler loop, no crash and lawful timelines, a    *)
(* payment's actions are played in the order they are due, whatever payments,  *)
(* deliveries, retries, replays and voids run beside them.                     *)
THEOREM TimelinesInOrder ==
  ASSUME NoCrashes, LawfulTimelines
  PROVE  Spec => []TimelineOrder
<1>1. PlayState /\ RunsBounded /\ crashes = 0 => TimelineOrder
  BY InOrder
<1> QED
  BY <1>1, PlayInvariance, PTL

(* TransitionsLegal: under the same conditions each authored transition is     *)
(* legal when its turn comes.                                                  *)
THEOREM TransitionsStayLegal ==
  ASSUME NoCrashes, LawfulTimelines
  PROVE  Spec => []TransitionsLegal
<1>1. PlayState => TransitionsLegal
  BY HeadApplicable DEF TransitionsLegal, Applicable
<1> QED
  BY <1>1, PlayInvariance, PTL

=============================================================================
