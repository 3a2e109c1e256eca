------------------------ MODULE EmailDispatchJobs_proofs ------------------------
(* A row has one job at a time while no process ends and no lock is lost, and *)
(* what follows: nothing is claimed after a cancellation, no row is stranded. *)
EXTENDS EmailDispatch_proofs

USE DispatchAssumption

-----------------------------------------------------------------------------
(* The inductive invariant *)

\* No process ends and no lock expires.
Uninterrupted ==
    /\ left["crash"] = 0 /\ left["shutdown"] = 0 /\ left["lock"] = 0
    /\ \A p \in Procs : proc[p] = "up" /\ pending[p] = {}

\* An active job has a handler, which holds its lock.
Held ==
    /\ \A s \in Slots : pc[s] # "idle" => lock[s] /\ jobs[cur[s]].st = "active"
    /\ \A s, t \in Slots : pc[s] # "idle" /\ cur[s] = cur[t] => s = t
    /\ \A j \in JobIds : jobs[j].st = "active" => \E s \in Slots : cur[s] = j

\* The API enqueues a row once, and nobody does before it.
NewRows ==
    /\ \A p \in Procs : \A e \in toEnqueue[p] :
         /\ status[e] # "absent"
         /\ \A j \in JobIds : Row(j) = e => jobs[j].st = "none"
         /\ \A q \in Procs : e \in toEnqueue[q] => q = p
    /\ \A j \in JobIds : status[Row(j)] = "absent" => jobs[j].st = "none"

\* A job that is to run, and a handler that still works on one.
Waits(j) == jobs[j].st \in {"queued", "deferred"}
Busy(s) == pc[s] \notin {"idle", "done"}

OneJob ==
    /\ \A j, k \in JobIds : Waits(j) /\ Waits(k) /\ Row(j) = Row(k) => j = k
    /\ \A j \in JobIds, s \in Slots : Waits(j) /\ Busy(s) => EmailOf(s) # Row(j)
    /\ \A s, t \in Slots : Busy(s) /\ Busy(t) /\ EmailOf(s) = EmailOf(t) => s = t

\* The reschedule numbers after that of the row's current job are unused, so the
\* next deferral's queue.add is not ignored as a repetition.
NumbersUnused(j) ==
    \A k \in JobIds :
        Row(k) = Row(j) /\ k[2] = "r" /\ k[3] > RescheduleCount(j) => jobs[k].st = "none"

NumbersFresh ==
    /\ \A j \in JobIds : Waits(j) => NumbersUnused(j)
    /\ \A s \in Slots : Busy(s) => NumbersUnused(cur[s])

QueueInv == Held /\ NewRows /\ OneJob /\ NumbersFresh

JobInv == ClaimInv /\ Uninterrupted /\ QueueInv

-----------------------------------------------------------------------------
(* Job ids, and what an accepted queue.add does *)

LEMMA JobNumbers == \A j \in JobIds : j[3] \in Nat
<1>1. Budget["restart"] \in Nat
  BY DEF Kinds
<1> QED
  BY <1>1 DEF JobIds

LEMMA NextJob ==
    ASSUME NEW j \in JobIds, RescheduleCount(j) < MaxReschedules,
           NEW k, k = DeferredJob(Row(j), RescheduleCount(j) + 1)
    PROVE  /\ k \in JobIds /\ Row(k) = Row(j)
           /\ k[2] = "r" /\ k[3] = RescheduleCount(j) + 1
           /\ RescheduleCount(k) = RescheduleCount(j) + 1
<1>1. RescheduleCount(j) + 1 \in 1..MaxReschedules
  BY JobFacts
<1>2. k \in JobIds
  BY <1>1, JobFacts
<1>3. k = <<Row(j), "r", RescheduleCount(j) + 1>>
  BY DEF DeferredJob
<1> QED
  BY <1>2, <1>3 DEF Row, RescheduleCount

LEMMA BaseFacts == \A e \in Emails : BaseJob(e) \in JobIds /\ Row(BaseJob(e)) = e
  BY JobFacts DEF BaseJob, Row

LEMMA AddFresh ==
    ASSUME TypeOK, NEW j \in JobIds, jobs[j].st = "none", NEW st, AddJob(j, st)
    PROVE  /\ jobs'[j].st = st
           /\ \A k \in JobIds : k # j => jobs'[k] = jobs[k]
<1> DEFINE new == [Absent EXCEPT !.st = st]
<1>1. new.st = st
  BY DEF Absent
<1> HIDE DEF new
<1>2. jobs' = [jobs EXCEPT ![j] = new]
  BY DEF AddJob, new
<1> QED
  BY <1>1, <1>2 DEF TypeOK

-----------------------------------------------------------------------------
(* The kinds of step there are while no process ends *)

\* What leaves the queue and the handlers' jobs alone.
Inside ==
    /\ UNCHANGED <<jobs, cur, made, lock, proc, pending>>
    /\ \A k \in {"crash", "shutdown", "lock"} : left'[k] = left[k]
    /\ \A p \in Procs : toEnqueue'[p] \subseteq toEnqueue[p]
    /\ \A s \in Slots : (pc'[s] = "idle") <=> (pc[s] = "idle")
    /\ \A s \in Slots : pc[s] = "done" => pc'[s] = "done"
    /\ \A e \in Emails : status'[e] = "absent" => status[e] = "absent"

\* What does not.
Delivers ==
    \/ \E s \in Slots : Take(s) \/ Requeue(s) \/ Complete(s) \/ FailJob(s)
    \/ \E j \in JobIds : Evict(j)
    \/ \E p \in Procs : \E e \in Emails : Enqueue(p, e)
    \/ \E p \in Procs : \E c \in Campaigns : CreateCampaign(p, c)
    \/ Tick

LEMMA InsideOrDelivers ==
    ASSUME JobInv, [Next]_vars
    PROVE  Inside \/ Delivers
<1> USE DEF JobInv, ClaimInv, TypeOK, Uninterrupted, Inside, postgres, tables, counters, redis, handlers,
        process, outside
<1>1. ASSUME NEW s \in Slots, Take(s) PROVE Inside \/ Delivers
  BY <1>1 DEF Delivers
<1>2. ASSUME NEW s \in Slots, ReadCampaign(s) PROVE Inside \/ Delivers
  BY <1>2 DEF ReadCampaign, Goto
<1>3. ASSUME NEW s \in Slots, CancelRow(s) PROVE Inside \/ Delivers
  BY <1>3 DEF CancelRow, Goto, SetStatus, Claimable, EmailOf
<1>4. ASSUME NEW s \in Slots, Claim(s) PROVE Inside \/ Delivers
  BY <1>4 DEF Claim, Goto, SetStatus, Claimable, EmailOf
<1>5. ASSUME NEW s \in Slots, CheckLimit(s) PROVE Inside \/ Delivers
  BY <1>5 DEF CheckLimit, Goto
<1>6. ASSUME NEW s \in Slots, Defer(s) PROVE Inside \/ Delivers
  BY <1>6 DEF Defer, Goto, SetStatus, StatusAfterFailure
<1>7. ASSUME NEW s \in Slots, Requeue(s) PROVE Inside \/ Delivers
  BY <1>7 DEF Delivers
<1>8. ASSUME NEW s \in Slots, SelectSender(s) PROVE Inside \/ Delivers
  BY <1>8 DEF SelectSender, Goto
<1>9. ASSUME NEW s \in Slots, NoSender(s) PROVE Inside \/ Delivers
  BY <1>9 DEF NoSender, Goto, SetStatus, StatusAfterFailure
<1>10. ASSUME NEW s \in Slots, Send(s) PROVE Inside \/ Delivers
  BY <1>10 DEF Send, Goto
<1>11. ASSUME NEW s \in Slots, Record(s) PROVE Inside \/ Delivers
  BY <1>11 DEF Record, Goto, SetStatus, CommitSent
<1>12. ASSUME NEW s \in Slots, Catch(s) PROVE Inside \/ Delivers
  BY <1>12 DEF Catch, Goto, SetStatus, StatusAfterFailure
<1>13. ASSUME NEW s \in Slots, CountFail(s) PROVE Inside \/ Delivers
  BY <1>13 DEF CountFail, Goto
<1>14. ASSUME NEW s \in Slots, Complete(s) PROVE Inside \/ Delivers
  BY <1>14 DEF Delivers
<1>15. ASSUME NEW s \in Slots, FailJob(s) PROVE Inside \/ Delivers
  BY <1>15 DEF Delivers
<1>16. ASSUME NEW s \in Slots, SendFails(s) PROVE Inside \/ Delivers
  BY <1>16 DEF SendFails, Goto, Spend, Kinds
<1>17. ASSUME NEW s \in Slots, SendReplyLost(s) PROVE Inside \/ Delivers
  BY <1>17 DEF SendReplyLost, Goto, Spend, Kinds
<1>18. ASSUME NEW s \in Slots, RecordFails(s) PROVE Inside \/ Delivers
  BY <1>18 DEF RecordFails, Goto, SetStatus, CommitSent, Spend, Kinds
<1>19. ASSUME NEW s \in Slots, DbFails(s) PROVE Inside \/ Delivers
  BY <1>19 DEF DbFails, Goto, Spend, Kinds
<1>20. ASSUME NEW s \in Slots, RedisFails(s) PROVE Inside \/ Delivers
  BY <1>20 DEF RedisFails, Goto, Spend, Kinds
<1>21. ASSUME NEW s \in Slots, LockLoss(s) PROVE Inside \/ Delivers
  BY <1>21 DEF LockLoss, Spend
<1>22. ASSUME NEW j \in JobIds, Stalled(j) PROVE Inside \/ Delivers
  BY <1>22, JobFacts DEF Stalled, QueueInv, Held
<1>23. ASSUME NEW j \in JobIds, Evict(j) PROVE Inside \/ Delivers
  BY <1>23 DEF Delivers
<1>24. ASSUME NEW p \in Procs, Crash(p) PROVE Inside \/ Delivers
  BY <1>24 DEF Crash, Spend
<1>25. ASSUME NEW p \in Procs, Close(p) PROVE Inside \/ Delivers
  BY <1>25 DEF Close, Spend
<1>26. ASSUME NEW p \in Procs, Exit(p) PROVE Inside \/ Delivers
  BY <1>26 DEF Exit
<1>27. ASSUME NEW p \in Procs, Start(p) PROVE Inside \/ Delivers
  BY <1>27 DEF Start, Spend, Kinds
<1>28. ASSUME NEW p \in Procs, ReconcileRead(p) PROVE Inside \/ Delivers
  BY <1>28 DEF ReconcileRead
<1>29. ASSUME NEW p \in Procs, ReconcileRow(p) PROVE Inside \/ Delivers
  BY <1>29 DEF ReconcileRow
<1>30. ASSUME NEW p \in Procs, ReconcileDone(p) PROVE Inside \/ Delivers
  BY <1>30 DEF ReconcileDone
<1>31. ASSUME NEW p \in Procs, NEW c \in Campaigns, CreateCampaign(p, c) PROVE Inside \/ Delivers
  BY <1>31 DEF Delivers
<1>32. ASSUME NEW p \in Procs, NEW e \in Emails, Enqueue(p, e) PROVE Inside \/ Delivers
  BY <1>32 DEF Delivers
<1>33. ASSUME NEW p \in Procs, NEW e \in Emails, EnqueueFails(p, e) PROVE Inside \/ Delivers
  BY <1>33 DEF EnqueueFails, Spend, Kinds
<1>34. ASSUME NEW c \in Campaigns, CancelRequest(c) PROVE Inside \/ Delivers
  BY <1>34 DEF CancelRequest, Spend, Kinds
<1>35. ASSUME NEW c \in Campaigns, CancelCommit(c) PROVE Inside \/ Delivers
  BY <1>35 DEF CancelCommit
<1>36. ASSUME NEW b \in BOOLEAN, SetSender(b) PROVE Inside \/ Delivers
  BY <1>36 DEF SetSender, Spend, Kinds
<1>37. ASSUME Tick PROVE Inside \/ Delivers
  BY <1>37 DEF Delivers
<1>38. ASSUME UNCHANGED vars PROVE Inside \/ Delivers
  BY <1>38 DEF vars
<1> QED
  BY <1>1, <1>2, <1>3, <1>4, <1>5, <1>6, <1>7, <1>8, <1>9, <1>10, <1>11, <1>12, <1>13,
     <1>14, <1>15, <1>16, <1>17, <1>18, <1>19, <1>20, <1>21, <1>22, <1>23, <1>24, <1>25,
     <1>26, <1>27, <1>28, <1>29, <1>30, <1>31, <1>32, <1>33, <1>34, <1>35, <1>36, <1>37,
     <1>38
     DEF Next, HandlerStep, HandlerFault, ProcessStep, ApiStep

LEMMA UninterruptedNext == JobInv /\ [Next]_vars => Uninterrupted'
<1> SUFFICES ASSUME JobInv, [Next]_vars PROVE Uninterrupted'
  OBVIOUS
<1> USE DEF JobInv, ClaimInv, TypeOK, Uninterrupted, postgres, tables, process, outside
<1>1. CASE Inside
  BY <1>1 DEF Inside
<1>2. ASSUME NEW s \in Slots, Take(s) \/ Requeue(s) \/ Complete(s) \/ FailJob(s)
      PROVE  Uninterrupted'
  BY <1>2 DEF Take, Requeue, Complete, FailJob, Finish
<1>3. ASSUME NEW j \in JobIds, Evict(j) PROVE Uninterrupted'
  BY <1>3 DEF Evict, Spend, Kinds
<1>4. ASSUME NEW p \in Procs, NEW e \in Emails, Enqueue(p, e) PROVE Uninterrupted'
  BY <1>4 DEF Enqueue
<1>5. ASSUME NEW p \in Procs, NEW c \in Campaigns, CreateCampaign(p, c) PROVE Uninterrupted'
  BY <1>5 DEF CreateCampaign
<1>6. CASE Tick
  BY <1>6 DEF Tick
<1> QED
  BY <1>1, <1>2, <1>3, <1>4, <1>5, <1>6, InsideOrDelivers DEF Delivers

-----------------------------------------------------------------------------
(* The queue's invariant, one kind of step at a time *)

LEMMA HandlerFacts ==
    ASSUME JobInv, NEW s \in Slots, pc[s] # "idle"
    PROVE  /\ cur[s] \in JobIds /\ EmailOf(s) \in Emails
           /\ lock[s] = TRUE /\ jobs[cur[s]].st = "active"
           /\ \A t \in Slots : cur[t] = cur[s] => t = s
  BY JobFacts DEF JobInv, ClaimInv, TypeOK, QueueInv, Held, EmailOf

LEMMA InsideKeeps == ASSUME JobInv, Inside PROVE QueueInv'
<1> USE DEF JobInv, QueueInv, Inside
<1>1. \A s \in Slots : Busy(s)' => Busy(s)
  BY DEF Busy
<1>2. \A j \in JobIds : Waits(j)' = Waits(j)
  BY DEF Waits
<1>3. Held'
  BY DEF Held
<1>4. NewRows'
  BY JobFacts DEF NewRows, ClaimInv, TypeOK
<1>5. OneJob'
  BY <1>1, <1>2 DEF OneJob, EmailOf
<1>6. NumbersFresh'
  BY <1>1, <1>2 DEF NumbersFresh, NumbersUnused
<1> QED
  BY <1>3, <1>4, <1>5, <1>6

LEMMA TakeKeeps == ASSUME JobInv, NEW s \in Slots, Take(s) PROVE QueueInv'
<1> USE DEF JobInv, QueueInv, ClaimInv, TypeOK
<1>1. PICK j \in JobIds :
        /\ jobs[j].st = "queued"
        /\ jobs' = [jobs EXCEPT ![j].st = "active"]
        /\ cur' = [cur EXCEPT ![s] = j]
  BY DEF Take
<1>2. /\ pc[s] = "idle" /\ pc' = [pc EXCEPT ![s] = "lookup"]
      /\ lock' = [lock EXCEPT ![s] = TRUE]
      /\ status' = status /\ toEnqueue' = toEnqueue
  BY DEF Take, postgres, process
<1>3. /\ jobs'[j].st = "active"
      /\ \A k \in JobIds : k # j => jobs'[k] = jobs[k]
  BY <1>1
<1>4. \A t \in Slots : pc[t] # "idle" => cur[t] # j
  BY <1>1 DEF Held
<1>5. \A t \in Slots : t # s => pc'[t] = pc[t] /\ cur'[t] = cur[t] /\ lock'[t] = lock[t]
  BY <1>1, <1>2
<1>6. cur'[s] = j /\ pc'[s] = "lookup" /\ lock'[s] = TRUE /\ j # NoJob
  BY <1>1, <1>2
<1>7. Held'
  <2>1. \A t \in Slots : pc'[t] # "idle" => lock'[t] /\ jobs'[cur'[t]].st = "active"
    BY <1>3, <1>4, <1>5, <1>6 DEF Held
  <2>2. \A t, u \in Slots : pc'[t] # "idle" /\ cur'[t] = cur'[u] => t = u
    BY <1>4, <1>5, <1>6 DEF Held
  <2>3. \A k \in JobIds : jobs'[k].st = "active" => \E t \in Slots : cur'[t] = k
    BY <1>2, <1>3, <1>5, <1>6 DEF Held
  <2> QED
    BY <2>1, <2>2, <2>3 DEF Held
<1>8. NewRows'
  BY <1>1, <1>2, <1>3 DEF NewRows
<1>9. \A k \in JobIds : Waits(k)' => Waits(k) /\ k # j
  BY <1>3 DEF Waits
<1>10. Waits(j)
  BY <1>1 DEF Waits
<1>11. \A t \in Slots : t # s => (Busy(t)' <=> Busy(t)) /\ EmailOf(t)' = EmailOf(t)
  BY <1>5 DEF Busy, EmailOf
<1>12. EmailOf(s)' = Row(j)
  BY <1>6 DEF EmailOf
<1>13. OneJob'
  BY <1>9, <1>10, <1>11, <1>12 DEF OneJob
<1>14. \A k, l \in JobIds : jobs[l].st = "none" => jobs'[l].st = "none"
  BY <1>1, <1>3
<1>15. NumbersFresh'
  BY <1>5, <1>6, <1>9, <1>10, <1>11, <1>14 DEF NumbersFresh, NumbersUnused
<1> QED
  BY <1>7, <1>8, <1>13, <1>15

\* The handler is done with its job, which has ended or waits to be retried.
LEMMA FinishKeeps ==
    ASSUME JobInv, NEW s \in Slots, NEW st, NEW count, Finish(s, st, count),
           \/ pc[s] = "done" /\ st = "completed"
           \/ pc[s] = "throw" /\ st \in {"queued", "failed"}
    PROVE  QueueInv'
<1> USE DEF JobInv, QueueInv, ClaimInv, TypeOK
<1> DEFINE j == cur[s]
<1>1. /\ j \in JobIds /\ lock[s] = TRUE /\ jobs[j].st = "active"
      /\ \A t \in Slots : cur[t] = j => t = s
  BY HandlerFacts
<1>2. /\ jobs' = [jobs EXCEPT ![j].st = st, ![j].made = count]
      /\ pc' = [pc EXCEPT ![s] = "idle"] /\ cur' = [cur EXCEPT ![s] = NoJob]
      /\ lock' = [lock EXCEPT ![s] = FALSE]
      /\ status' = status /\ toEnqueue' = toEnqueue
  BY <1>1 DEF Finish, postgres, process
<1>3. /\ jobs'[j].st = st
      /\ \A k \in JobIds : k # j => jobs'[k] = jobs[k]
  BY <1>1, <1>2 DEF Job
<1> HIDE DEF j
<1>4. \A t \in Slots : t # s => pc'[t] = pc[t] /\ cur'[t] = cur[t] /\ lock'[t] = lock[t]
  BY <1>2
<1>5. pc'[s] = "idle" /\ cur'[s] = NoJob
  BY <1>2
<1>6. Held'
  <2>1. \A t \in Slots : pc'[t] # "idle" => lock'[t] /\ jobs'[cur'[t]].st = "active"
    BY <1>1, <1>3, <1>4, <1>5 DEF Held
  <2>2. \A t, u \in Slots : pc'[t] # "idle" /\ cur'[t] = cur'[u] => t = u
    BY <1>4, <1>5 DEF Held
  <2>3. \A k \in JobIds : jobs'[k].st = "active" => \E t \in Slots : cur'[t] = k
    BY <1>1, <1>3, <1>4 DEF Held, j
  <2> QED
    BY <2>1, <2>2, <2>3 DEF Held
<1>7. \A k \in JobIds : jobs[k].st = "none" <=> jobs'[k].st = "none"
  BY <1>1, <1>3
<1>8. NewRows'
  BY <1>2, <1>7 DEF NewRows
<1>9. \A k \in JobIds : Waits(k)' => Waits(k) \/ (k = j /\ Busy(s))
  BY <1>1, <1>3 DEF Waits, Busy
<1>10. \A t \in Slots : Busy(t)' => t # s /\ Busy(t) /\ EmailOf(t)' = EmailOf(t)
  BY <1>4, <1>5 DEF Busy, EmailOf
<1>11. EmailOf(s) = Row(j)
  BY DEF EmailOf, j
<1>12. OneJob'
  <2>1. \A k, l \in JobIds : Waits(k)' /\ Waits(l)' /\ Row(k) = Row(l) => k = l
    BY <1>9, <1>11 DEF OneJob
  <2>2. \A k \in JobIds, t \in Slots : Waits(k)' /\ Busy(t)' => EmailOf(t)' # Row(k)
    BY <1>9, <1>10, <1>11 DEF OneJob
  <2>3. \A t, u \in Slots : Busy(t)' /\ Busy(u)' /\ EmailOf(t)' = EmailOf(u)' => t = u
    BY <1>10 DEF OneJob
  <2> QED
    BY <2>1, <2>2, <2>3 DEF OneJob
<1>13. NumbersFresh'
  <2>1. \A k \in JobIds : Waits(k)' => NumbersUnused(k)
    BY <1>9 DEF NumbersFresh, j
  <2>2. \A t \in Slots : Busy(t)' => NumbersUnused(cur'[t])
    BY <1>4, <1>10 DEF NumbersFresh
  <2>3. \A k : NumbersUnused(k) => NumbersUnused(k)'
    BY <1>7 DEF NumbersUnused
  <2> QED
    BY <2>1, <2>2, <2>3, <1>7 DEF NumbersFresh, NumbersUnused
<1> QED
  BY <1>6, <1>8, <1>12, <1>13

\* The deferral's job is added under a number not used before.
LEMMA RequeueKeeps == ASSUME JobInv, NEW s \in Slots, Requeue(s) PROVE QueueInv'
<1> USE DEF JobInv, QueueInv, ClaimInv, TypeOK
<1>0. PICK new : new = DeferredJob(Row(cur[s]), RescheduleCount(cur[s]) + 1)
  OBVIOUS
<1>1. /\ pc[s] = "requeue" /\ pc' = [pc EXCEPT ![s] = "done"]
      /\ RescheduleCount(cur[s]) < MaxReschedules
      /\ status' = status /\ toEnqueue' = toEnqueue /\ cur' = cur /\ lock' = lock
  BY DEF Requeue, Goto, postgres, process
<1>2. Busy(s) /\ cur[s] \in JobIds /\ jobs[cur[s]].st = "active" /\ status[Row(cur[s])] # "absent"
  <2>1. Busy(s) /\ cur[s] \in JobIds /\ jobs[cur[s]].st = "active"
    BY <1>1, HandlerFacts DEF Busy
  <2> QED
    BY <2>1 DEF NewRows
<1>3. /\ new \in JobIds /\ Row(new) = Row(cur[s])
      /\ new[2] = "r" /\ new[3] = RescheduleCount(cur[s]) + 1
      /\ RescheduleCount(new) = RescheduleCount(cur[s]) + 1
  BY <1>0, <1>1, <1>2, NextJob
<1>4. RescheduleCount(cur[s]) \in Nat
  BY <1>2, JobFacts
<1>5. jobs[new].st = "none"
  <2>1. NumbersUnused(cur[s])
    BY <1>2 DEF NumbersFresh
  <2> QED
    BY <1>3, <1>4, <2>1 DEF NumbersUnused
<1>6. /\ jobs'[new].st \in {"queued", "deferred"}
      /\ \A k \in JobIds : k # new => jobs'[k] = jobs[k]
  <2>1. PICK st \in {"queued", "deferred"} : AddJob(new, st)
    BY <1>0 DEF Requeue, EmailOf
  <2> QED
    BY <1>3, <1>5, <2>1, AddFresh
<1>7. Held'
  <2>1. \A t \in Slots : pc'[t] # "idle" => pc[t] # "idle" /\ cur[t] \in JobIds
    BY <1>1, HandlerFacts
  <2>2. \A k \in JobIds : jobs[k].st = "active" <=> jobs'[k].st = "active"
    BY <1>5, <1>6
  <2>3. \A t \in Slots : pc'[t] # "idle" => lock'[t] /\ jobs'[cur'[t]].st = "active"
    BY <1>1, <2>1, <2>2 DEF Held
  <2>4. \A t, u \in Slots : pc'[t] # "idle" /\ cur'[t] = cur'[u] => t = u
    BY <1>1, <2>1 DEF Held
  <2>5. \A k \in JobIds : jobs'[k].st = "active" => \E t \in Slots : cur'[t] = k
    BY <1>1, <2>2 DEF Held
  <2> QED
    BY <2>3, <2>4, <2>5 DEF Held
<1>8. NewRows'
  <2>1. \A p \in Procs : Row(new) \notin toEnqueue[p]
    BY <1>2, <1>3 DEF NewRows
  <2>2. \A k \in JobIds : Row(k) # Row(new) => jobs'[k] = jobs[k]
    BY <1>6
  <2> QED
    BY <1>1, <1>2, <1>3, <2>1, <2>2 DEF NewRows
<1>9. \A k \in JobIds : Waits(k)' <=> Waits(k) \/ k = new
  BY <1>6 DEF Waits
<1>10. \A t \in Slots : Busy(t)' => t # s /\ Busy(t) /\ EmailOf(t)' = EmailOf(t) /\ cur'[t] = cur[t]
  BY <1>1 DEF Busy, EmailOf
<1>11. EmailOf(s) = Row(new)
  BY <1>3 DEF EmailOf
<1>12. OneJob'
  <2>1. \A k, l \in JobIds : Waits(k)' /\ Waits(l)' /\ Row(k) = Row(l) => k = l
    BY <1>2, <1>9, <1>11 DEF OneJob
  <2>2. \A k \in JobIds, t \in Slots : Waits(k)' /\ Busy(t)' => EmailOf(t)' # Row(k)
    BY <1>2, <1>9, <1>10, <1>11 DEF OneJob
  <2>3. \A t, u \in Slots : Busy(t)' /\ Busy(u)' /\ EmailOf(t)' = EmailOf(u)' => t = u
    BY <1>10 DEF OneJob
  <2> QED
    BY <2>1, <2>2, <2>3 DEF OneJob
<1>13. NumbersUnused(new)'
  <2>1. NumbersUnused(cur[s])
    BY <1>2 DEF NumbersFresh
  <2> SUFFICES ASSUME NEW k \in JobIds, Row(k) = Row(new), k[2] = "r",
                      k[3] > RescheduleCount(new)
               PROVE  jobs'[k].st = "none"
    BY DEF NumbersUnused
  <2>2. k[3] \in Nat
    BY JobNumbers
  <2>3. k # new /\ k[3] > RescheduleCount(cur[s])
    BY <1>3, <1>4, <2>2
  <2> QED
    BY <1>3, <1>6, <2>1, <2>3 DEF NumbersUnused
\* Another job or handler of the same row there is none.
<1>14. ASSUME NEW k \in JobIds, Row(k) # Row(new), NumbersUnused(k) PROVE NumbersUnused(k)'
  BY <1>6, <1>14 DEF NumbersUnused
<1>15. NumbersFresh'
  <2>1. ASSUME NEW k \in JobIds, Waits(k)' PROVE NumbersUnused(k)'
    <3>1. CASE k = new
      BY <1>13, <3>1
    <3>2. CASE k # new
      <4>1. Waits(k) /\ Row(k) # Row(new)
        BY <1>2, <1>9, <1>11, <2>1, <3>2 DEF OneJob
      <4> QED
        BY <1>14, <4>1 DEF NumbersFresh
    <3> QED
      BY <3>1, <3>2
  <2>2. ASSUME NEW t \in Slots, Busy(t)' PROVE NumbersUnused(cur[t])'
    <3>1. t # s /\ Busy(t) /\ cur[t] \in JobIds
      BY <1>10, <2>2, HandlerFacts DEF Busy
    <3>2. Row(cur[t]) # Row(new)
      BY <1>2, <1>11, <3>1 DEF OneJob, EmailOf
    <3> QED
      BY <1>10, <1>14, <2>2, <3>1, <3>2 DEF NumbersFresh, NumbersUnused
  <2> QED
    BY <1>1, <2>1, <2>2 DEF NumbersFresh
<1> QED
  BY <1>7, <1>8, <1>12, <1>15

LEMMA EvictKeeps == ASSUME JobInv, NEW j \in JobIds, Evict(j) PROVE QueueInv'
<1> USE DEF JobInv, QueueInv, ClaimInv, TypeOK
<1>1. /\ jobs[j].st \in {"completed", "failed"} /\ jobs'[j].st = "none"
      /\ \A k \in JobIds : k # j => jobs'[k] = jobs[k]
      /\ UNCHANGED <<status, toEnqueue, pc, cur, lock>>
  BY DEF Evict, Absent, postgres, handlers, process
<1>2. Held'
  BY <1>1 DEF Held
<1>3. NewRows'
  BY <1>1 DEF NewRows
<1>4. \A k \in JobIds : Waits(k)' => Waits(k)
  BY <1>1 DEF Waits
<1>5. \A t \in Slots : (Busy(t)' <=> Busy(t)) /\ EmailOf(t)' = EmailOf(t)
  BY <1>1 DEF Busy, EmailOf
<1>6. OneJob'
  BY <1>4, <1>5 DEF OneJob
<1>7. NumbersFresh'
  BY <1>1, <1>4, <1>5 DEF NumbersFresh, NumbersUnused
<1> QED
  BY <1>2, <1>3, <1>6, <1>7

LEMMA EnqueueKeeps ==
    ASSUME JobInv, NEW p \in Procs, NEW row \in Emails, Enqueue(p, row) PROVE QueueInv'
<1> USE DEF JobInv, QueueInv, ClaimInv, TypeOK
<1> DEFINE new == BaseJob(row)
<1>1. /\ row \in toEnqueue[p] /\ toEnqueue' = [toEnqueue EXCEPT ![p] = @ \ {row}]
      /\ AddJob(new, "queued")
      /\ UNCHANGED <<status, pc, cur, lock>>
  BY DEF Enqueue, postgres, handlers
<1>2. new \in JobIds /\ Row(new) = row
  BY BaseFacts
<1> HIDE DEF new
<1>3. \A k \in JobIds : Row(k) = row => jobs[k].st = "none"
  BY <1>1 DEF NewRows
<1>4. /\ jobs'[new].st = "queued"
      /\ \A k \in JobIds : k # new => jobs'[k] = jobs[k]
  BY <1>1, <1>2, <1>3, AddFresh
<1>5. Held'
  <2>1. \A t \in Slots : pc'[t] # "idle" => pc[t] # "idle" /\ cur[t] \in JobIds
    BY <1>1, HandlerFacts
  <2>2. \A k \in JobIds : jobs[k].st = "active" <=> jobs'[k].st = "active"
    BY <1>2, <1>3, <1>4
  <2>3. \A t \in Slots : pc'[t] # "idle" => lock'[t] /\ jobs'[cur'[t]].st = "active"
    BY <1>1, <2>1, <2>2 DEF Held
  <2>4. \A t, u \in Slots : pc'[t] # "idle" /\ cur'[t] = cur'[u] => t = u
    BY <1>1, <2>1 DEF Held
  <2>5. \A k \in JobIds : jobs'[k].st = "active" => \E t \in Slots : cur'[t] = k
    BY <1>1, <2>2 DEF Held
  <2> QED
    BY <2>3, <2>4, <2>5 DEF Held
<1>6. NewRows'
  <2>1. ASSUME NEW q \in Procs, NEW e \in toEnqueue'[q]
        PROVE  e \in toEnqueue[q] /\ e # row
    BY <1>1, <2>1 DEF NewRows
  <2> QED
    BY <1>1, <1>2, <1>4, <2>1 DEF NewRows
<1>7. \A k \in JobIds : Waits(k)' <=> Waits(k) \/ k = new
  BY <1>4 DEF Waits
<1>8. \A t \in Slots : (Busy(t)' <=> Busy(t)) /\ EmailOf(t)' = EmailOf(t) /\ cur'[t] = cur[t]
  BY <1>1 DEF Busy, EmailOf
<1>9. /\ \A k \in JobIds : Waits(k) => Row(k) # row
      /\ \A t \in Slots : Busy(t) => cur[t] \in JobIds /\ Row(cur[t]) # row
  BY <1>3, HandlerFacts DEF Waits, Busy
<1>10. OneJob'
  BY <1>2, <1>7, <1>8, <1>9 DEF OneJob, EmailOf
<1>11. NumbersUnused(new)'
  <2> SUFFICES ASSUME NEW k \in JobIds, Row(k) = row, k[2] = "r", k[3] > RescheduleCount(new)
               PROVE  jobs'[k].st = "none"
    BY <1>2 DEF NumbersUnused
  <2>1. k # new
    BY DEF new, BaseJob
  <2> QED
    BY <1>3, <1>4, <2>1
<1>12. ASSUME NEW k \in JobIds, Row(k) # row, NumbersUnused(k) PROVE NumbersUnused(k)'
  BY <1>2, <1>4, <1>12 DEF NumbersUnused
<1>13. NumbersFresh'
  <2>1. ASSUME NEW k \in JobIds, Waits(k)' PROVE NumbersUnused(k)'
    BY <1>7, <1>9, <1>11, <1>12, <2>1 DEF NumbersFresh
  <2>2. ASSUME NEW t \in Slots, Busy(t)' PROVE NumbersUnused(cur[t])'
    BY <1>8, <1>9, <1>12, <2>2 DEF NumbersFresh
  <2> QED
    BY <1>1, <2>1, <2>2 DEF NumbersFresh
<1> QED
  BY <1>5, <1>6, <1>10, <1>13

LEMMA CreateKeeps ==
    ASSUME JobInv, NEW p \in Procs, NEW c \in Campaigns, CreateCampaign(p, c) PROVE QueueInv'
<1> USE DEF JobInv, QueueInv, ClaimInv, TypeOK
<1>1. /\ \A e \in Emails : status'[e] = IF CampaignOf[e] = c THEN "SCHEDULED" ELSE status[e]
      /\ toEnqueue' = [toEnqueue EXCEPT ![p] = @ \cup {e \in Emails : CampaignOf[e] = c}]
      /\ campaign[c] = "absent"
      /\ UNCHANGED <<jobs, pc, cur, lock>>
  BY DEF CreateCampaign, redis, handlers
<1>2. \A e \in Emails : CampaignOf[e] = c => status[e] = "absent"
  BY <1>1 DEF RowsWithCampaign
<1>3. Held'
  BY <1>1 DEF Held
<1>4. NewRows'
  <2>1. ASSUME NEW q \in Procs, NEW e \in toEnqueue'[q]
        PROVE  /\ e \in Emails
               /\ IF CampaignOf[e] = c THEN q = p /\ e \notin toEnqueue[q] ELSE e \in toEnqueue[q]
    BY <1>1, <1>2 DEF NewRows
  <2>2. ASSUME NEW q \in Procs, NEW e \in toEnqueue'[q]
        PROVE  /\ status'[e] # "absent"
               /\ \A j \in JobIds : Row(j) = e => jobs'[j].st = "none"
               /\ \A r \in Procs : e \in toEnqueue'[r] => r = q
    BY <1>1, <1>2, <2>1 DEF NewRows
  <2>3. \A j \in JobIds : status'[Row(j)] = "absent" => jobs'[j].st = "none"
    BY <1>1, JobFacts DEF NewRows
  <2> QED
    BY <2>2, <2>3 DEF NewRows
<1>5. OneJob' /\ NumbersFresh'
  BY <1>1 DEF OneJob, NumbersFresh, NumbersUnused, Waits, Busy, EmailOf
<1> QED
  BY <1>3, <1>4, <1>5

LEMMA TickKeeps == ASSUME JobInv, Tick PROVE QueueInv'
<1> USE DEF JobInv, QueueInv, ClaimInv, TypeOK
<1>1. UNCHANGED <<status, toEnqueue, pc, cur, lock>>
  BY DEF Tick, handlers
<1>2. \A k \in JobIds : jobs'[k].st = IF jobs[k].st = "deferred" THEN "queued" ELSE jobs[k].st
  <2> TAKE k \in JobIds
  <2>1. CASE jobs[k].st = "deferred"
    BY <2>1 DEF Tick, Job
  <2>2. CASE jobs[k].st # "deferred"
    BY <2>2 DEF Tick
  <2> QED
    BY <2>1, <2>2
<1>3. Held'
  <2>1. \A s \in Slots : pc[s] # "idle" => cur[s] \in JobIds
    BY HandlerFacts
  <2>2. \A k \in JobIds : jobs'[k].st = "active" <=> jobs[k].st = "active"
    BY <1>2
  <2>3. \A s \in Slots : pc'[s] # "idle" => lock'[s] /\ jobs'[cur'[s]].st = "active"
    BY <1>1, <2>1, <2>2 DEF Held
  <2>4. \A s, t \in Slots : pc'[s] # "idle" /\ cur'[s] = cur'[t] => s = t
    BY <1>1 DEF Held
  <2>5. \A k \in JobIds : jobs'[k].st = "active" => \E s \in Slots : cur'[s] = k
    BY <1>1, <2>2 DEF Held
  <2> QED
    BY <2>3, <2>4, <2>5 DEF Held
<1>4. NewRows'
  <2>1. \A k \in JobIds : jobs[k].st = "none" => jobs'[k].st = "none"
    BY <1>2
  <2> QED
    BY <1>1, <2>1 DEF NewRows
<1>5. \A k \in JobIds : Waits(k)' <=> Waits(k)
  BY <1>2 DEF Waits
<1>6. \A t \in Slots : (Busy(t)' <=> Busy(t)) /\ EmailOf(t)' = EmailOf(t) /\ cur'[t] = cur[t]
  BY <1>1 DEF Busy, EmailOf
<1>7. OneJob'
  BY <1>5, <1>6 DEF OneJob
<1>8. NumbersFresh'
  BY <1>2, <1>5, <1>6 DEF NumbersFresh, NumbersUnused
<1> QED
  BY <1>3, <1>4, <1>7, <1>8

LEMMA JobNext == JobInv /\ [Next]_vars => JobInv'
<1> SUFFICES ASSUME JobInv, [Next]_vars PROVE JobInv'
  OBVIOUS
<1>1. ASSUME NEW s \in Slots, Complete(s) \/ FailJob(s) PROVE QueueInv'
  BY <1>1, FinishKeeps DEF Complete, FailJob
<1>2. QueueInv'
  BY <1>1, InsideOrDelivers, InsideKeeps, TakeKeeps, RequeueKeeps, EvictKeeps, EnqueueKeeps,
     CreateKeeps, TickKeeps DEF Delivers
<1> QED
  BY <1>2, ClaimNext, UninterruptedNext DEF JobInv

LEMMA JobInit ==
    ASSUME Budget["crash"] = 0, Budget["shutdown"] = 0, Budget["lock"] = 0
    PROVE  Init => JobInv
<1> SUFFICES ASSUME Init PROVE JobInv
  OBVIOUS
<1>1. \A j \in JobIds : jobs[j].st = "none"
  BY DEF Init, Absent
<1>2. \A s \in Slots : pc[s] = "idle" /\ cur[s] = NoJob
  BY DEF Init
<1>3. Uninterrupted /\ \A p \in Procs : toEnqueue[p] = {}
  BY DEF Init, Uninterrupted
<1>4. QueueInv
  BY <1>1, <1>2, <1>3
     DEF QueueInv, Held, NewRows, OneJob, NumbersFresh, NumbersUnused, Waits, Busy
<1> QED
  BY <1>3, <1>4, ClaimInit DEF JobInv

LEMMA JobCorrect ==
    ASSUME Budget["crash"] = 0, Budget["shutdown"] = 0, Budget["lock"] = 0
    PROVE  Spec => []JobInv
  BY JobInit, JobNext, PTL DEF Spec

-----------------------------------------------------------------------------
(* Cancellation *)

\* A handler that has read ACTIVE and not claimed yet finds its row waiting only
\* if the campaign still is active.
ClaimsCurrent ==
    \A s \in Slots :
        pc[s] = "claim" /\ campaign[CampaignOf[Row(cur[s])]] # "ACTIVE"
            => status[Row(cur[s])] \notin Claimable

LEMMA ClaimsCurrentNext == JobInv /\ ClaimsCurrent /\ [Next]_vars => ClaimsCurrent'
<1> SUFFICES ASSUME JobInv, ClaimsCurrent, [Next]_vars PROVE ClaimsCurrent'
  OBVIOUS
<1>a. \A s \in Slots : pc[s] # "idle" => Row(cur[s]) \in Emails
  BY HandlerFacts DEF EmailOf
<1>b. \A s \in Slots : \A t \in Slots :
        pc[s] = "claim" /\ pc[t] \in Owning => Row(cur[s]) # Row(cur[t])
  BY DEF JobInv, QueueInv, OneJob, Busy, EmailOf, Owning
<1> USE <1>a DEF ClaimsCurrent, JobInv, ClaimInv, RowsWithCampaign, TypeOK, EmailOf, CampaignOfJob,
        Claimable, postgres, tables, handlers
<1>1. ASSUME NEW s \in Slots, Take(s) PROVE ClaimsCurrent'
  BY <1>1 DEF Take
<1>2. ASSUME NEW s \in Slots, ReadCampaign(s) PROVE ClaimsCurrent'
  BY <1>2 DEF ReadCampaign, Goto
<1>3. ASSUME NEW s \in Slots, CancelRow(s) PROVE ClaimsCurrent'
  BY <1>3 DEF CancelRow, Goto, SetStatus
<1>4. ASSUME NEW s \in Slots, Claim(s) PROVE ClaimsCurrent'
  BY <1>4 DEF Claim, Goto, SetStatus
<1>5. ASSUME NEW s \in Slots, CheckLimit(s) PROVE ClaimsCurrent'
  BY <1>5 DEF CheckLimit, Goto
<1>6. ASSUME NEW s \in Slots, Defer(s) PROVE ClaimsCurrent'
  BY <1>6, <1>b DEF Defer, Goto, SetStatus, StatusAfterFailure, Owning
<1>7. ASSUME NEW s \in Slots, Requeue(s) PROVE ClaimsCurrent'
  BY <1>7 DEF Requeue, Goto
<1>8. ASSUME NEW s \in Slots, SelectSender(s) PROVE ClaimsCurrent'
  BY <1>8 DEF SelectSender, Goto
<1>9. ASSUME NEW s \in Slots, NoSender(s) PROVE ClaimsCurrent'
  BY <1>9, <1>b DEF NoSender, Goto, SetStatus, StatusAfterFailure, Owning
<1>10. ASSUME NEW s \in Slots, Send(s) PROVE ClaimsCurrent'
  BY <1>10 DEF Send, Goto
<1>11. ASSUME NEW s \in Slots, Record(s) PROVE ClaimsCurrent'
  BY <1>11 DEF Record, Goto, SetStatus, CommitSent
<1>12. ASSUME NEW s \in Slots, Catch(s) PROVE ClaimsCurrent'
  BY <1>12, <1>b DEF Catch, Goto, SetStatus, StatusAfterFailure, Owning
<1>13. ASSUME NEW s \in Slots, CountFail(s) PROVE ClaimsCurrent'
  BY <1>13 DEF CountFail, Goto
<1>14. ASSUME NEW s \in Slots, Complete(s) PROVE ClaimsCurrent'
  BY <1>14 DEF Complete, Finish
<1>15. ASSUME NEW s \in Slots, FailJob(s) PROVE ClaimsCurrent'
  BY <1>15 DEF FailJob, Finish
<1>16. ASSUME NEW s \in Slots, SendFails(s) PROVE ClaimsCurrent'
  BY <1>16 DEF SendFails, Goto
<1>17. ASSUME NEW s \in Slots, SendReplyLost(s) PROVE ClaimsCurrent'
  BY <1>17 DEF SendReplyLost, Goto
<1>18. ASSUME NEW s \in Slots, RecordFails(s) PROVE ClaimsCurrent'
  BY <1>18 DEF RecordFails, Goto, SetStatus, CommitSent
<1>19. ASSUME NEW s \in Slots, DbFails(s) PROVE ClaimsCurrent'
  BY <1>19 DEF DbFails, Goto
<1>20. ASSUME NEW s \in Slots, RedisFails(s) PROVE ClaimsCurrent'
  BY <1>20 DEF RedisFails, Goto
<1>21. ASSUME NEW s \in Slots, LockLoss(s) PROVE ClaimsCurrent'
  BY <1>21 DEF LockLoss
<1>22. ASSUME NEW j \in JobIds, Stalled(j) PROVE ClaimsCurrent'
  BY <1>22 DEF Stalled
<1>23. ASSUME NEW j \in JobIds, Evict(j) PROVE ClaimsCurrent'
  BY <1>23 DEF Evict
<1>24. ASSUME NEW p \in Procs, Crash(p) PROVE ClaimsCurrent'
  BY <1>24 DEF Crash, Die
<1>25. ASSUME NEW p \in Procs, Close(p) PROVE ClaimsCurrent'
  BY <1>25 DEF Close
<1>26. ASSUME NEW p \in Procs, Exit(p) PROVE ClaimsCurrent'
  BY <1>26 DEF Exit, Die
<1>27. ASSUME NEW p \in Procs, Start(p) PROVE ClaimsCurrent'
  BY <1>27 DEF Start
<1>28. ASSUME NEW p \in Procs, ReconcileRead(p) PROVE ClaimsCurrent'
  BY <1>28 DEF ReconcileRead
<1>29. ASSUME NEW p \in Procs, ReconcileRow(p) PROVE ClaimsCurrent'
  BY <1>29 DEF ReconcileRow
<1>30. ASSUME NEW p \in Procs, ReconcileDone(p) PROVE ClaimsCurrent'
  BY <1>30 DEF ReconcileDone
<1>31. ASSUME NEW p \in Procs, NEW c \in Campaigns, CreateCampaign(p, c) PROVE ClaimsCurrent'
  BY <1>31 DEF CreateCampaign
<1>32. ASSUME NEW p \in Procs, NEW e \in Emails, Enqueue(p, e) PROVE ClaimsCurrent'
  BY <1>32 DEF Enqueue
<1>33. ASSUME NEW p \in Procs, NEW e \in Emails, EnqueueFails(p, e) PROVE ClaimsCurrent'
  BY <1>33 DEF EnqueueFails
<1>34. ASSUME NEW c \in Campaigns, CancelRequest(c) PROVE ClaimsCurrent'
  BY <1>34 DEF CancelRequest
<1>35. ASSUME NEW c \in Campaigns, CancelCommit(c) PROVE ClaimsCurrent'
  BY <1>35 DEF CancelCommit
<1>36. ASSUME NEW b \in BOOLEAN, SetSender(b) PROVE ClaimsCurrent'
  BY <1>36 DEF SetSender
<1>37. ASSUME Tick PROVE ClaimsCurrent'
  BY <1>37 DEF Tick
<1>38. ASSUME UNCHANGED vars PROVE ClaimsCurrent'
  BY <1>38 DEF vars
<1> QED
  BY <1>1, <1>2, <1>3, <1>4, <1>5, <1>6, <1>7, <1>8, <1>9, <1>10, <1>11, <1>12, <1>13,
     <1>14, <1>15, <1>16, <1>17, <1>18, <1>19, <1>20, <1>21, <1>22, <1>23, <1>24, <1>25,
     <1>26, <1>27, <1>28, <1>29, <1>30, <1>31, <1>32, <1>33, <1>34, <1>35, <1>36, <1>37,
     <1>38
     DEF Next, HandlerStep, HandlerFault, ProcessStep, ApiStep

\* Rows get to PROCESSING by the claiming UPDATE and in no other way.
LEMMA OnlyClaimClaims ==
    ASSUME ClaimInv, [Next]_vars, NEW row \in Emails,
           status[row] \in Claimable, status'[row] = "PROCESSING"
    PROVE  \E s \in Slots : Claim(s) /\ Row(cur[s]) = row
<1> DEFINE Claimed == \E t \in Slots : Claim(t) /\ Row(cur[t]) = row
<1> USE DEF ClaimInv, TypeOK, EmailOf, Claimable, postgres, tables
<1>1. ASSUME NEW s \in Slots, Take(s) PROVE Claimed
  BY <1>1 DEF Take
<1>2. ASSUME NEW s \in Slots, ReadCampaign(s) PROVE Claimed
  BY <1>2 DEF ReadCampaign
<1>3. ASSUME NEW s \in Slots, CancelRow(s) PROVE Claimed
  BY <1>3 DEF CancelRow, SetStatus
<1>4. ASSUME NEW s \in Slots, Claim(s) PROVE Claimed
  BY <1>4 DEF Claim, SetStatus
<1>5. ASSUME NEW s \in Slots, CheckLimit(s) PROVE Claimed
  BY <1>5 DEF CheckLimit
<1>6. ASSUME NEW s \in Slots, Defer(s) PROVE Claimed
  BY <1>6 DEF Defer, SetStatus
<1>7. ASSUME NEW s \in Slots, Requeue(s) PROVE Claimed
  BY <1>7 DEF Requeue
<1>8. ASSUME NEW s \in Slots, SelectSender(s) PROVE Claimed
  BY <1>8 DEF SelectSender
<1>9. ASSUME NEW s \in Slots, NoSender(s) PROVE Claimed
  BY <1>9 DEF NoSender, SetStatus, StatusAfterFailure
<1>10. ASSUME NEW s \in Slots, Send(s) PROVE Claimed
  BY <1>10 DEF Send
<1>11. ASSUME NEW s \in Slots, Record(s) PROVE Claimed
  BY <1>11 DEF Record, SetStatus, CommitSent
<1>12. ASSUME NEW s \in Slots, Catch(s) PROVE Claimed
  BY <1>12 DEF Catch, SetStatus, StatusAfterFailure
<1>13. ASSUME NEW s \in Slots, CountFail(s) PROVE Claimed
  BY <1>13 DEF CountFail
<1>14. ASSUME NEW s \in Slots, Complete(s) PROVE Claimed
  BY <1>14 DEF Complete, Finish
<1>15. ASSUME NEW s \in Slots, FailJob(s) PROVE Claimed
  BY <1>15 DEF FailJob, Finish
<1>16. ASSUME NEW s \in Slots, SendFails(s) PROVE Claimed
  BY <1>16 DEF SendFails
<1>17. ASSUME NEW s \in Slots, SendReplyLost(s) PROVE Claimed
  BY <1>17 DEF SendReplyLost
<1>18. ASSUME NEW s \in Slots, RecordFails(s) PROVE Claimed
  BY <1>18 DEF RecordFails, SetStatus, CommitSent
<1>19. ASSUME NEW s \in Slots, DbFails(s) PROVE Claimed
  BY <1>19 DEF DbFails
<1>20. ASSUME NEW s \in Slots, RedisFails(s) PROVE Claimed
  BY <1>20 DEF RedisFails
<1>21. ASSUME NEW s \in Slots, LockLoss(s) PROVE Claimed
  BY <1>21 DEF LockLoss
<1>22. ASSUME NEW j \in JobIds, Stalled(j) PROVE Claimed
  BY <1>22 DEF Stalled
<1>23. ASSUME NEW j \in JobIds, Evict(j) PROVE Claimed
  BY <1>23 DEF Evict
<1>24. ASSUME NEW p \in Procs, Crash(p) PROVE Claimed
  BY <1>24 DEF Crash, Die
<1>25. ASSUME NEW p \in Procs, Close(p) PROVE Claimed
  BY <1>25 DEF Close
<1>26. ASSUME NEW p \in Procs, Exit(p) PROVE Claimed
  BY <1>26 DEF Exit, Die
<1>27. ASSUME NEW p \in Procs, Start(p) PROVE Claimed
  BY <1>27 DEF Start
<1>28. ASSUME NEW p \in Procs, ReconcileRead(p) PROVE Claimed
  BY <1>28 DEF ReconcileRead
<1>29. ASSUME NEW p \in Procs, ReconcileRow(p) PROVE Claimed
  BY <1>29 DEF ReconcileRow
<1>30. ASSUME NEW p \in Procs, ReconcileDone(p) PROVE Claimed
  BY <1>30 DEF ReconcileDone
<1>31. ASSUME NEW p \in Procs, NEW c \in Campaigns, CreateCampaign(p, c) PROVE Claimed
  BY <1>31 DEF CreateCampaign
<1>32. ASSUME NEW p \in Procs, NEW e \in Emails, Enqueue(p, e) PROVE Claimed
  BY <1>32 DEF Enqueue
<1>33. ASSUME NEW p \in Procs, NEW e \in Emails, EnqueueFails(p, e) PROVE Claimed
  BY <1>33 DEF EnqueueFails
<1>34. ASSUME NEW c \in Campaigns, CancelRequest(c) PROVE Claimed
  BY <1>34 DEF CancelRequest
<1>35. ASSUME NEW c \in Campaigns, CancelCommit(c) PROVE Claimed
  BY <1>35 DEF CancelCommit
<1>36. ASSUME NEW b \in BOOLEAN, SetSender(b) PROVE Claimed
  BY <1>36 DEF SetSender
<1>37. ASSUME Tick PROVE Claimed
  BY <1>37 DEF Tick
<1>38. ASSUME UNCHANGED vars PROVE Claimed
  BY <1>38 DEF vars
<1> QED
  BY <1>1, <1>2, <1>3, <1>4, <1>5, <1>6, <1>7, <1>8, <1>9, <1>10, <1>11, <1>12, <1>13,
     <1>14, <1>15, <1>16, <1>17, <1>18, <1>19, <1>20, <1>21, <1>22, <1>23, <1>24, <1>25,
     <1>26, <1>27, <1>28, <1>29, <1>30, <1>31, <1>32, <1>33, <1>34, <1>35, <1>36, <1>37,
     <1>38
     DEF Next, HandlerStep, HandlerFault, ProcessStep, ApiStep

\* No email of a cancelled campaign is claimed, although the campaign's status is
\* read in one statement and the row is claimed in another, and whatever database
\* statements, Redis calls or enqueues fail in between (worker/index.ts:27-49,
\* api/routes/campaigns.ts:216-231).
THEOREM ClaimsRespectCancel ==
    ASSUME Budget["crash"] = 0, Budget["shutdown"] = 0, Budget["lock"] = 0
    PROVE  Spec => NoClaimAfterCancel
<1>1. Init => ClaimsCurrent
  BY DEF Init, ClaimsCurrent
<1>2. JobInv /\ ClaimsCurrent /\ [Next]_vars
        => [\A e \in Emails : status[e] \in Claimable /\ status'[e] = "PROCESSING"
              => campaign[CampaignOf[e]] = "ACTIVE"]_vars
  <2> SUFFICES ASSUME JobInv, ClaimsCurrent, [Next]_vars, NEW e \in Emails,
                      status[e] \in Claimable, status'[e] = "PROCESSING"
               PROVE  campaign[CampaignOf[e]] = "ACTIVE"
    OBVIOUS
  <2>1. PICK s \in Slots : Claim(s) /\ Row(cur[s]) = e
    BY OnlyClaimClaims DEF JobInv
  <2> QED
    BY <2>1 DEF Claim, ClaimsCurrent
<1> QED
  BY <1>1, <1>2, ClaimsCurrentNext, JobCorrect, PTL DEF Spec, NoClaimAfterCancel

-----------------------------------------------------------------------------
(* No row is stranded *)

NoCallFails == left["db"] = 0 /\ left["redis"] = 0 /\ left["enqueue"] = 0

LEMMA NextUnused ==
    ASSUME JobInv, NEW s \in Slots, pc[s] = "requeue",
           RescheduleCount(cur[s]) < MaxReschedules
    PROVE  jobs[DeferredJob(Row(cur[s]), RescheduleCount(cur[s]) + 1)].st = "none"
<1>1. PICK new : new = DeferredJob(Row(cur[s]), RescheduleCount(cur[s]) + 1)
  OBVIOUS
<1>2. Busy(s) /\ cur[s] \in JobIds
  BY HandlerFacts DEF Busy
<1>3. /\ new \in JobIds /\ Row(new) = Row(cur[s])
      /\ new[2] = "r" /\ new[3] = RescheduleCount(cur[s]) + 1
      /\ RescheduleCount(cur[s]) \in Nat
  BY <1>1, <1>2, NextJob, JobFacts
<1>4. NumbersUnused(cur[s])
  BY <1>2 DEF JobInv, QueueInv, NumbersFresh
<1> QED
  BY <1>1, <1>3, <1>4 DEF NumbersUnused

LEMMA FutureKept ==
    ASSUME NEW row \in Emails, HasFuture(row),
           \A p \in Procs : row \in toEnqueue[p] => row \in toEnqueue'[p],
           \A j \in JobIds : Waits(j) => Waits(j)',
           \A s \in Slots : WillReturn(s, row) => WillReturn(s, row)'
    PROVE  HasFuture(row)'
  BY DEF HasFuture, Waits

\* A step of handler s that does not touch the queue: the row's future may lie
\* with s only at the steps that lead on.
LEMMA HandlerMoves ==
    ASSUME TypeOK, NEW row \in Emails, HasFuture(row), NEW s \in Slots, NEW step,
           pc' = [pc EXCEPT ![s] = step], UNCHANGED <<cur, made, jobs, toEnqueue>>,
           WillReturn(s, row) => step \in {"lookup", "claim", "requeue"}
    PROVE  HasFuture(row)'
<1>1. \A t \in Slots : WillReturn(t, row) => WillReturn(t, row)'
  BY DEF WillReturn, EmailOf, IsFinalAttempt, TypeOK
<1> QED
  BY <1>1, FutureKept DEF Waits

\* A handler that releases its row comes back for it.
LEMMA HandlerReleases ==
    ASSUME TypeOK, NEW s \in Slots, NEW row, EmailOf(s) = row, NEW step,
           pc' = [pc EXCEPT ![s] = step], UNCHANGED <<cur, made>>,
           step = "requeue" \/ (step = "throw" /\ ~IsFinalAttempt(s))
    PROVE  HasFuture(row)'
  BY DEF HasFuture, WillReturn, EmailOf, IsFinalAttempt, TypeOK

LEMMA NoOrphanNext == JobInv /\ NoCallFails /\ NoOrphan /\ [Next]_vars => NoOrphan'
<1> SUFFICES ASSUME JobInv, NoCallFails, NoOrphan, [Next]_vars, NEW row \in Emails,
                    status'[row] \in Claimable, campaign'[CampaignOf[row]] = "ACTIVE"
             PROVE  HasFuture(row)'
  BY DEF NoOrphan
<1>a. status[row] \in Claimable /\ campaign[CampaignOf[row]] = "ACTIVE" => HasFuture(row)
  BY DEF NoOrphan
<1> USE DEF JobInv, ClaimInv, TypeOK, Claimable, postgres, tables, counters, redis, handlers, process, outside
<1>1. ASSUME NEW s \in Slots, Take(s) PROVE HasFuture(row)'
  <2>1. PICK j \in JobIds : /\ jobs[j].st = "queued"
                            /\ jobs' = [jobs EXCEPT ![j].st = "active"]
                            /\ cur' = [cur EXCEPT ![s] = j]
    BY <1>1 DEF Take
  <2>2. /\ HasFuture(row) /\ toEnqueue' = toEnqueue
        /\ pc[s] = "idle" /\ pc'[s] = "lookup" /\ cur'[s] = j
        /\ \A t \in Slots : t # s => pc'[t] = pc[t] /\ cur'[t] = cur[t] /\ made'[t] = made[t]
        /\ \A k \in JobIds : k # j => jobs'[k] = jobs[k]
    BY <1>1, <1>a, <2>1 DEF Take
  <2>3. CASE Row(j) = row
    BY <2>2, <2>3 DEF HasFuture, WillReturn, EmailOf
  <2>4. CASE Row(j) # row
    BY <2>2, <2>4 DEF HasFuture, WillReturn, EmailOf, IsFinalAttempt
  <2> QED
    BY <2>3, <2>4
<1>2. ASSUME NEW s \in Slots, ReadCampaign(s) PROVE HasFuture(row)'
  <2>1. CASE EmailOf(s) = row
    <3>1. pc' = [pc EXCEPT ![s] = "claim"]
      BY <1>2, <2>1 DEF ReadCampaign, Goto, CampaignOfJob
    <3>2. HasFuture(row) /\ UNCHANGED <<cur, made, jobs, toEnqueue>>
      BY <1>2, <1>a DEF ReadCampaign, Goto
    <3> QED
      BY <3>1, <3>2, HandlerMoves
  <2>2. CASE EmailOf(s) # row
    BY <1>2, <1>a, <2>2, HandlerMoves DEF ReadCampaign, Goto, WillReturn
  <2> QED
    BY <2>1, <2>2
<1>3. ASSUME NEW s \in Slots, CancelRow(s) PROVE HasFuture(row)'
  BY <1>3, <1>a, HandlerMoves DEF CancelRow, Goto, SetStatus, WillReturn
<1>4. ASSUME NEW s \in Slots, Claim(s) PROVE HasFuture(row)'
  <2>1. EmailOf(s) \in Emails /\ pc[s] = "claim"
    BY <1>4, HandlerFacts DEF Claim
  <2>2. EmailOf(s) # row /\ HasFuture(row)
    BY <1>4, <1>a, <2>1 DEF Claim, SetStatus
  <2> QED
    BY <1>4, <2>2, HandlerMoves DEF Claim, Goto, WillReturn
<1>5. ASSUME NEW s \in Slots, CheckLimit(s) PROVE HasFuture(row)'
  BY <1>5, <1>a, HandlerMoves DEF CheckLimit, Goto, WillReturn
<1>6. ASSUME NEW s \in Slots, Defer(s) PROVE HasFuture(row)'
  <2>1. EmailOf(s) \in Emails /\ pc[s] # "idle"
    BY <1>6, HandlerFacts DEF Defer
  <2>2. CASE EmailOf(s) = row
    BY <1>6, <2>1, <2>2, HandlerReleases DEF Defer, Goto, SetStatus
  <2>3. CASE EmailOf(s) # row
    <3>1. HasFuture(row)
      BY <1>6, <1>a, <2>1, <2>3 DEF Defer, SetStatus
    <3> QED
      BY <1>6, <2>3, <3>1, HandlerMoves DEF Defer, Goto, WillReturn
  <2> QED
    BY <2>2, <2>3
<1>7. ASSUME NEW s \in Slots, Requeue(s) PROVE HasFuture(row)'
  <2>1. PICK new : new = DeferredJob(Row(cur[s]), RescheduleCount(cur[s]) + 1)
    OBVIOUS
  <2>2. pc[s] = "requeue" /\ cur[s] \in JobIds
    BY <1>7, HandlerFacts DEF Requeue
  <2>3. new \in JobIds /\ Row(new) = EmailOf(s) /\ jobs[new].st = "none"
    BY <1>7, <2>1, <2>2, NextJob, NextUnused DEF Requeue, EmailOf
  <2>4. /\ Waits(new)'
        /\ \A k \in JobIds : k # new => jobs'[k] = jobs[k]
    <3>1. PICK st \in {"queued", "deferred"} : AddJob(new, st)
      BY <1>7, <2>1 DEF Requeue, EmailOf
    <3> QED
      BY <2>3, <3>1, AddFresh DEF Waits
  <2>5. CASE EmailOf(s) = row
    BY <2>3, <2>4, <2>5 DEF HasFuture, Waits
  <2>6. CASE EmailOf(s) # row
    <3>1. \A t \in Slots : WillReturn(t, row) => t # s /\ pc'[t] = pc[t] /\ cur'[t] = cur[t] /\ made'[t] = made[t]
      BY <1>7, <2>6 DEF Requeue, Goto, WillReturn
    <3>2. \A t \in Slots : WillReturn(t, row) => WillReturn(t, row)'
      BY <3>1 DEF WillReturn, EmailOf, IsFinalAttempt
    <3>3. \A k \in JobIds : Waits(k) => Waits(k)'
      BY <2>3, <2>4 DEF Waits
    <3> QED
      BY <1>7, <1>a, <3>2, <3>3, FutureKept DEF Requeue
  <2> QED
    BY <2>5, <2>6
<1>8. ASSUME NEW s \in Slots, SelectSender(s) PROVE HasFuture(row)'
  BY <1>8, <1>a, HandlerMoves DEF SelectSender, Goto, WillReturn
<1>9. ASSUME NEW s \in Slots, NoSender(s) PROVE HasFuture(row)'
  <2>1. EmailOf(s) \in Emails /\ pc[s] # "idle"
    BY <1>9, HandlerFacts DEF NoSender
  <2>2. CASE EmailOf(s) = row
    BY <1>9, <2>1, <2>2, HandlerReleases DEF NoSender, Goto, SetStatus, StatusAfterFailure
  <2>3. CASE EmailOf(s) # row
    <3>1. HasFuture(row)
      BY <1>9, <1>a, <2>1, <2>3 DEF NoSender, SetStatus
    <3> QED
      BY <1>9, <2>3, <3>1, HandlerMoves DEF NoSender, Goto, WillReturn
  <2> QED
    BY <2>2, <2>3
<1>10. ASSUME NEW s \in Slots, Send(s) PROVE HasFuture(row)'
  BY <1>10, <1>a, HandlerMoves DEF Send, Goto, WillReturn
<1>11. ASSUME NEW s \in Slots, Record(s) PROVE HasFuture(row)'
  BY <1>11, <1>a, HandlerMoves DEF Record, Goto, SetStatus, CommitSent, WillReturn
<1>12. ASSUME NEW s \in Slots, Catch(s) PROVE HasFuture(row)'
  <2>1. EmailOf(s) \in Emails /\ pc[s] # "idle"
    BY <1>12, HandlerFacts DEF Catch
  <2>2. CASE EmailOf(s) = row
    BY <1>12, <2>1, <2>2, HandlerReleases DEF Catch, Goto, SetStatus, StatusAfterFailure
  <2>3. CASE EmailOf(s) # row
    <3>1. HasFuture(row)
      BY <1>12, <1>a, <2>1, <2>3 DEF Catch, SetStatus
    <3> QED
      BY <1>12, <2>3, <3>1, HandlerMoves DEF Catch, Goto, WillReturn
  <2> QED
    BY <2>2, <2>3
<1>13. ASSUME NEW s \in Slots, CountFail(s) PROVE HasFuture(row)'
  BY <1>13, <1>a, HandlerMoves DEF CountFail, Goto, WillReturn
<1>14. ASSUME NEW s \in Slots, Complete(s) PROVE HasFuture(row)'
  <2>1. pc[s] = "done" /\ lock[s] = TRUE /\ cur[s] \in JobIds /\ jobs[cur[s]].st = "active"
    BY <1>14, HandlerFacts DEF Complete
  <2>2. \A k \in JobIds : Waits(k) => Waits(k)'
    BY <1>14, <2>1 DEF Complete, Finish, Waits
  <2>3. \A t \in Slots : WillReturn(t, row) => WillReturn(t, row)'
    BY <1>14, <2>1 DEF Complete, Finish, WillReturn, EmailOf, IsFinalAttempt
  <2> QED
    BY <1>14, <1>a, <2>2, <2>3, FutureKept DEF Complete, Finish
<1>15. ASSUME NEW s \in Slots, FailJob(s) PROVE HasFuture(row)'
  <2> DEFINE st == IF made[s] + 1 < Attempts THEN "queued" ELSE "failed"
  <2>1. pc[s] = "throw" /\ lock[s] = TRUE /\ cur[s] \in JobIds /\ jobs[cur[s]].st = "active"
    BY <1>15, HandlerFacts DEF FailJob
  <2>2. /\ jobs'[cur[s]].st = st
        /\ \A k \in JobIds : k # cur[s] => jobs'[k] = jobs[k]
    BY <1>15, <2>1 DEF FailJob, Finish, Job
  <2>3. CASE WillReturn(s, row)
    <3>1. st = "queued" /\ Row(cur[s]) = row
      BY <2>1, <2>3 DEF WillReturn, IsFinalAttempt, EmailOf
    <3> QED
      BY <2>1, <2>2, <3>1 DEF HasFuture
  <2>4. CASE ~WillReturn(s, row)
    <3>1. \A k \in JobIds : Waits(k) => Waits(k)'
      BY <2>1, <2>2 DEF Waits
    <3>2. \A t \in Slots : t # s => pc'[t] = pc[t] /\ cur'[t] = cur[t] /\ made'[t] = made[t]
      BY <1>15 DEF FailJob, Finish
    <3>3. \A t \in Slots : WillReturn(t, row) => WillReturn(t, row)'
      BY <2>4, <3>2 DEF WillReturn, EmailOf, IsFinalAttempt
    <3> QED
      BY <1>15, <1>a, <3>1, <3>3, FutureKept DEF FailJob, Finish
  <2> QED
    BY <2>3, <2>4
<1>16. ASSUME NEW s \in Slots, SendFails(s) PROVE HasFuture(row)'
  BY <1>16, <1>a, HandlerMoves DEF SendFails, Goto, WillReturn
<1>17. ASSUME NEW s \in Slots, SendReplyLost(s) PROVE HasFuture(row)'
  BY <1>17, <1>a, HandlerMoves DEF SendReplyLost, Goto, WillReturn
<1>18. ASSUME NEW s \in Slots, RecordFails(s) PROVE HasFuture(row)'
  BY <1>18 DEF RecordFails, NoCallFails, Spend
<1>19. ASSUME NEW s \in Slots, DbFails(s) PROVE HasFuture(row)'
  BY <1>19 DEF DbFails, NoCallFails, Spend
<1>20. ASSUME NEW s \in Slots, RedisFails(s) PROVE HasFuture(row)'
  BY <1>20 DEF RedisFails, NoCallFails, Spend
<1>21. ASSUME NEW s \in Slots, LockLoss(s) PROVE HasFuture(row)'
  BY <1>21 DEF LockLoss, Uninterrupted, Spend
<1>22. ASSUME NEW j \in JobIds, Stalled(j) PROVE HasFuture(row)'
  <2>1. \A k \in JobIds : Waits(k) => Waits(k)'
    BY <1>22 DEF Stalled, Waits
  <2> QED
    BY <1>22, <1>a, <2>1, FutureKept DEF Stalled, WillReturn, IsFinalAttempt, EmailOf
<1>23. ASSUME NEW j \in JobIds, Evict(j) PROVE HasFuture(row)'
  <2>1. \A k \in JobIds : Waits(k) => Waits(k)'
    BY <1>23 DEF Evict, Waits
  <2> QED
    BY <1>23, <1>a, <2>1, FutureKept DEF Evict, WillReturn, IsFinalAttempt, EmailOf
<1>24. ASSUME NEW p \in Procs, Crash(p) PROVE HasFuture(row)'
  BY <1>24 DEF Crash, Uninterrupted, Spend
<1>25. ASSUME NEW p \in Procs, Close(p) PROVE HasFuture(row)'
  BY <1>25 DEF Close, Uninterrupted, Spend
<1>26. ASSUME NEW p \in Procs, Exit(p) PROVE HasFuture(row)'
  BY <1>26 DEF Exit, Uninterrupted
<1>27. ASSUME NEW p \in Procs, Start(p) PROVE HasFuture(row)'
  BY <1>27 DEF Start, Uninterrupted
<1>28. ASSUME NEW p \in Procs, ReconcileRead(p) PROVE HasFuture(row)'
  BY <1>28 DEF ReconcileRead, Uninterrupted
<1>29. ASSUME NEW p \in Procs, ReconcileRow(p) PROVE HasFuture(row)'
  BY <1>29 DEF ReconcileRow, Uninterrupted
<1>30. ASSUME NEW p \in Procs, ReconcileDone(p) PROVE HasFuture(row)'
  BY <1>30 DEF ReconcileDone, Uninterrupted
<1>31. ASSUME NEW p \in Procs, NEW c \in Campaigns, CreateCampaign(p, c) PROVE HasFuture(row)'
  <2>1. CASE CampaignOf[row] = c
    BY <1>31, <2>1 DEF CreateCampaign, HasFuture
  <2>2. CASE CampaignOf[row] # c
    <3>1. HasFuture(row)
      BY <1>31, <1>a, <2>2 DEF CreateCampaign
    <3>2. /\ \A q \in Procs : toEnqueue[q] \subseteq toEnqueue'[q]
          /\ \A k \in JobIds : Waits(k) => Waits(k)'
      BY <1>31 DEF CreateCampaign, Waits
    <3>3. \A t \in Slots : WillReturn(t, row) => WillReturn(t, row)'
      BY <1>31 DEF CreateCampaign, WillReturn, IsFinalAttempt, EmailOf
    <3> QED
      BY <3>1, <3>2, <3>3, FutureKept
  <2> QED
    BY <2>1, <2>2
<1>32. ASSUME NEW p \in Procs, NEW e \in Emails, Enqueue(p, e) PROVE HasFuture(row)'
  <2> DEFINE new == BaseJob(e)
  <2>1. new \in JobIds /\ Row(new) = e /\ jobs[new].st = "none"
    BY <1>32, BaseFacts DEF Enqueue, QueueInv, NewRows
  <2>2. AddJob(new, "queued")
    BY <1>32 DEF Enqueue
  <2> HIDE DEF new
  <2>3. /\ jobs'[new].st = "queued"
        /\ \A k \in JobIds : k # new => jobs'[k] = jobs[k]
    BY <2>1, <2>2, AddFresh
  <2>4. CASE e = row
    BY <2>1, <2>3, <2>4 DEF HasFuture
  <2>5. CASE e # row
    <3>1. \A q \in Procs : row \in toEnqueue[q] => row \in toEnqueue'[q]
      BY <1>32, <2>5 DEF Enqueue
    <3>2. \A k \in JobIds : Waits(k) => Waits(k)'
      BY <2>1, <2>3 DEF Waits
    <3>3. \A t \in Slots : WillReturn(t, row) => WillReturn(t, row)'
      BY <1>32 DEF Enqueue, WillReturn, IsFinalAttempt, EmailOf
    <3> QED
      BY <1>32, <1>a, <3>1, <3>2, <3>3, FutureKept DEF Enqueue
  <2> QED
    BY <2>4, <2>5
<1>33. ASSUME NEW p \in Procs, NEW e \in Emails, EnqueueFails(p, e) PROVE HasFuture(row)'
  BY <1>33 DEF EnqueueFails, NoCallFails, Spend
<1>34. ASSUME NEW c \in Campaigns, CancelRequest(c) PROVE HasFuture(row)'
  BY <1>34, <1>a, FutureKept DEF CancelRequest, Waits, WillReturn, IsFinalAttempt, EmailOf
<1>35. ASSUME NEW c \in Campaigns, CancelCommit(c) PROVE HasFuture(row)'
  BY <1>35, <1>a, FutureKept DEF CancelCommit, Waits, WillReturn, IsFinalAttempt, EmailOf
<1>36. ASSUME NEW b \in BOOLEAN, SetSender(b) PROVE HasFuture(row)'
  BY <1>36, <1>a, FutureKept DEF SetSender, Waits, WillReturn, IsFinalAttempt, EmailOf
<1>37. ASSUME Tick PROVE HasFuture(row)'
  <2>1. \A k \in JobIds : Waits(k) => Waits(k)'
    <3> SUFFICES ASSUME NEW k \in JobIds, Waits(k) PROVE jobs'[k].st = "queued"
      BY DEF Waits
    <3>1. CASE jobs[k].st = "deferred"
      BY <1>37, <3>1 DEF Tick, Job
    <3>2. CASE jobs[k].st # "deferred"
      BY <1>37, <3>2 DEF Tick, Waits
    <3> QED
      BY <3>1, <3>2
  <2> QED
    BY <1>37, <1>a, <2>1, FutureKept DEF Tick, WillReturn, IsFinalAttempt, EmailOf
<1>38. ASSUME UNCHANGED vars PROVE HasFuture(row)'
  BY <1>38, <1>a, FutureKept DEF vars, Waits, WillReturn, IsFinalAttempt, EmailOf
<1> QED
  BY <1>1, <1>2, <1>3, <1>4, <1>5, <1>6, <1>7, <1>8, <1>9, <1>10, <1>11, <1>12, <1>13,
     <1>14, <1>15, <1>16, <1>17, <1>18, <1>19, <1>20, <1>21, <1>22, <1>23, <1>24, <1>25,
     <1>26, <1>27, <1>28, <1>29, <1>30, <1>31, <1>32, <1>33, <1>34, <1>35, <1>36, <1>37,
     <1>38
     DEF Next, HandlerStep, HandlerFault, ProcessStep, ApiStep

LEMMA NoCallFailsNext == JobInv /\ NoCallFails /\ [Next]_vars => NoCallFails'
  BY SpentStays DEF NoCallFails, JobInv, ClaimInv, Kinds

\* Without faults no email is stranded, however long it is deferred, rejected and
\* retried: a waiting row of an active campaign has a job, or a handler that will
\* add one (worker/index.ts:59-76, 78-97, 127-148; lib/queue.ts:60-80).
THEOREM NoneStranded ==
    ASSUME Budget["crash"] = 0, Budget["shutdown"] = 0, Budget["lock"] = 0,
           Budget["db"] = 0, Budget["redis"] = 0, Budget["enqueue"] = 0
    PROVE  Spec => []NoOrphan
<1>1. Init => NoOrphan /\ NoCallFails
  BY DEF Init, NoOrphan, NoCallFails, Claimable
<1> QED
  BY <1>1, NoOrphanNext, NoCallFailsNext, JobCorrect, PTL DEF Spec

\* What the rate limit defers is not dropped (README.md, "Over-limit emails are
\* never dropped"), as long as no process ends and no call fails.
THEOREM DeferredKept ==
    ASSUME Budget["crash"] = 0, Budget["shutdown"] = 0, Budget["lock"] = 0,
           Budget["db"] = 0, Budget["redis"] = 0, Budget["enqueue"] = 0
    PROVE  Spec => []DeferredNotDropped
<1>1. NoOrphan => DeferredNotDropped
  BY DEF NoOrphan, DeferredNotDropped, Claimable
<1> QED
  BY <1>1, NoneStranded, PTL

=============================================================================
