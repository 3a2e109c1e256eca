------------------------- MODULE EmailDispatch_proofs -------------------------
(* Theorems about EmailDispatch, for every value of its constants. *)
EXTENDS EmailDispatchProps, CardinalityLemmas, TLAPS

USE DispatchAssumption

-----------------------------------------------------------------------------
(* Job ids and slots *)

LEMMA JobFacts ==
    /\ \A j \in JobIds : Row(j) \in Emails /\ RescheduleCount(j) \in Nat
    /\ \A e \in Emails : BaseJob(e) \in JobIds
    /\ \A e \in Emails : \A n \in 1..MaxReschedules : DeferredJob(e, n) \in JobIds
    /\ \A e \in Emails : \A n \in 1..Budget["restart"] : RecoveryJob(e, n) \in JobIds
<1>1. Budget["restart"] \in Nat
  BY DEF Kinds
<1> QED
  BY <1>1 DEF JobIds, Row, RescheduleCount, BaseJob, DeferredJob, RecoveryJob

LEMMA SlotFacts == \A s \in Slots : Host(s) \in Procs
  BY DEF Slots, Host

-----------------------------------------------------------------------------
(* Types *)

LEMMA TypeInit == Init => TypeOK
<1> SUFFICES ASSUME Init PROVE TypeOK
  OBVIOUS
<1> QED
  BY DEF Init, TypeOK, Statuses, Job, Absent, JobStates, Steps, Claimable, Terminal, MaxStalledCount

\* Live jobs have attempts left: the part of TypeOK about the queue.
LiveJobs == \A j \in JobIds :
    jobs[j].st \in {"queued", "deferred", "active"} => jobs[j].made < Attempts

LEMMA AddJobType ==
    ASSUME jobs \in [JobIds -> Job], LiveJobs,
           NEW j \in JobIds, NEW st \in JobStates, AddJob(j, st)
    PROVE  jobs' \in [JobIds -> Job] /\ LiveJobs'
<1> DEFINE new == [Absent EXCEPT !.st = st]
<1>1. new \in Job /\ new.made = 0
  BY DEF Absent, Job, MaxStalledCount
<1> HIDE DEF new
<1>2. jobs' = IF jobs[j].st = "none" THEN [jobs EXCEPT ![j] = new] ELSE jobs
  BY DEF AddJob, new
<1>3. CASE jobs[j].st = "none"
  BY <1>1, <1>2, <1>3 DEF LiveJobs
<1>4. CASE jobs[j].st # "none"
  BY <1>2, <1>4 DEF LiveJobs
<1> QED
  BY <1>3, <1>4

\* When a process ends, its handlers are idle and have neither job nor lock.
HandlerType ==
    /\ pc \in [Slots -> Steps]
    /\ cur \in [Slots -> JobIds \cup {NoJob}]
    /\ made \in [Slots -> 0..(Attempts - 1)]
    /\ lock \in [Slots -> BOOLEAN]
    /\ \A s \in Slots : (pc[s] = "idle") <=> (cur[s] = NoJob)

LEMMA DieType ==
    ASSUME HandlerType, NEW p \in Procs, Die(p)
    PROVE  HandlerType'
<1>1. pc' \in [Slots -> Steps]
  BY DEF HandlerType, Die, Steps
<1>2. cur' \in [Slots -> JobIds \cup {NoJob}]
  BY DEF HandlerType, Die
<1>3. made' \in [Slots -> 0..(Attempts - 1)]
  BY DEF HandlerType, Die
<1>4. lock' \in [Slots -> BOOLEAN]
  BY DEF HandlerType, Die
<1>5. \A s \in Slots : (pc'[s] = "idle") <=> (cur'[s] = NoJob)
  BY DEF HandlerType, Die
<1> QED
  BY <1>1, <1>2, <1>3, <1>4, <1>5 DEF HandlerType

LEMMA TypeNext == TypeOK /\ [Next]_vars => TypeOK'
<1> SUFFICES ASSUME TypeOK, [Next]_vars PROVE TypeOK'
  OBVIOUS
<1> USE DEF TypeOK, postgres, tables, counters, redis, handlers, process, outside
<1>1. ASSUME NEW s \in Slots, Take(s) PROVE TypeOK'
  BY <1>1 DEF Take, Job, JobStates, Steps
<1>2. ASSUME NEW s \in Slots, ReadCampaign(s) PROVE TypeOK'
  BY <1>2 DEF ReadCampaign, Goto, Steps
<1>3. ASSUME NEW s \in Slots, CancelRow(s) PROVE TypeOK'
  BY <1>3, JobFacts DEF CancelRow, Goto, Steps, SetStatus, Statuses, Terminal, EmailOf
<1>4. ASSUME NEW s \in Slots, Claim(s) PROVE TypeOK'
  BY <1>4, JobFacts DEF Claim, Goto, Steps, SetStatus, Statuses, EmailOf
<1>5. ASSUME NEW s \in Slots, CheckLimit(s) PROVE TypeOK'
  <2>1. CampaignOfJob(s) \in Campaigns
    BY <1>5, JobFacts DEF CheckLimit, CampaignOfJob, EmailOf
  <2>2. CASE used[CampaignOfJob(s)] < MaxPerHour
    BY <1>5, <2>1, <2>2 DEF CheckLimit, Goto, Steps
  <2>3. CASE ~(used[CampaignOfJob(s)] < MaxPerHour)
    BY <1>5, <2>3 DEF CheckLimit, Goto, Steps
  <2> QED
    BY <2>2, <2>3
<1>6. ASSUME NEW s \in Slots, Defer(s) PROVE TypeOK'
  BY <1>6, JobFacts DEF Defer, Goto, Steps, SetStatus, Statuses, Claimable, EmailOf
<1>7. ASSUME NEW s \in Slots, Requeue(s) PROVE TypeOK'
  <2>1. cur[s] \in JobIds /\ EmailOf(s) \in Emails
    BY <1>7, JobFacts DEF Requeue, EmailOf
  <2>2. RescheduleCount(cur[s]) + 1 \in 1..MaxReschedules
    BY <1>7, <2>1, JobFacts DEF Requeue
  <2>3. jobs' \in [JobIds -> Job] /\ LiveJobs'
    BY <1>7, <2>1, <2>2, JobFacts, AddJobType DEF Requeue, JobStates, LiveJobs
  <2> QED
    BY <1>7, <2>3 DEF Requeue, Goto, Steps, LiveJobs
<1>8. ASSUME NEW s \in Slots, SelectSender(s) PROVE TypeOK'
  BY <1>8 DEF SelectSender, Goto, Steps
<1>9. ASSUME NEW s \in Slots, NoSender(s) PROVE TypeOK'
  BY <1>9, JobFacts DEF NoSender, Goto, Steps, SetStatus, StatusAfterFailure,
       Statuses, Claimable, Terminal, EmailOf
<1>10. ASSUME NEW s \in Slots, Send(s) PROVE TypeOK'
  BY <1>10, JobFacts DEF Send, Goto, Steps, EmailOf
<1>11. ASSUME NEW s \in Slots, Record(s) PROVE TypeOK'
  BY <1>11, JobFacts DEF Record, Goto, Steps, CommitSent, SetStatus, Statuses,
       Terminal, EmailOf, CampaignOfJob
<1>12. ASSUME NEW s \in Slots, Catch(s) PROVE TypeOK'
  BY <1>12, JobFacts DEF Catch, Goto, Steps, SetStatus, StatusAfterFailure, Statuses,
       Claimable, Terminal, EmailOf
<1>13. ASSUME NEW s \in Slots, CountFail(s) PROVE TypeOK'
  BY <1>13, JobFacts DEF CountFail, Goto, Steps, EmailOf, CampaignOfJob
<1>14. ASSUME NEW s \in Slots, Complete(s) PROVE TypeOK'
  BY <1>14 DEF Complete, Finish, Job, JobStates, Steps
<1>15. ASSUME NEW s \in Slots, FailJob(s) PROVE TypeOK'
  BY <1>15 DEF FailJob, Finish, Job, JobStates, Steps
<1>16. ASSUME NEW s \in Slots, SendFails(s) PROVE TypeOK'
  BY <1>16 DEF SendFails, Goto, Steps, Spend, Kinds
<1>17. ASSUME NEW s \in Slots, SendReplyLost(s) PROVE TypeOK'
  BY <1>17, JobFacts DEF SendReplyLost, Goto, Steps, Spend, Kinds, EmailOf
<1>18. ASSUME NEW s \in Slots, RecordFails(s) PROVE TypeOK'
  <2>1. EmailOf(s) \in Emails /\ CampaignOfJob(s) \in Campaigns
    BY <1>18, JobFacts DEF RecordFails, CampaignOfJob, EmailOf
  <2>2. status' \in [Emails -> Statuses] /\ sentCount' \in [Campaigns -> Nat]
    BY <1>18, <2>1 DEF RecordFails, CommitSent, SetStatus, Statuses, Terminal
  <2> QED
    BY <1>18, <2>2 DEF RecordFails, Goto, Steps, Spend, Kinds
<1>19. ASSUME NEW s \in Slots, DbFails(s) PROVE TypeOK'
  BY <1>19 DEF DbFails, Goto, Steps, Spend, Kinds
<1>20. ASSUME NEW s \in Slots, RedisFails(s) PROVE TypeOK'
  BY <1>20 DEF RedisFails, Goto, Steps, Spend, Kinds
<1>21. ASSUME NEW s \in Slots, LockLoss(s) PROVE TypeOK'
  BY <1>21 DEF LockLoss, Spend, Kinds
<1>22. ASSUME NEW j \in JobIds, Stalled(j) PROVE TypeOK'
  BY <1>22 DEF Stalled, Job, JobStates, MaxStalledCount
<1>23. ASSUME NEW j \in JobIds, Evict(j) PROVE TypeOK'
  BY <1>23 DEF Evict, Absent, Job, JobStates, MaxStalledCount, Spend, Kinds
<1>24. ASSUME NEW p \in Procs, Crash(p) PROVE TypeOK'
  <2>1. HandlerType'
    BY <1>24, DieType DEF Crash, HandlerType
  <2>2. left' \in [Kinds -> Nat]
    BY <1>24 DEF Crash, Spend, Kinds
  <2>3. /\ proc' \in [Procs -> {"down", "starting", "reconciling", "up", "closing"}]
        /\ toEnqueue' \in [Procs -> SUBSET Emails]
        /\ pending' \in [Procs -> SUBSET [row : Emails, due : {"queued", "deferred"}]]
    BY <1>24 DEF Crash, Die
  <2> QED
    BY <1>24, <2>1, <2>2, <2>3 DEF Crash, Die, HandlerType
<1>25. ASSUME NEW p \in Procs, Close(p) PROVE TypeOK'
  BY <1>25 DEF Close, Spend, Kinds
<1>26. ASSUME NEW p \in Procs, Exit(p) PROVE TypeOK'
  <2>1. HandlerType'
    BY <1>26, DieType DEF Exit, HandlerType
  <2> QED
    BY <1>26, <2>1 DEF Exit, Die, HandlerType
<1>27. ASSUME NEW p \in Procs, Start(p) PROVE TypeOK'
  BY <1>27 DEF Start, Spend, Kinds
<1>28. ASSUME NEW p \in Procs, ReconcileRead(p) PROVE TypeOK'
  BY <1>28 DEF ReconcileRead
<1>29. ASSUME NEW p \in Procs, ReconcileRow(p) PROVE TypeOK'
  <2>1. PICK r \in pending[p] :
          /\ pending' = [pending EXCEPT ![p] = @ \ {r}]
          /\ IF HasBaseJob(r.row)
             THEN UNCHANGED jobs
             ELSE \E m \in 1..Budget["restart"] :
                    /\ jobs[RecoveryJob(r.row, m)].st = "none"
                    /\ AddJob(RecoveryJob(r.row, m), r.due)
    BY <1>29 DEF ReconcileRow
  <2>2. r.row \in Emails /\ r.due \in JobStates
    BY <2>1 DEF JobStates
  <2>3. jobs' \in [JobIds -> Job] /\ LiveJobs'
    BY <2>1, <2>2, JobFacts, AddJobType DEF LiveJobs
  <2> QED
    BY <1>29, <2>1, <2>3 DEF ReconcileRow, LiveJobs
<1>30. ASSUME NEW p \in Procs, ReconcileDone(p) PROVE TypeOK'
  BY <1>30 DEF ReconcileDone
<1>31. ASSUME NEW p \in Procs, NEW c \in Campaigns, CreateCampaign(p, c) PROVE TypeOK'
  BY <1>31 DEF CreateCampaign, Statuses, Claimable
<1>32. ASSUME NEW p \in Procs, NEW e \in Emails, Enqueue(p, e) PROVE TypeOK'
  <2>1. jobs' \in [JobIds -> Job] /\ LiveJobs'
    BY <1>32, JobFacts, AddJobType DEF Enqueue, JobStates, LiveJobs
  <2> QED
    BY <1>32, <2>1 DEF Enqueue, LiveJobs
<1>33. ASSUME NEW p \in Procs, NEW e \in Emails, EnqueueFails(p, e) PROVE TypeOK'
  BY <1>33 DEF EnqueueFails, Spend, Kinds
<1>34. ASSUME NEW c \in Campaigns, CancelRequest(c) PROVE TypeOK'
  BY <1>34 DEF CancelRequest, Spend, Kinds
<1>35. ASSUME NEW c \in Campaigns, CancelCommit(c) PROVE TypeOK'
  BY <1>35 DEF CancelCommit, Statuses, Terminal
<1>36. ASSUME NEW b \in BOOLEAN, SetSender(b) PROVE TypeOK'
  BY <1>36 DEF SetSender, Spend, Kinds
<1>37. CASE Tick
  <2>1. pending' \in [Procs -> SUBSET [row : Emails, due : {"queued", "deferred"}]]
    BY <1>37 DEF Tick
  <2>2. ASSUME NEW j \in JobIds
        PROVE  /\ jobs'[j] \in Job
               /\ jobs'[j].st \in {"queued", "deferred", "active"} => jobs'[j].made < Attempts
    <3>1. CASE jobs[j].st = "deferred"
      BY <1>37, <3>1 DEF Tick, Job, JobStates
    <3>2. CASE jobs[j].st # "deferred"
      BY <1>37, <3>2 DEF Tick
    <3> QED
      BY <3>1, <3>2
  <2>3. jobs' \in [JobIds -> Job]
    BY <1>37, <2>2 DEF Tick
  <2> QED
    BY <1>37, <2>1, <2>2, <2>3 DEF Tick
<1>38. CASE UNCHANGED vars
  BY <1>38 DEF vars
<1> HIDE DEF TypeOK
<1> QED
  BY <1>1, <1>2, <1>3, <1>4, <1>5, <1>6, <1>7, <1>8, <1>9, <1>10, <1>11, <1>12, <1>13,
     <1>14, <1>15, <1>16, <1>17, <1>18, <1>19, <1>20, <1>21, <1>22, <1>23, <1>24,
     <1>25, <1>26, <1>27, <1>28, <1>29, <1>30, <1>31, <1>32, <1>33, <1>34, <1>35,
     <1>36, <1>37, <1>38
     DEF Next, HandlerStep, HandlerFault, ProcessStep, ApiStep

\* Every variable keeps to its type, whatever fails and however often.
THEOREM TypeCorrect == Spec => []TypeOK
<1>1. Init => TypeOK
  BY TypeInit
<1>2. TypeOK /\ [Next]_vars => TypeOK'
  BY TypeNext
<1> QED
  BY <1>1, <1>2, PTL DEF Spec

\* No budget is ever refilled.
LEMMA SpentStays ==
    ASSUME TypeOK, [Next]_vars, NEW k \in Kinds, left[k] = 0
    PROVE  left'[k] = 0
<1> USE DEF TypeOK, Spend
<1>1. ASSUME NEW s \in Slots, Take(s) PROVE left'[k] = 0
  BY <1>1 DEF Take
<1>2. ASSUME NEW s \in Slots, ReadCampaign(s) PROVE left'[k] = 0
  BY <1>2 DEF ReadCampaign
<1>3. ASSUME NEW s \in Slots, CancelRow(s) PROVE left'[k] = 0
  BY <1>3 DEF CancelRow
<1>4. ASSUME NEW s \in Slots, Claim(s) PROVE left'[k] = 0
  BY <1>4 DEF Claim
<1>5. ASSUME NEW s \in Slots, CheckLimit(s) PROVE left'[k] = 0
  BY <1>5 DEF CheckLimit
<1>6. ASSUME NEW s \in Slots, Defer(s) PROVE left'[k] = 0
  BY <1>6 DEF Defer
<1>7. ASSUME NEW s \in Slots, Requeue(s) PROVE left'[k] = 0
  BY <1>7 DEF Requeue
<1>8. ASSUME NEW s \in Slots, SelectSender(s) PROVE left'[k] = 0
  BY <1>8 DEF SelectSender
<1>9. ASSUME NEW s \in Slots, NoSender(s) PROVE left'[k] = 0
  BY <1>9 DEF NoSender
<1>10. ASSUME NEW s \in Slots, Send(s) PROVE left'[k] = 0
  BY <1>10 DEF Send
<1>11. ASSUME NEW s \in Slots, Record(s) PROVE left'[k] = 0
  BY <1>11 DEF Record
<1>12. ASSUME NEW s \in Slots, Catch(s) PROVE left'[k] = 0
  BY <1>12 DEF Catch
<1>13. ASSUME NEW s \in Slots, CountFail(s) PROVE left'[k] = 0
  BY <1>13 DEF CountFail
<1>14. ASSUME NEW s \in Slots, Complete(s) PROVE left'[k] = 0
  BY <1>14 DEF Complete, Finish
<1>15. ASSUME NEW s \in Slots, FailJob(s) PROVE left'[k] = 0
  BY <1>15 DEF FailJob, Finish
<1>16. ASSUME NEW s \in Slots, SendFails(s) PROVE left'[k] = 0
  BY <1>16 DEF SendFails
<1>17. ASSUME NEW s \in Slots, SendReplyLost(s) PROVE left'[k] = 0
  BY <1>17 DEF SendReplyLost
<1>18. ASSUME NEW s \in Slots, RecordFails(s) PROVE left'[k] = 0
  BY <1>18 DEF RecordFails
<1>19. ASSUME NEW s \in Slots, DbFails(s) PROVE left'[k] = 0
  BY <1>19 DEF DbFails
<1>20. ASSUME NEW s \in Slots, RedisFails(s) PROVE left'[k] = 0
  BY <1>20 DEF RedisFails
<1>21. ASSUME NEW s \in Slots, LockLoss(s) PROVE left'[k] = 0
  BY <1>21 DEF LockLoss
<1>22. ASSUME NEW j \in JobIds, Stalled(j) PROVE left'[k] = 0
  BY <1>22 DEF Stalled
<1>23. ASSUME NEW j \in JobIds, Evict(j) PROVE left'[k] = 0
  BY <1>23 DEF Evict
<1>24. ASSUME NEW p \in Procs, Crash(p) PROVE left'[k] = 0
  BY <1>24 DEF Crash
<1>25. ASSUME NEW p \in Procs, Close(p) PROVE left'[k] = 0
  BY <1>25 DEF Close
<1>26. ASSUME NEW p \in Procs, Exit(p) PROVE left'[k] = 0
  BY <1>26 DEF Exit, Die
<1>27. ASSUME NEW p \in Procs, Start(p) PROVE left'[k] = 0
  BY <1>27 DEF Start
<1>28. ASSUME NEW p \in Procs, ReconcileRead(p) PROVE left'[k] = 0
  BY <1>28 DEF ReconcileRead
<1>29. ASSUME NEW p \in Procs, ReconcileRow(p) PROVE left'[k] = 0
  BY <1>29 DEF ReconcileRow
<1>30. ASSUME NEW p \in Procs, ReconcileDone(p) PROVE left'[k] = 0
  BY <1>30 DEF ReconcileDone
<1>31. ASSUME NEW p \in Procs, NEW c \in Campaigns, CreateCampaign(p, c) PROVE left'[k] = 0
  BY <1>31 DEF CreateCampaign
<1>32. ASSUME NEW p \in Procs, NEW e \in Emails, Enqueue(p, e) PROVE left'[k] = 0
  BY <1>32 DEF Enqueue
<1>33. ASSUME NEW p \in Procs, NEW e \in Emails, EnqueueFails(p, e) PROVE left'[k] = 0
  BY <1>33 DEF EnqueueFails
<1>34. ASSUME NEW c \in Campaigns, CancelRequest(c) PROVE left'[k] = 0
  BY <1>34 DEF CancelRequest
<1>35. ASSUME NEW c \in Campaigns, CancelCommit(c) PROVE left'[k] = 0
  BY <1>35 DEF CancelCommit
<1>36. ASSUME NEW b \in BOOLEAN, SetSender(b) PROVE left'[k] = 0
  BY <1>36 DEF SetSender
<1>37. ASSUME Tick PROVE left'[k] = 0
  BY <1>37 DEF Tick
<1>38. ASSUME UNCHANGED vars PROVE left'[k] = 0
  BY <1>38 DEF vars
<1> QED
  BY <1>1, <1>2, <1>3, <1>4, <1>5, <1>6, <1>7, <1>8, <1>9, <1>10, <1>11, <1>12, <1>13,
     <1>14, <1>15, <1>16, <1>17, <1>18, <1>19, <1>20, <1>21, <1>22, <1>23, <1>24, <1>25,
     <1>26, <1>27, <1>28, <1>29, <1>30, <1>31, <1>32, <1>33, <1>34, <1>35, <1>36, <1>37,
     <1>38
     DEF Next, HandlerStep, HandlerFault, ProcessStep, ApiStep

-----------------------------------------------------------------------------
(* The exclusive claim *)

\* What the claim's proof needs of the database: a row exists only together
\* with its campaign, so creating a campaign overwrites no row.
RowsWithCampaign ==
    \A e \in Emails : campaign[CampaignOf[e]] = "absent" => status[e] = "absent"

ClaimInv == TypeOK /\ RowsWithCampaign /\ SingleOwner

\* The owner of a row has a job, and its row is no longer waiting.
LEMMA OwnerFacts ==
    ASSUME ClaimInv, NEW s \in Slots, pc[s] \in Owning
    PROVE  /\ EmailOf(s) \in Emails
           /\ CampaignOfJob(s) \in Campaigns
           /\ status[EmailOf(s)] \in {"PROCESSING", "SENT"}
           /\ \A t \in Slots : pc[t] \in Owning /\ EmailOf(t) = EmailOf(s) => t = s
<1>1. pc[s] # "idle"
  BY DEF Owning
<1>2. EmailOf(s) \in Emails
  BY <1>1, JobFacts DEF ClaimInv, TypeOK, EmailOf
<1> QED
  BY <1>2 DEF ClaimInv, SingleOwner, Owns, CampaignOfJob

LEMMA ClaimInit == Init => ClaimInv
<1> SUFFICES ASSUME Init PROVE ClaimInv
  OBVIOUS
<1> QED
  BY TypeInit DEF Init, ClaimInv, RowsWithCampaign, SingleOwner, Owns, Owning

LEMMA RowsWithCampaignNext == ClaimInv /\ [Next]_vars => RowsWithCampaign'
<1> SUFFICES ASSUME ClaimInv, [Next]_vars PROVE RowsWithCampaign'
  OBVIOUS
<1> USE DEF ClaimInv, RowsWithCampaign, TypeOK, postgres, tables
<1>1. ASSUME NEW s \in Slots, Take(s) PROVE RowsWithCampaign'
  BY <1>1 DEF Take
<1>2. ASSUME NEW s \in Slots, ReadCampaign(s) PROVE RowsWithCampaign'
  BY <1>2 DEF ReadCampaign
<1>3. ASSUME NEW s \in Slots, CancelRow(s) PROVE RowsWithCampaign'
  BY <1>3 DEF CancelRow, SetStatus, Claimable
<1>4. ASSUME NEW s \in Slots, Claim(s) PROVE RowsWithCampaign'
  BY <1>4 DEF Claim, SetStatus, Claimable
<1>5. ASSUME NEW s \in Slots, CheckLimit(s) PROVE RowsWithCampaign'
  BY <1>5 DEF CheckLimit
<1>6. ASSUME NEW s \in Slots, Defer(s) PROVE RowsWithCampaign'
  BY <1>6, OwnerFacts DEF Defer, Owning, SetStatus, EmailOf
<1>7. ASSUME NEW s \in Slots, Requeue(s) PROVE RowsWithCampaign'
  BY <1>7 DEF Requeue
<1>8. ASSUME NEW s \in Slots, SelectSender(s) PROVE RowsWithCampaign'
  BY <1>8 DEF SelectSender
<1>9. ASSUME NEW s \in Slots, NoSender(s) PROVE RowsWithCampaign'
  BY <1>9, OwnerFacts DEF NoSender, Owning, SetStatus, EmailOf
<1>10. ASSUME NEW s \in Slots, Send(s) PROVE RowsWithCampaign'
  BY <1>10 DEF Send
<1>11. ASSUME NEW s \in Slots, Record(s) PROVE RowsWithCampaign'
  BY <1>11, OwnerFacts DEF Record, CommitSent, Owning, SetStatus, EmailOf
<1>12. ASSUME NEW s \in Slots, Catch(s) PROVE RowsWithCampaign'
  BY <1>12, OwnerFacts DEF Catch, Owning, SetStatus, EmailOf
<1>13. ASSUME NEW s \in Slots, CountFail(s) PROVE RowsWithCampaign'
  BY <1>13 DEF CountFail
<1>14. ASSUME NEW s \in Slots, Complete(s) PROVE RowsWithCampaign'
  BY <1>14 DEF Complete, Finish
<1>15. ASSUME NEW s \in Slots, FailJob(s) PROVE RowsWithCampaign'
  BY <1>15 DEF FailJob, Finish
<1>16. ASSUME NEW s \in Slots, SendFails(s) PROVE RowsWithCampaign'
  BY <1>16 DEF SendFails
<1>17. ASSUME NEW s \in Slots, SendReplyLost(s) PROVE RowsWithCampaign'
  BY <1>17 DEF SendReplyLost
<1>18. ASSUME NEW s \in Slots, RecordFails(s) PROVE RowsWithCampaign'
  BY <1>18, OwnerFacts DEF RecordFails, CommitSent, Owning, SetStatus, EmailOf
<1>19. ASSUME NEW s \in Slots, DbFails(s) PROVE RowsWithCampaign'
  BY <1>19 DEF DbFails
<1>20. ASSUME NEW s \in Slots, RedisFails(s) PROVE RowsWithCampaign'
  BY <1>20 DEF RedisFails
<1>21. ASSUME NEW s \in Slots, LockLoss(s) PROVE RowsWithCampaign'
  BY <1>21 DEF LockLoss
<1>22. ASSUME NEW j \in JobIds, Stalled(j) PROVE RowsWithCampaign'
  BY <1>22 DEF Stalled
<1>23. ASSUME NEW j \in JobIds, Evict(j) PROVE RowsWithCampaign'
  BY <1>23 DEF Evict
<1>24. ASSUME NEW p \in Procs, Crash(p) PROVE RowsWithCampaign'
  BY <1>24 DEF Crash, Die
<1>25. ASSUME NEW p \in Procs, Close(p) PROVE RowsWithCampaign'
  BY <1>25 DEF Close
<1>26. ASSUME NEW p \in Procs, Exit(p) PROVE RowsWithCampaign'
  BY <1>26 DEF Exit, Die
<1>27. ASSUME NEW p \in Procs, Start(p) PROVE RowsWithCampaign'
  BY <1>27 DEF Start
<1>28. ASSUME NEW p \in Procs, ReconcileRead(p) PROVE RowsWithCampaign'
  BY <1>28 DEF ReconcileRead
<1>29. ASSUME NEW p \in Procs, ReconcileRow(p) PROVE RowsWithCampaign'
  BY <1>29 DEF ReconcileRow
<1>30. ASSUME NEW p \in Procs, ReconcileDone(p) PROVE RowsWithCampaign'
  BY <1>30 DEF ReconcileDone
<1>31. ASSUME NEW p \in Procs, NEW c \in Campaigns, CreateCampaign(p, c) PROVE RowsWithCampaign'
  BY <1>31 DEF CreateCampaign
<1>32. ASSUME NEW p \in Procs, NEW e \in Emails, Enqueue(p, e) PROVE RowsWithCampaign'
  BY <1>32 DEF Enqueue
<1>33. ASSUME NEW p \in Procs, NEW e \in Emails, EnqueueFails(p, e) PROVE RowsWithCampaign'
  BY <1>33 DEF EnqueueFails
<1>34. ASSUME NEW c \in Campaigns, CancelRequest(c) PROVE RowsWithCampaign'
  BY <1>34 DEF CancelRequest
<1>35. ASSUME NEW c \in Campaigns, CancelCommit(c) PROVE RowsWithCampaign'
  BY <1>35 DEF CancelCommit, Claimable
<1>36. ASSUME NEW b \in BOOLEAN, SetSender(b) PROVE RowsWithCampaign'
  BY <1>36 DEF SetSender
<1>37. CASE Tick
  BY <1>37 DEF Tick
<1>38. CASE UNCHANGED vars
  BY <1>38 DEF vars
<1> QED
  BY <1>1, <1>2, <1>3, <1>4, <1>5, <1>6, <1>7, <1>8, <1>9, <1>10, <1>11, <1>12, <1>13,
     <1>14, <1>15, <1>16, <1>17, <1>18, <1>19, <1>20, <1>21, <1>22, <1>23, <1>24, <1>25,
     <1>26, <1>27, <1>28, <1>29, <1>30, <1>31, <1>32, <1>33, <1>34, <1>35, <1>36, <1>37,
     <1>38
     DEF Next, HandlerStep, HandlerFault, ProcessStep, ApiStep

LEMMA SingleOwnerNext == ClaimInv /\ [Next]_vars => SingleOwner'
<1> SUFFICES ASSUME ClaimInv, [Next]_vars PROVE SingleOwner'
  OBVIOUS
<1> USE DEF ClaimInv, SingleOwner, Owns, Owning, EmailOf, TypeOK, postgres, tables, handlers
<1>1. ASSUME NEW s \in Slots, Take(s) PROVE SingleOwner'
  BY <1>1 DEF Take
<1>2. ASSUME NEW s \in Slots, ReadCampaign(s) PROVE SingleOwner'
  BY <1>2 DEF ReadCampaign, Goto
<1>3. ASSUME NEW s \in Slots, CancelRow(s) PROVE SingleOwner'
  BY <1>3 DEF CancelRow, Goto, SetStatus, Claimable
<1>4. ASSUME NEW s \in Slots, Claim(s) PROVE SingleOwner'
  BY <1>4 DEF Claim, Goto, SetStatus, Claimable
<1>5. ASSUME NEW s \in Slots, CheckLimit(s) PROVE SingleOwner'
  BY <1>5 DEF CheckLimit, Goto
<1>6. ASSUME NEW s \in Slots, Defer(s) PROVE SingleOwner'
  BY <1>6 DEF Defer, Goto, SetStatus
<1>7. ASSUME NEW s \in Slots, Requeue(s) PROVE SingleOwner'
  BY <1>7 DEF Requeue, Goto
<1>8. ASSUME NEW s \in Slots, SelectSender(s) PROVE SingleOwner'
  BY <1>8 DEF SelectSender, Goto
<1>9. ASSUME NEW s \in Slots, NoSender(s) PROVE SingleOwner'
  BY <1>9 DEF NoSender, Goto, SetStatus
<1>10. ASSUME NEW s \in Slots, Send(s) PROVE SingleOwner'
  BY <1>10 DEF Send, Goto
<1>11. ASSUME NEW s \in Slots, Record(s) PROVE SingleOwner'
  BY <1>11 DEF Record, Goto, SetStatus, CommitSent
<1>12. ASSUME NEW s \in Slots, Catch(s) PROVE SingleOwner'
  BY <1>12 DEF Catch, Goto, SetStatus
<1>13. ASSUME NEW s \in Slots, CountFail(s) PROVE SingleOwner'
  BY <1>13 DEF CountFail, Goto
<1>14. ASSUME NEW s \in Slots, Complete(s) PROVE SingleOwner'
  BY <1>14 DEF Complete, Finish
<1>15. ASSUME NEW s \in Slots, FailJob(s) PROVE SingleOwner'
  BY <1>15 DEF FailJob, Finish
<1>16. ASSUME NEW s \in Slots, SendFails(s) PROVE SingleOwner'
  BY <1>16 DEF SendFails, Goto
<1>17. ASSUME NEW s \in Slots, SendReplyLost(s) PROVE SingleOwner'
  BY <1>17 DEF SendReplyLost, Goto
<1>18. ASSUME NEW s \in Slots, RecordFails(s) PROVE SingleOwner'
  BY <1>18 DEF RecordFails, Goto, SetStatus, CommitSent
<1>19. ASSUME NEW s \in Slots, DbFails(s) PROVE SingleOwner'
  BY <1>19 DEF DbFails, Goto
<1>20. ASSUME NEW s \in Slots, RedisFails(s) PROVE SingleOwner'
  BY <1>20 DEF RedisFails, Goto
<1>21. ASSUME NEW s \in Slots, LockLoss(s) PROVE SingleOwner'
  BY <1>21 DEF LockLoss
<1>22. ASSUME NEW j \in JobIds, Stalled(j) PROVE SingleOwner'
  BY <1>22 DEF Stalled
<1>23. ASSUME NEW j \in JobIds, Evict(j) PROVE SingleOwner'
  BY <1>23 DEF Evict
<1>24. ASSUME NEW p \in Procs, Crash(p) PROVE SingleOwner'
  BY <1>24 DEF Crash, Die
<1>25. ASSUME NEW p \in Procs, Close(p) PROVE SingleOwner'
  BY <1>25 DEF Close
<1>26. ASSUME NEW p \in Procs, Exit(p) PROVE SingleOwner'
  BY <1>26 DEF Exit, Die
<1>27. ASSUME NEW p \in Procs, Start(p) PROVE SingleOwner'
  BY <1>27 DEF Start
<1>28. ASSUME NEW p \in Procs, ReconcileRead(p) PROVE SingleOwner'
  BY <1>28 DEF ReconcileRead
<1>29. ASSUME NEW p \in Procs, ReconcileRow(p) PROVE SingleOwner'
  BY <1>29 DEF ReconcileRow
<1>30. ASSUME NEW p \in Procs, ReconcileDone(p) PROVE SingleOwner'
  BY <1>30 DEF ReconcileDone
<1>31. ASSUME NEW p \in Procs, NEW c \in Campaigns, CreateCampaign(p, c) PROVE SingleOwner'
  BY <1>31 DEF CreateCampaign, RowsWithCampaign
<1>32. ASSUME NEW p \in Procs, NEW e \in Emails, Enqueue(p, e) PROVE SingleOwner'
  BY <1>32 DEF Enqueue
<1>33. ASSUME NEW p \in Procs, NEW e \in Emails, EnqueueFails(p, e) PROVE SingleOwner'
  BY <1>33 DEF EnqueueFails
<1>34. ASSUME NEW c \in Campaigns, CancelRequest(c) PROVE SingleOwner'
  BY <1>34 DEF CancelRequest
<1>35. ASSUME NEW c \in Campaigns, CancelCommit(c) PROVE SingleOwner'
  BY <1>35 DEF CancelCommit, Claimable
<1>36. ASSUME NEW b \in BOOLEAN, SetSender(b) PROVE SingleOwner'
  BY <1>36 DEF SetSender
<1>37. CASE Tick
  BY <1>37 DEF Tick
<1>38. CASE UNCHANGED vars
  BY <1>38 DEF vars
<1> QED
  BY <1>1, <1>2, <1>3, <1>4, <1>5, <1>6, <1>7, <1>8, <1>9, <1>10, <1>11, <1>12, <1>13,
     <1>14, <1>15, <1>16, <1>17, <1>18, <1>19, <1>20, <1>21, <1>22, <1>23, <1>24, <1>25,
     <1>26, <1>27, <1>28, <1>29, <1>30, <1>31, <1>32, <1>33, <1>34, <1>35, <1>36, <1>37,
     <1>38
     DEF Next, HandlerStep, HandlerFault, ProcessStep, ApiStep

LEMMA ClaimNext == ClaimInv /\ [Next]_vars => ClaimInv'
  BY TypeNext, RowsWithCampaignNext, SingleOwnerNext DEF ClaimInv

LEMMA ClaimCorrect == Spec => []ClaimInv
  BY ClaimInit, ClaimNext, PTL DEF Spec

\* At most one handler of one process works on a row between its claim and its
\* release, under every combination of faults: crashes, lost locks, duplicate
\* jobs and failing databases included (worker/index.ts:37-49).
THEOREM ExclusiveClaim == Spec => []SingleOwner
<1>1. ClaimInv => SingleOwner
  BY DEF ClaimInv
<1> QED
  BY <1>1, ClaimCorrect, PTL

-----------------------------------------------------------------------------
(* The campaigns' counters *)

\* The row of an owner, as SingleOwner has it.
LEMMA OwnerStatus ==
    ClaimInv => \A s \in Slots : pc[s] \in Owning =>
        status[EmailOf(s)] = "PROCESSING" \/ (status[EmailOf(s)] = "SENT" /\ pc[s] = "catch")
<1> SUFFICES ASSUME ClaimInv, NEW s \in Slots, pc[s] \in Owning
             PROVE  status[EmailOf(s)] = "PROCESSING" \/ (status[EmailOf(s)] = "SENT" /\ pc[s] = "catch")
  OBVIOUS
<1> QED
  BY OwnerFacts DEF ClaimInv, SingleOwner, Owns

\* The steps that count a row, or give the counters something to count ...
Counted == \E s \in Slots :
    Record(s) \/ RecordFails(s) \/ NoSender(s) \/ Catch(s) \/ CountFail(s)

\* ... and what every other step leaves alone.
Quiet ==
    /\ UNCHANGED counters
    /\ \A e \in Emails : (status'[e] = "SENT") <=> (status[e] = "SENT")
    /\ \A e \in Emails : (status'[e] = "FAILED") <=> (status[e] = "FAILED")
    /\ \A s \in Slots : pc'[s] = "countFail" => pc[s] = "countFail" /\ cur'[s] = cur[s]
    /\ \A s \in Slots : pc'[s] = "catch" => pc[s] \in {"catch", "send"} /\ cur'[s] = cur[s]
    /\ left["db"] = 0 => left'["db"] = 0

LEMMA CountedOrQuiet ==
    ASSUME ClaimInv, [Next]_vars
    PROVE  Quiet \/ Counted
<1> USE DEF ClaimInv, Quiet, TypeOK, Claimable, EmailOf, postgres, tables, counters, handlers
<1>1. ASSUME NEW s \in Slots, Take(s) PROVE Quiet \/ Counted
  BY <1>1 DEF Take
<1>2. ASSUME NEW s \in Slots, ReadCampaign(s) PROVE Quiet \/ Counted
  BY <1>2 DEF ReadCampaign, Goto
<1>3. ASSUME NEW s \in Slots, CancelRow(s) PROVE Quiet \/ Counted
  BY <1>3 DEF CancelRow, Goto, SetStatus
<1>4. ASSUME NEW s \in Slots, Claim(s) PROVE Quiet \/ Counted
  BY <1>4 DEF Claim, Goto, SetStatus
<1>5. ASSUME NEW s \in Slots, CheckLimit(s) PROVE Quiet \/ Counted
  BY <1>5 DEF CheckLimit, Goto
<1>6. ASSUME NEW s \in Slots, Defer(s) PROVE Quiet \/ Counted
  <2>1. status[EmailOf(s)] = "PROCESSING"
    BY <1>6, OwnerStatus DEF Defer, Owning
  <2> QED
    BY <1>6, <2>1 DEF Defer, Goto, SetStatus
<1>7. ASSUME NEW s \in Slots, Requeue(s) PROVE Quiet \/ Counted
  BY <1>7 DEF Requeue, Goto
<1>8. ASSUME NEW s \in Slots, SelectSender(s) PROVE Quiet \/ Counted
  BY <1>8 DEF SelectSender, Goto
<1>9. ASSUME NEW s \in Slots, NoSender(s) PROVE Quiet \/ Counted
  BY <1>9 DEF Counted
<1>10. ASSUME NEW s \in Slots, Send(s) PROVE Quiet \/ Counted
  BY <1>10 DEF Send, Goto
<1>11. ASSUME NEW s \in Slots, Record(s) PROVE Quiet \/ Counted
  BY <1>11 DEF Counted
<1>12. ASSUME NEW s \in Slots, Catch(s) PROVE Quiet \/ Counted
  BY <1>12 DEF Counted
<1>13. ASSUME NEW s \in Slots, CountFail(s) PROVE Quiet \/ Counted
  BY <1>13 DEF Counted
<1>14. ASSUME NEW s \in Slots, Complete(s) PROVE Quiet \/ Counted
  BY <1>14 DEF Complete, Finish
<1>15. ASSUME NEW s \in Slots, FailJob(s) PROVE Quiet \/ Counted
  BY <1>15 DEF FailJob, Finish
<1>16. ASSUME NEW s \in Slots, SendFails(s) PROVE Quiet \/ Counted
  BY <1>16 DEF SendFails, Goto, Spend, Kinds
<1>17. ASSUME NEW s \in Slots, SendReplyLost(s) PROVE Quiet \/ Counted
  BY <1>17 DEF SendReplyLost, Goto, Spend, Kinds
<1>18. ASSUME NEW s \in Slots, RecordFails(s) PROVE Quiet \/ Counted
  BY <1>18 DEF Counted
<1>19. ASSUME NEW s \in Slots, DbFails(s) PROVE Quiet \/ Counted
  BY <1>19 DEF DbFails, Goto, Spend, Kinds
<1>20. ASSUME NEW s \in Slots, RedisFails(s) PROVE Quiet \/ Counted
  BY <1>20 DEF RedisFails, Goto, Spend, Kinds
<1>21. ASSUME NEW s \in Slots, LockLoss(s) PROVE Quiet \/ Counted
  BY <1>21 DEF LockLoss, Spend, Kinds
<1>22. ASSUME NEW j \in JobIds, Stalled(j) PROVE Quiet \/ Counted
  BY <1>22 DEF Stalled
<1>23. ASSUME NEW j \in JobIds, Evict(j) PROVE Quiet \/ Counted
  BY <1>23 DEF Evict, Spend, Kinds
<1>24. ASSUME NEW p \in Procs, Crash(p) PROVE Quiet \/ Counted
  BY <1>24 DEF Crash, Die, Spend, Kinds
<1>25. ASSUME NEW p \in Procs, Close(p) PROVE Quiet \/ Counted
  BY <1>25 DEF Close, Spend, Kinds
<1>26. ASSUME NEW p \in Procs, Exit(p) PROVE Quiet \/ Counted
  BY <1>26 DEF Exit, Die
<1>27. ASSUME NEW p \in Procs, Start(p) PROVE Quiet \/ Counted
  BY <1>27 DEF Start, Spend, Kinds
<1>28. ASSUME NEW p \in Procs, ReconcileRead(p) PROVE Quiet \/ Counted
  BY <1>28 DEF ReconcileRead
<1>29. ASSUME NEW p \in Procs, ReconcileRow(p) PROVE Quiet \/ Counted
  BY <1>29 DEF ReconcileRow
<1>30. ASSUME NEW p \in Procs, ReconcileDone(p) PROVE Quiet \/ Counted
  BY <1>30 DEF ReconcileDone
<1>31. ASSUME NEW p \in Procs, NEW c \in Campaigns, CreateCampaign(p, c) PROVE Quiet \/ Counted
  BY <1>31 DEF CreateCampaign, RowsWithCampaign
<1>32. ASSUME NEW p \in Procs, NEW e \in Emails, Enqueue(p, e) PROVE Quiet \/ Counted
  BY <1>32 DEF Enqueue
<1>33. ASSUME NEW p \in Procs, NEW e \in Emails, EnqueueFails(p, e) PROVE Quiet \/ Counted
  BY <1>33 DEF EnqueueFails, Spend, Kinds
<1>34. ASSUME NEW c \in Campaigns, CancelRequest(c) PROVE Quiet \/ Counted
  BY <1>34 DEF CancelRequest, Spend, Kinds
<1>35. ASSUME NEW c \in Campaigns, CancelCommit(c) PROVE Quiet \/ Counted
  BY <1>35 DEF CancelCommit
<1>36. ASSUME NEW b \in BOOLEAN, SetSender(b) PROVE Quiet \/ Counted
  BY <1>36 DEF SetSender, Spend, Kinds
<1>37. ASSUME Tick PROVE Quiet \/ Counted
  BY <1>37 DEF Tick
<1>38. ASSUME UNCHANGED vars PROVE Quiet \/ Counted
  BY <1>38 DEF vars
<1> QED
  BY <1>1, <1>2, <1>3, <1>4, <1>5, <1>6, <1>7, <1>8, <1>9, <1>10, <1>11, <1>12, <1>13,
     <1>14, <1>15, <1>16, <1>17, <1>18, <1>19, <1>20, <1>21, <1>22, <1>23, <1>24, <1>25,
     <1>26, <1>27, <1>28, <1>29, <1>30, <1>31, <1>32, <1>33, <1>34, <1>35, <1>36, <1>37,
     <1>38
     DEF Next, HandlerStep, HandlerFault, ProcessStep, ApiStep

LEMMA FiniteSlots == IsFiniteSet(Slots)
<1>1. IsFiniteSet(1..Concurrency)
  BY DispatchAssumption, FS_Interval
<1> QED
  BY <1>1, FinitenessAssumption, FS_Product DEF Slots

\* What can be counted: rows of a table, handlers of some processes.
LEMMA Countable ==
    ASSUME NEW S, S \subseteq Emails \/ S \subseteq Slots
    PROVE  IsFiniteSet(S)
  BY FinitenessAssumption, FiniteSlots, FS_Subset

\* A campaign whose failed rows have only become more, and whose counter and
\* pending increments have not, is still counted soundly.
LEMMA FailuresKept ==
    ASSUME FailuresCounted, failedCount \in [Campaigns -> Nat], NEW c \in Campaigns,
           failedCount'[c] = failedCount[c],
           Uncounted(c)' \subseteq Uncounted(c),
           RowsOf(c, "FAILED") \subseteq RowsOf(c, "FAILED")'
    PROVE  failedCount'[c] + Cardinality(Uncounted(c)') <= Cardinality(RowsOf(c, "FAILED")')
<1>1. IsFiniteSet(Uncounted(c)) /\ IsFiniteSet(RowsOf(c, "FAILED")')
  BY Countable DEF Uncounted, RowsOf
<1>2. Cardinality(Uncounted(c)') <= Cardinality(Uncounted(c))
  BY <1>1, ShrinkAtMost
<1>3. Cardinality(RowsOf(c, "FAILED")) <= Cardinality(RowsOf(c, "FAILED")')
  BY <1>1, ShrinkAtMost
<1>4. /\ Cardinality(Uncounted(c)) \in Nat /\ Cardinality(Uncounted(c)') \in Nat
      /\ Cardinality(RowsOf(c, "FAILED")) \in Nat /\ Cardinality(RowsOf(c, "FAILED")') \in Nat
  BY <1>1, FS_CardinalityType, FS_Subset
<1>5. failedCount[c] + Cardinality(Uncounted(c)) <= Cardinality(RowsOf(c, "FAILED"))
  BY DEF FailuresCounted
<1> QED
  BY <1>2, <1>3, <1>4, <1>5

\* The last attempt fails: the row becomes FAILED as the handler comes to owe
\* the counter its increment.
LEMMA CatchCounts ==
    ASSUME ClaimInv, FailuresCounted, NEW s \in Slots, Catch(s)
    PROVE  FailuresCounted'
<1> DEFINE row == EmailOf(s)
<1>1. /\ row \in Emails /\ CampaignOfJob(s) \in Campaigns
      /\ status[row] # "FAILED" /\ pc[s] = "catch"
      /\ status \in [Emails -> Statuses] /\ pc \in [Slots -> Steps]
      /\ failedCount \in [Campaigns -> Nat]
  BY OwnerFacts DEF Catch, Owning, ClaimInv, TypeOK
<1>2. failedCount' = failedCount /\ cur' = cur
  BY DEF Catch, Goto, tables, counters
<1>3. CASE IsFinalAttempt(s)
  <2>1. /\ status' = [status EXCEPT ![row] = "FAILED"]
        /\ pc' = [pc EXCEPT ![s] = "countFail"]
    BY <1>3 DEF Catch, SetStatus, StatusAfterFailure, Goto
  <2> SUFFICES ASSUME NEW c \in Campaigns
               PROVE  failedCount'[c] + Cardinality(Uncounted(c)')
                        <= Cardinality(RowsOf(c, "FAILED")')
    BY DEF FailuresCounted
  <2>2. CASE c = CampaignOfJob(s)
    <3>1. RowsOf(c, "FAILED")' = RowsOf(c, "FAILED") \cup {row} /\ row \notin RowsOf(c, "FAILED")
      BY <1>1, <2>1, <2>2 DEF RowsOf, CampaignOfJob
    <3>2. Uncounted(c)' = Uncounted(c) \cup {s} /\ s \notin Uncounted(c)
      BY <1>1, <1>2, <2>1, <2>2 DEF Uncounted, CampaignOfJob, EmailOf
    <3>3. IsFiniteSet(Uncounted(c)) /\ IsFiniteSet(RowsOf(c, "FAILED"))
      BY Countable DEF Uncounted, RowsOf
    <3>4. /\ Cardinality(Uncounted(c)') = Cardinality(Uncounted(c)) + 1
          /\ Cardinality(RowsOf(c, "FAILED")') = Cardinality(RowsOf(c, "FAILED")) + 1
      BY <3>1, <3>2, <3>3, Grow
    <3>5. Cardinality(Uncounted(c)) \in Nat /\ Cardinality(RowsOf(c, "FAILED")) \in Nat
      BY <3>3, FS_CardinalityType
    <3>6. failedCount[c] + Cardinality(Uncounted(c)) <= Cardinality(RowsOf(c, "FAILED"))
      BY DEF FailuresCounted
    <3> QED
      BY <1>1, <1>2, <3>4, <3>5, <3>6
  <2>3. CASE c # CampaignOfJob(s)
    <3>1. Uncounted(c)' \subseteq Uncounted(c)
      BY <1>1, <1>2, <2>1, <2>3 DEF Uncounted, CampaignOfJob, EmailOf
    <3>2. RowsOf(c, "FAILED") \subseteq RowsOf(c, "FAILED")'
      BY <1>1, <2>1 DEF RowsOf
    <3> QED
      BY <1>1, <1>2, <3>1, <3>2, FailuresKept
  <2> QED
    BY <2>2, <2>3
<1>4. CASE ~IsFinalAttempt(s)
  <2>1. /\ status' = [status EXCEPT ![row] = "SCHEDULED"]
        /\ pc' = [pc EXCEPT ![s] = "throw"]
    BY <1>4 DEF Catch, SetStatus, StatusAfterFailure, Goto
  <2> SUFFICES ASSUME NEW c \in Campaigns
               PROVE  failedCount'[c] + Cardinality(Uncounted(c)')
                        <= Cardinality(RowsOf(c, "FAILED")')
    BY DEF FailuresCounted
  <2>2. Uncounted(c)' \subseteq Uncounted(c)
    BY <1>1, <1>2, <2>1 DEF Uncounted, CampaignOfJob, EmailOf
  <2>3. RowsOf(c, "FAILED") \subseteq RowsOf(c, "FAILED")'
    BY <1>1, <2>1 DEF RowsOf
  <2> QED
    BY <1>1, <1>2, <2>2, <2>3, FailuresKept
<1> QED
  BY <1>3, <1>4

\* The counter's own statement: the increment is no longer owed.
LEMMA CountFailCounts ==
    ASSUME ClaimInv, FailuresCounted, NEW s \in Slots, CountFail(s)
    PROVE  FailuresCounted'
<1>1. /\ failedCount' = [failedCount EXCEPT ![CampaignOfJob(s)] = @ + 1]
      /\ pc[s] = "countFail" /\ pc' = [pc EXCEPT ![s] = "throw"]
      /\ status' = status /\ cur' = cur
      /\ pc \in [Slots -> Steps] /\ failedCount \in [Campaigns -> Nat]
  BY DEF CountFail, Goto, ClaimInv, TypeOK
<1> SUFFICES ASSUME NEW c \in Campaigns
             PROVE  failedCount'[c] + Cardinality(Uncounted(c)')
                      <= Cardinality(RowsOf(c, "FAILED")')
  BY DEF FailuresCounted
<1>2. RowsOf(c, "FAILED")' = RowsOf(c, "FAILED")
  BY <1>1 DEF RowsOf
<1>3. CASE c = CampaignOfJob(s)
  <2>1. Uncounted(c)' = Uncounted(c) \ {s} /\ s \in Uncounted(c)
    BY <1>1, <1>3 DEF Uncounted, CampaignOfJob, EmailOf
  <2>2. IsFiniteSet(Uncounted(c)) /\ IsFiniteSet(RowsOf(c, "FAILED"))
    BY Countable DEF Uncounted, RowsOf
  <2>3. Cardinality(Uncounted(c)') = Cardinality(Uncounted(c)) - 1
    BY <2>1, <2>2, Shrink
  <2>4. Cardinality(Uncounted(c)) \in Nat /\ Cardinality(RowsOf(c, "FAILED")) \in Nat
    BY <2>2, FS_CardinalityType
  <2>5. failedCount[c] + Cardinality(Uncounted(c)) <= Cardinality(RowsOf(c, "FAILED"))
    BY DEF FailuresCounted
  <2>6. failedCount'[c] = failedCount[c] + 1 /\ failedCount[c] \in Nat
    BY <1>1, <1>3
  <2> QED
    BY <1>2, <2>3, <2>4, <2>5, <2>6
<1>4. CASE c # CampaignOfJob(s)
  <2>1. Uncounted(c)' \subseteq Uncounted(c)
    BY <1>1 DEF Uncounted, CampaignOfJob, EmailOf
  <2> QED
    BY <1>1, <1>2, <1>4, <2>1, FailuresKept
<1> QED
  BY <1>3, <1>4

LEMMA FailuresNext == ClaimInv /\ FailuresCounted /\ [Next]_vars => FailuresCounted'
<1> SUFFICES ASSUME ClaimInv, FailuresCounted, [Next]_vars PROVE FailuresCounted'
  OBVIOUS
<1>1. CASE Quiet
  <2> SUFFICES ASSUME NEW c \in Campaigns
               PROVE  failedCount'[c] + Cardinality(Uncounted(c)')
                        <= Cardinality(RowsOf(c, "FAILED")')
    BY DEF FailuresCounted
  <2>1. Uncounted(c)' \subseteq Uncounted(c)
    BY <1>1 DEF Quiet, Uncounted, CampaignOfJob, EmailOf
  <2>2. RowsOf(c, "FAILED") \subseteq RowsOf(c, "FAILED")'
    BY <1>1 DEF Quiet, RowsOf
  <2> QED
    BY <1>1, <2>1, <2>2, FailuresKept DEF Quiet, counters, ClaimInv, TypeOK
<1>2. ASSUME NEW s \in Slots, Record(s) \/ RecordFails(s) \/ NoSender(s) PROVE FailuresCounted'
  <2>1. /\ EmailOf(s) \in Emails /\ status[EmailOf(s)] # "FAILED"
        /\ status \in [Emails -> Statuses] /\ pc \in [Slots -> Steps]
    BY <1>2, OwnerFacts DEF Record, RecordFails, NoSender, Owning, ClaimInv, TypeOK
  <2>2. failedCount' = failedCount /\ cur' = cur
    BY <1>2 DEF Record, RecordFails, NoSender, Goto, tables, counters
  <2>3. \A t \in Slots : pc'[t] = "countFail" => pc[t] = "countFail"
    BY <1>2, <2>1 DEF Record, RecordFails, NoSender, Goto
  <2>4. \A e \in Emails : status[e] = "FAILED" => status'[e] = "FAILED"
    BY <1>2, <2>1 DEF Record, RecordFails, NoSender, CommitSent, SetStatus
  <2> SUFFICES ASSUME NEW c \in Campaigns
               PROVE  failedCount'[c] + Cardinality(Uncounted(c)')
                        <= Cardinality(RowsOf(c, "FAILED")')
    BY DEF FailuresCounted
  <2>5. Uncounted(c)' \subseteq Uncounted(c)
    BY <2>2, <2>3 DEF Uncounted, CampaignOfJob, EmailOf
  <2>6. RowsOf(c, "FAILED") \subseteq RowsOf(c, "FAILED")'
    BY <2>4 DEF RowsOf
  <2> QED
    BY <2>2, <2>5, <2>6, FailuresKept DEF ClaimInv, TypeOK
<1> QED
  BY <1>1, <1>2, CountedOrQuiet, CatchCounts, CountFailCounts DEF Counted

\* failedCount never runs ahead of the failed rows, not even by the increments
\* still to come, whatever crashes, fails or is delivered again
\* (worker/index.ts:131-145).
THEOREM FailuresNeverOvercounted == Spec => []FailuresCounted
<1>1. Init => FailuresCounted
  <2> SUFFICES ASSUME Init, NEW c \in Campaigns
               PROVE  failedCount[c] + Cardinality(Uncounted(c)) <= Cardinality(RowsOf(c, "FAILED"))
    BY DEF FailuresCounted
  <2>1. Uncounted(c) = {} /\ RowsOf(c, "FAILED") = {} /\ failedCount[c] = 0
    BY DEF Init, Uncounted, RowsOf
  <2>2. Cardinality(Uncounted(c)) = 0 /\ Cardinality(RowsOf(c, "FAILED")) = 0
    BY <2>1, FS_EmptySet
  <2> QED
    BY <2>1, <2>2
<1>2. ClaimInv /\ FailuresCounted /\ [Next]_vars => FailuresCounted'
  BY FailuresNext
<1> QED
  BY <1>1, <1>2, ClaimInit, ClaimNext, PTL DEF Spec

-----------------------------------------------------------------------------
(* What holds when no database statement fails: a commit is never in doubt *)

CommitsCertain ==
    /\ left["db"] = 0
    /\ \A s \in Slots : pc[s] \in Owning => status[EmailOf(s)] = "PROCESSING"

LEMMA CommitsCertainNext == ClaimInv /\ CommitsCertain /\ [Next]_vars => CommitsCertain'
<1> SUFFICES ASSUME ClaimInv, CommitsCertain, [Next]_vars PROVE CommitsCertain'
  OBVIOUS
<1>1. (\A s \in Slots : pc[s] \in Owning =>
         status[EmailOf(s)] = "PROCESSING" \/ (status[EmailOf(s)] = "SENT" /\ pc[s] = "catch"))'
  BY ClaimNext, OwnerStatus, PTL
<1>2. SUFFICES /\ left'["db"] = 0
               /\ \A s \in Slots : pc'[s] = "catch" => status'[Row(cur'[s])] # "SENT"
  BY <1>1, <1>2 DEF CommitsCertain, EmailOf
<1>3. CASE Quiet
  <2>1. ASSUME NEW s \in Slots, pc'[s] = "catch" PROVE status'[Row(cur'[s])] # "SENT"
    <3>1. pc[s] \in Owning /\ Row(cur'[s]) = EmailOf(s)
      BY <1>3, <2>1 DEF Quiet, Owning, EmailOf
    <3>2. status[EmailOf(s)] = "PROCESSING" /\ EmailOf(s) \in Emails
      BY <3>1, OwnerFacts DEF CommitsCertain
    <3> QED
      BY <1>3, <3>1, <3>2 DEF Quiet
  <2> QED
    BY <1>3, <2>1 DEF Quiet, CommitsCertain
<1>4. ASSUME NEW s \in Slots, Record(s) \/ NoSender(s) \/ Catch(s) \/ CountFail(s)
      PROVE  /\ left'["db"] = 0
             /\ \A t \in Slots : pc'[t] = "catch" => status'[Row(cur'[t])] # "SENT"
  <2>1. left' = left /\ cur' = cur /\ pc'[s] # "catch"
    BY <1>4 DEF Record, NoSender, Catch, CountFail, Goto, ClaimInv, TypeOK
  <2>2. ASSUME NEW t \in Slots, pc'[t] = "catch" PROVE status'[Row(cur'[t])] # "SENT"
    <3>1. t # s /\ pc[t] = "catch" /\ Row(cur'[t]) = EmailOf(t)
      BY <1>4, <2>1, <2>2 DEF Record, NoSender, Catch, CountFail, Goto, ClaimInv, TypeOK, EmailOf
    <3>2. /\ status[EmailOf(t)] = "PROCESSING" /\ EmailOf(t) \in Emails
          /\ pc[s] \in Owning => EmailOf(s) # EmailOf(t)
      BY <3>1, OwnerFacts DEF CommitsCertain, Owning
    <3>3. status'[EmailOf(t)] = status[EmailOf(t)]
      BY <1>4, <3>2 DEF Record, NoSender, Catch, CountFail, CommitSent, SetStatus, Owning,
           ClaimInv, TypeOK
    <3> QED
      BY <3>1, <3>2, <3>3
  <2> QED
    BY <2>1, <2>2 DEF CommitsCertain
<1>5. ~ \E s \in Slots : RecordFails(s)
  BY DEF RecordFails, Spend, CommitsCertain
<1> QED
  BY <1>3, <1>4, <1>5, CountedOrQuiet DEF Counted

LEMMA CommitsCertainCorrect ==
    ASSUME Budget["db"] = 0
    PROVE  Spec => [](ClaimInv /\ CommitsCertain)
<1>1. Init => CommitsCertain
  BY DEF Init, CommitsCertain, Owning
<1> QED
  BY <1>1, ClaimInit, ClaimNext, CommitsCertainNext, PTL DEF Spec

LEMMA SentCountedNext == ClaimInv /\ CommitsCertain /\ SentCounted /\ [Next]_vars => SentCounted'
<1> SUFFICES ASSUME ClaimInv, CommitsCertain, SentCounted, [Next]_vars, NEW c \in Campaigns
             PROVE  sentCount'[c] = Cardinality(RowsOf(c, "SENT")')
  BY DEF SentCounted
<1>0. /\ status \in [Emails -> Statuses] /\ sentCount \in [Campaigns -> Nat]
      /\ sentCount[c] = Cardinality(RowsOf(c, "SENT"))
  BY DEF ClaimInv, TypeOK, SentCounted
<1>1. CASE Quiet
  <2>1. RowsOf(c, "SENT")' = RowsOf(c, "SENT") /\ sentCount' = sentCount
    BY <1>1 DEF Quiet, RowsOf, counters
  <2> QED
    BY <1>0, <2>1
<1>2. ASSUME NEW s \in Slots, Record(s) PROVE sentCount'[c] = Cardinality(RowsOf(c, "SENT")')
  <2>1. /\ EmailOf(s) \in Emails /\ status[EmailOf(s)] = "PROCESSING"
        /\ status' = [status EXCEPT ![EmailOf(s)] = "SENT"]
        /\ sentCount' = [sentCount EXCEPT ![CampaignOf[EmailOf(s)]] = @ + 1]
    BY <1>2, OwnerFacts DEF Record, Owning, CommitsCertain, CommitSent, SetStatus, CampaignOfJob
  <2>2. CASE c = CampaignOf[EmailOf(s)]
    <3>1. /\ RowsOf(c, "SENT")' = RowsOf(c, "SENT") \cup {EmailOf(s)}
          /\ EmailOf(s) \notin RowsOf(c, "SENT")
      BY <1>0, <2>1, <2>2 DEF RowsOf
    <3>2. IsFiniteSet(RowsOf(c, "SENT"))
      BY Countable DEF RowsOf
    <3>3. Cardinality(RowsOf(c, "SENT")') = Cardinality(RowsOf(c, "SENT")) + 1
      BY <3>1, <3>2, Grow
    <3> QED
      BY <1>0, <2>1, <2>2, <3>3
  <2>3. CASE c # CampaignOf[EmailOf(s)]
    <3>1. RowsOf(c, "SENT")' = RowsOf(c, "SENT")
      BY <1>0, <2>1, <2>3 DEF RowsOf
    <3> QED
      BY <1>0, <2>1, <2>3, <3>1
  <2> QED
    BY <2>2, <2>3
<1>3. ASSUME NEW s \in Slots, NoSender(s) \/ Catch(s) \/ CountFail(s)
      PROVE  sentCount'[c] = Cardinality(RowsOf(c, "SENT")')
  <2>1. sentCount' = sentCount
    BY <1>3 DEF NoSender, Catch, CountFail, tables, counters
  <2>2. \A e \in Emails : (status'[e] = "SENT") <=> (status[e] = "SENT")
    BY <1>0, <1>3, OwnerFacts DEF NoSender, Catch, CountFail, Owning, CommitsCertain, SetStatus,
         StatusAfterFailure
  <2>3. RowsOf(c, "SENT")' = RowsOf(c, "SENT")
    BY <2>2 DEF RowsOf
  <2> QED
    BY <1>0, <2>1, <2>3
<1>4. ~ \E s \in Slots : RecordFails(s)
  BY DEF RecordFails, Spend, CommitsCertain
<1> QED
  BY <1>1, <1>2, <1>3, <1>4, CountedOrQuiet DEF Counted

\* The campaign's counters agree with its rows through crashes, lost locks and
\* redelivered jobs: a row is counted as sent once and when it is SENT
\* (worker/index.ts:101-119, 131-145).
THEOREM CountersAgree ==
    ASSUME Budget["db"] = 0
    PROVE  Spec => []CountersSound
<1>1. Init => SentCounted
  <2> SUFFICES ASSUME Init, NEW c \in Campaigns
               PROVE  sentCount[c] = Cardinality(RowsOf(c, "SENT"))
    BY DEF SentCounted
  <2>1. RowsOf(c, "SENT") = {} /\ sentCount[c] = 0
    BY DEF Init, RowsOf
  <2> QED
    BY <2>1, FS_EmptySet
<1>2. ClaimInv /\ CommitsCertain /\ SentCounted /\ [Next]_vars => SentCounted'
  BY SentCountedNext
<1>3. SentCounted /\ FailuresCounted => CountersSound
  BY DEF CountersSound
<1> QED
  BY <1>1, <1>2, <1>3, CommitsCertainCorrect, FailuresNeverOvercounted, PTL DEF Spec

-----------------------------------------------------------------------------
(* At most one delivery, when no database statement fails and no SMTP reply is lost *)

Reliable == left["db"] = 0 /\ left["ack"] = 0

\* The claim's owner is the only one who can deliver, and has delivered exactly
\* when the SENT transaction is what it does next.
OwnerDelivery ==
    \A s \in Slots : pc[s] \in Owning =>
        /\ status[EmailOf(s)] = "PROCESSING"
        /\ delivered[EmailOf(s)] = IF pc[s] = "record" THEN 1 ELSE 0

\* AtMostOnce and StatusTruthful, and rows that do not exist yet.
RowDelivery ==
    \A e \in Emails :
        /\ delivered[e] <= 1
        /\ status[e] = "SENT" => delivered[e] = 1
        /\ status[e] \in Claimable \cup {"FAILED", "CANCELLED", "absent"} => delivered[e] = 0

DeliveryInv == ClaimInv /\ Reliable /\ OwnerDelivery /\ RowDelivery

LEMMA DeliveryInit ==
    ASSUME Budget["db"] = 0, Budget["ack"] = 0
    PROVE  Init => DeliveryInv
<1> SUFFICES ASSUME Init PROVE DeliveryInv
  OBVIOUS
<1>1. ClaimInv
  BY ClaimInit
<1> QED
  BY <1>1 DEF Init, DeliveryInv, Reliable, OwnerDelivery, RowDelivery, Owning

LEMMA ReliableNext == TypeOK /\ Reliable /\ [Next]_vars => Reliable'
  BY SpentStays DEF Reliable, Kinds

LEMMA OwnerDeliveryNext == DeliveryInv /\ [Next]_vars => OwnerDelivery'
<1> SUFFICES ASSUME DeliveryInv, [Next]_vars PROVE OwnerDelivery'
  OBVIOUS
<1> USE DEF DeliveryInv, ClaimInv, OwnerDelivery, RowDelivery, Owning, EmailOf, TypeOK,
        postgres, tables, handlers, outside
<1>1. ASSUME NEW s \in Slots, Take(s) PROVE OwnerDelivery'
  BY <1>1 DEF Take
<1>2. ASSUME NEW s \in Slots, ReadCampaign(s) PROVE OwnerDelivery'
  BY <1>2, OwnerFacts DEF ReadCampaign, Goto
<1>3. ASSUME NEW s \in Slots, CancelRow(s) PROVE OwnerDelivery'
  BY <1>3, OwnerFacts DEF CancelRow, Goto, SetStatus, Claimable
<1>4. ASSUME NEW s \in Slots, Claim(s) PROVE OwnerDelivery'
  BY <1>4, OwnerFacts, JobFacts DEF Claim, Goto, SetStatus, Claimable
<1>5. ASSUME NEW s \in Slots, CheckLimit(s) PROVE OwnerDelivery'
  BY <1>5, OwnerFacts DEF CheckLimit, Goto
<1>6. ASSUME NEW s \in Slots, Defer(s) PROVE OwnerDelivery'
  BY <1>6, OwnerFacts DEF Defer, Goto, SetStatus
<1>7. ASSUME NEW s \in Slots, Requeue(s) PROVE OwnerDelivery'
  BY <1>7, OwnerFacts DEF Requeue, Goto
<1>8. ASSUME NEW s \in Slots, SelectSender(s) PROVE OwnerDelivery'
  BY <1>8, OwnerFacts DEF SelectSender, Goto
<1>9. ASSUME NEW s \in Slots, NoSender(s) PROVE OwnerDelivery'
  BY <1>9, OwnerFacts DEF NoSender, Goto, SetStatus
<1>10. ASSUME NEW s \in Slots, Send(s) PROVE OwnerDelivery'
  BY <1>10, OwnerFacts DEF Send, Goto
<1>11. ASSUME NEW s \in Slots, Record(s) PROVE OwnerDelivery'
  BY <1>11, OwnerFacts DEF Record, Goto, SetStatus, CommitSent
<1>12. ASSUME NEW s \in Slots, Catch(s) PROVE OwnerDelivery'
  BY <1>12, OwnerFacts DEF Catch, Goto, SetStatus
<1>13. ASSUME NEW s \in Slots, CountFail(s) PROVE OwnerDelivery'
  BY <1>13, OwnerFacts DEF CountFail, Goto
<1>14. ASSUME NEW s \in Slots, Complete(s) PROVE OwnerDelivery'
  BY <1>14 DEF Complete, Finish
<1>15. ASSUME NEW s \in Slots, FailJob(s) PROVE OwnerDelivery'
  BY <1>15 DEF FailJob, Finish
<1>16. ASSUME NEW s \in Slots, SendFails(s) PROVE OwnerDelivery'
  BY <1>16, OwnerFacts DEF SendFails, Goto
<1>17. ASSUME NEW s \in Slots, SendReplyLost(s) PROVE OwnerDelivery'
  BY <1>17 DEF SendReplyLost, Reliable, Spend
<1>18. ASSUME NEW s \in Slots, RecordFails(s) PROVE OwnerDelivery'
  BY <1>18 DEF RecordFails, Reliable, Spend
<1>19. ASSUME NEW s \in Slots, DbFails(s) PROVE OwnerDelivery'
  BY <1>19 DEF DbFails, Reliable, Spend
<1>20. ASSUME NEW s \in Slots, RedisFails(s) PROVE OwnerDelivery'
  BY <1>20, OwnerFacts DEF RedisFails, Goto
<1>21. ASSUME NEW s \in Slots, LockLoss(s) PROVE OwnerDelivery'
  BY <1>21 DEF LockLoss
<1>22. ASSUME NEW j \in JobIds, Stalled(j) PROVE OwnerDelivery'
  BY <1>22 DEF Stalled
<1>23. ASSUME NEW j \in JobIds, Evict(j) PROVE OwnerDelivery'
  BY <1>23 DEF Evict
<1>24. ASSUME NEW p \in Procs, Crash(p) PROVE OwnerDelivery'
  BY <1>24 DEF Crash, Die
<1>25. ASSUME NEW p \in Procs, Close(p) PROVE OwnerDelivery'
  BY <1>25 DEF Close
<1>26. ASSUME NEW p \in Procs, Exit(p) PROVE OwnerDelivery'
  BY <1>26 DEF Exit, Die
<1>27. ASSUME NEW p \in Procs, Start(p) PROVE OwnerDelivery'
  BY <1>27 DEF Start
<1>28. ASSUME NEW p \in Procs, ReconcileRead(p) PROVE OwnerDelivery'
  BY <1>28 DEF ReconcileRead
<1>29. ASSUME NEW p \in Procs, ReconcileRow(p) PROVE OwnerDelivery'
  BY <1>29 DEF ReconcileRow
<1>30. ASSUME NEW p \in Procs, ReconcileDone(p) PROVE OwnerDelivery'
  BY <1>30 DEF ReconcileDone
<1>31. ASSUME NEW p \in Procs, NEW c \in Campaigns, CreateCampaign(p, c) PROVE OwnerDelivery'
  BY <1>31, OwnerFacts DEF CreateCampaign, RowsWithCampaign
<1>32. ASSUME NEW p \in Procs, NEW e \in Emails, Enqueue(p, e) PROVE OwnerDelivery'
  BY <1>32 DEF Enqueue
<1>33. ASSUME NEW p \in Procs, NEW e \in Emails, EnqueueFails(p, e) PROVE OwnerDelivery'
  BY <1>33 DEF EnqueueFails
<1>34. ASSUME NEW c \in Campaigns, CancelRequest(c) PROVE OwnerDelivery'
  BY <1>34 DEF CancelRequest
<1>35. ASSUME NEW c \in Campaigns, CancelCommit(c) PROVE OwnerDelivery'
  BY <1>35, OwnerFacts DEF CancelCommit, Claimable
<1>36. ASSUME NEW b \in BOOLEAN, SetSender(b) PROVE OwnerDelivery'
  BY <1>36 DEF SetSender
<1>37. CASE Tick
  BY <1>37 DEF Tick
<1>38. CASE UNCHANGED vars
  BY <1>38 DEF vars
<1> QED
  BY <1>1, <1>2, <1>3, <1>4, <1>5, <1>6, <1>7, <1>8, <1>9, <1>10, <1>11, <1>12, <1>13,
     <1>14, <1>15, <1>16, <1>17, <1>18, <1>19, <1>20, <1>21, <1>22, <1>23, <1>24, <1>25,
     <1>26, <1>27, <1>28, <1>29, <1>30, <1>31, <1>32, <1>33, <1>34, <1>35, <1>36, <1>37,
     <1>38
     DEF Next, HandlerStep, HandlerFault, ProcessStep, ApiStep

LEMMA RowDeliveryNext == DeliveryInv /\ [Next]_vars => RowDelivery'
<1> SUFFICES ASSUME DeliveryInv, [Next]_vars PROVE RowDelivery'
  OBVIOUS
<1> USE DEF DeliveryInv, ClaimInv, OwnerDelivery, RowDelivery, Owning, Claimable, TypeOK,
        postgres, tables, outside
<1>1. ASSUME NEW s \in Slots, Take(s) PROVE RowDelivery'
  BY <1>1 DEF Take
<1>2. ASSUME NEW s \in Slots, ReadCampaign(s) PROVE RowDelivery'
  BY <1>2 DEF ReadCampaign
<1>3. ASSUME NEW s \in Slots, CancelRow(s) PROVE RowDelivery'
  BY <1>3 DEF CancelRow, Goto, SetStatus, Claimable
<1>4. ASSUME NEW s \in Slots, Claim(s) PROVE RowDelivery'
  BY <1>4 DEF Claim, Goto, SetStatus, Claimable
<1>5. ASSUME NEW s \in Slots, CheckLimit(s) PROVE RowDelivery'
  BY <1>5 DEF CheckLimit
<1>6. ASSUME NEW s \in Slots, Defer(s) PROVE RowDelivery'
  BY <1>6, OwnerFacts DEF Defer, SetStatus, StatusAfterFailure
<1>7. ASSUME NEW s \in Slots, Requeue(s) PROVE RowDelivery'
  BY <1>7 DEF Requeue
<1>8. ASSUME NEW s \in Slots, SelectSender(s) PROVE RowDelivery'
  BY <1>8 DEF SelectSender
<1>9. ASSUME NEW s \in Slots, NoSender(s) PROVE RowDelivery'
  BY <1>9, OwnerFacts DEF NoSender, SetStatus, StatusAfterFailure
<1>10. ASSUME NEW s \in Slots, Send(s) PROVE RowDelivery'
  BY <1>10, OwnerFacts DEF Send
<1>11. ASSUME NEW s \in Slots, Record(s) PROVE RowDelivery'
  BY <1>11, OwnerFacts DEF Record, SetStatus, CommitSent
<1>12. ASSUME NEW s \in Slots, Catch(s) PROVE RowDelivery'
  BY <1>12, OwnerFacts DEF Catch, SetStatus, StatusAfterFailure
<1>13. ASSUME NEW s \in Slots, CountFail(s) PROVE RowDelivery'
  BY <1>13 DEF CountFail
<1>14. ASSUME NEW s \in Slots, Complete(s) PROVE RowDelivery'
  BY <1>14 DEF Complete, Finish
<1>15. ASSUME NEW s \in Slots, FailJob(s) PROVE RowDelivery'
  BY <1>15 DEF FailJob, Finish
<1>16. ASSUME NEW s \in Slots, SendFails(s) PROVE RowDelivery'
  BY <1>16 DEF SendFails
<1>17. ASSUME NEW s \in Slots, SendReplyLost(s) PROVE RowDelivery'
  BY <1>17 DEF SendReplyLost, Reliable, Spend
<1>18. ASSUME NEW s \in Slots, RecordFails(s) PROVE RowDelivery'
  BY <1>18 DEF RecordFails, Reliable, Spend
<1>19. ASSUME NEW s \in Slots, DbFails(s) PROVE RowDelivery'
  BY <1>19 DEF DbFails, Reliable, Spend
<1>20. ASSUME NEW s \in Slots, RedisFails(s) PROVE RowDelivery'
  BY <1>20 DEF RedisFails
<1>21. ASSUME NEW s \in Slots, LockLoss(s) PROVE RowDelivery'
  BY <1>21 DEF LockLoss
<1>22. ASSUME NEW j \in JobIds, Stalled(j) PROVE RowDelivery'
  BY <1>22 DEF Stalled
<1>23. ASSUME NEW j \in JobIds, Evict(j) PROVE RowDelivery'
  BY <1>23 DEF Evict
<1>24. ASSUME NEW p \in Procs, Crash(p) PROVE RowDelivery'
  BY <1>24 DEF Crash, Die
<1>25. ASSUME NEW p \in Procs, Close(p) PROVE RowDelivery'
  BY <1>25 DEF Close
<1>26. ASSUME NEW p \in Procs, Exit(p) PROVE RowDelivery'
  BY <1>26 DEF Exit, Die
<1>27. ASSUME NEW p \in Procs, Start(p) PROVE RowDelivery'
  BY <1>27 DEF Start
<1>28. ASSUME NEW p \in Procs, ReconcileRead(p) PROVE RowDelivery'
  BY <1>28 DEF ReconcileRead
<1>29. ASSUME NEW p \in Procs, ReconcileRow(p) PROVE RowDelivery'
  BY <1>29 DEF ReconcileRow
<1>30. ASSUME NEW p \in Procs, ReconcileDone(p) PROVE RowDelivery'
  BY <1>30 DEF ReconcileDone
<1>31. ASSUME NEW p \in Procs, NEW c \in Campaigns, CreateCampaign(p, c) PROVE RowDelivery'
  BY <1>31 DEF CreateCampaign, RowsWithCampaign
<1>32. ASSUME NEW p \in Procs, NEW e \in Emails, Enqueue(p, e) PROVE RowDelivery'
  BY <1>32 DEF Enqueue
<1>33. ASSUME NEW p \in Procs, NEW e \in Emails, EnqueueFails(p, e) PROVE RowDelivery'
  BY <1>33 DEF EnqueueFails
<1>34. ASSUME NEW c \in Campaigns, CancelRequest(c) PROVE RowDelivery'
  BY <1>34 DEF CancelRequest
<1>35. ASSUME NEW c \in Campaigns, CancelCommit(c) PROVE RowDelivery'
  BY <1>35 DEF CancelCommit
<1>36. ASSUME NEW b \in BOOLEAN, SetSender(b) PROVE RowDelivery'
  BY <1>36 DEF SetSender
<1>37. CASE Tick
  BY <1>37 DEF Tick
<1>38. CASE UNCHANGED vars
  BY <1>38 DEF vars
<1> QED
  BY <1>1, <1>2, <1>3, <1>4, <1>5, <1>6, <1>7, <1>8, <1>9, <1>10, <1>11, <1>12, <1>13,
     <1>14, <1>15, <1>16, <1>17, <1>18, <1>19, <1>20, <1>21, <1>22, <1>23, <1>24, <1>25,
     <1>26, <1>27, <1>28, <1>29, <1>30, <1>31, <1>32, <1>33, <1>34, <1>35, <1>36, <1>37,
     <1>38
     DEF Next, HandlerStep, HandlerFault, ProcessStep, ApiStep

LEMMA DeliveryNext == DeliveryInv /\ [Next]_vars => DeliveryInv'
  BY ClaimNext, ReliableNext, OwnerDeliveryNext, RowDeliveryNext DEF DeliveryInv, ClaimInv

LEMMA DeliveryCorrect ==
    ASSUME Budget["db"] = 0, Budget["ack"] = 0
    PROVE  Spec => []DeliveryInv
  BY DeliveryInit, DeliveryNext, PTL DEF Spec

\* No recipient gets a campaign's email twice, however many processes crash,
\* locks expire, jobs are redelivered or duplicated by reconciliation
\* (README.md, Idempotency, layers 3 and 4).
THEOREM DeliveredAtMostOnce ==
    ASSUME Budget["db"] = 0, Budget["ack"] = 0
    PROVE  Spec => []AtMostOnce
<1>1. DeliveryInv => AtMostOnce
  BY DEF DeliveryInv, RowDelivery, AtMostOnce
<1> QED
  BY <1>1, DeliveryCorrect, PTL

\* The status column tells whether the message is out
\* (prisma/schema.prisma:170-177, worker/index.ts:54-148).
THEOREM StatusIsTruthful ==
    ASSUME Budget["db"] = 0, Budget["ack"] = 0
    PROVE  Spec => []StatusTruthful
<1>1. DeliveryInv => StatusTruthful
  BY DEF DeliveryInv, RowDelivery, StatusTruthful
<1> QED
  BY <1>1, DeliveryCorrect, PTL

-----------------------------------------------------------------------------
(* Terminal statuses, and the refinement of EmailLifecycle *)

LEMMA TerminalStep ==
    ASSUME ClaimInv, CommitsCertain, [Next]_vars, NEW row \in Emails, status[row] \in Terminal
    PROVE  status'[row] = status[row]
<1> USE DEF ClaimInv, CommitsCertain, Owning, Claimable, Terminal, TypeOK,
        postgres, tables
<1>1. ASSUME NEW s \in Slots, Take(s) PROVE status'[row] = status[row]
  BY <1>1 DEF Take
<1>2. ASSUME NEW s \in Slots, ReadCampaign(s) PROVE status'[row] = status[row]
  BY <1>2 DEF ReadCampaign
<1>3. ASSUME NEW s \in Slots, CancelRow(s) PROVE status'[row] = status[row]
  BY <1>3 DEF CancelRow, SetStatus
<1>4. ASSUME NEW s \in Slots, Claim(s) PROVE status'[row] = status[row]
  BY <1>4 DEF Claim, SetStatus
<1>5. ASSUME NEW s \in Slots, CheckLimit(s) PROVE status'[row] = status[row]
  BY <1>5 DEF CheckLimit
<1>6. ASSUME NEW s \in Slots, Defer(s) PROVE status'[row] = status[row]
  BY <1>6 DEF Defer, SetStatus
<1>7. ASSUME NEW s \in Slots, Requeue(s) PROVE status'[row] = status[row]
  BY <1>7 DEF Requeue
<1>8. ASSUME NEW s \in Slots, SelectSender(s) PROVE status'[row] = status[row]
  BY <1>8 DEF SelectSender
<1>9. ASSUME NEW s \in Slots, NoSender(s) PROVE status'[row] = status[row]
  BY <1>9 DEF NoSender, SetStatus
<1>10. ASSUME NEW s \in Slots, Send(s) PROVE status'[row] = status[row]
  BY <1>10 DEF Send
<1>11. ASSUME NEW s \in Slots, Record(s) PROVE status'[row] = status[row]
  BY <1>11 DEF Record, SetStatus, CommitSent
<1>12. ASSUME NEW s \in Slots, Catch(s) PROVE status'[row] = status[row]
  BY <1>12 DEF Catch, SetStatus
<1>13. ASSUME NEW s \in Slots, CountFail(s) PROVE status'[row] = status[row]
  BY <1>13 DEF CountFail
<1>14. ASSUME NEW s \in Slots, Complete(s) PROVE status'[row] = status[row]
  BY <1>14 DEF Complete, Finish
<1>15. ASSUME NEW s \in Slots, FailJob(s) PROVE status'[row] = status[row]
  BY <1>15 DEF FailJob, Finish
<1>16. ASSUME NEW s \in Slots, SendFails(s) PROVE status'[row] = status[row]
  BY <1>16 DEF SendFails
<1>17. ASSUME NEW s \in Slots, SendReplyLost(s) PROVE status'[row] = status[row]
  BY <1>17 DEF SendReplyLost
<1>18. ASSUME NEW s \in Slots, RecordFails(s) PROVE status'[row] = status[row]
  BY <1>18 DEF RecordFails, Spend
<1>19. ASSUME NEW s \in Slots, DbFails(s) PROVE status'[row] = status[row]
  BY <1>19 DEF DbFails
<1>20. ASSUME NEW s \in Slots, RedisFails(s) PROVE status'[row] = status[row]
  BY <1>20 DEF RedisFails
<1>21. ASSUME NEW s \in Slots, LockLoss(s) PROVE status'[row] = status[row]
  BY <1>21 DEF LockLoss
<1>22. ASSUME NEW j \in JobIds, Stalled(j) PROVE status'[row] = status[row]
  BY <1>22 DEF Stalled
<1>23. ASSUME NEW j \in JobIds, Evict(j) PROVE status'[row] = status[row]
  BY <1>23 DEF Evict
<1>24. ASSUME NEW p \in Procs, Crash(p) PROVE status'[row] = status[row]
  BY <1>24 DEF Crash, Die
<1>25. ASSUME NEW p \in Procs, Close(p) PROVE status'[row] = status[row]
  BY <1>25 DEF Close
<1>26. ASSUME NEW p \in Procs, Exit(p) PROVE status'[row] = status[row]
  BY <1>26 DEF Exit, Die
<1>27. ASSUME NEW p \in Procs, Start(p) PROVE status'[row] = status[row]
  BY <1>27 DEF Start
<1>28. ASSUME NEW p \in Procs, ReconcileRead(p) PROVE status'[row] = status[row]
  BY <1>28 DEF ReconcileRead
<1>29. ASSUME NEW p \in Procs, ReconcileRow(p) PROVE status'[row] = status[row]
  BY <1>29 DEF ReconcileRow
<1>30. ASSUME NEW p \in Procs, ReconcileDone(p) PROVE status'[row] = status[row]
  BY <1>30 DEF ReconcileDone
<1>31. ASSUME NEW p \in Procs, NEW c \in Campaigns, CreateCampaign(p, c) PROVE status'[row] = status[row]
  BY <1>31 DEF CreateCampaign, RowsWithCampaign
<1>32. ASSUME NEW p \in Procs, NEW e \in Emails, Enqueue(p, e) PROVE status'[row] = status[row]
  BY <1>32 DEF Enqueue
<1>33. ASSUME NEW p \in Procs, NEW e \in Emails, EnqueueFails(p, e) PROVE status'[row] = status[row]
  BY <1>33 DEF EnqueueFails
<1>34. ASSUME NEW c \in Campaigns, CancelRequest(c) PROVE status'[row] = status[row]
  BY <1>34 DEF CancelRequest
<1>35. ASSUME NEW c \in Campaigns, CancelCommit(c) PROVE status'[row] = status[row]
  BY <1>35 DEF CancelCommit
<1>36. ASSUME NEW b \in BOOLEAN, SetSender(b) PROVE status'[row] = status[row]
  BY <1>36 DEF SetSender
<1>37. CASE Tick
  BY <1>37 DEF Tick
<1>38. CASE UNCHANGED vars
  BY <1>38 DEF vars
<1> QED
  BY <1>1, <1>2, <1>3, <1>4, <1>5, <1>6, <1>7, <1>8, <1>9, <1>10, <1>11, <1>12, <1>13,
     <1>14, <1>15, <1>16, <1>17, <1>18, <1>19, <1>20, <1>21, <1>22, <1>23, <1>24, <1>25,
     <1>26, <1>27, <1>28, <1>29, <1>30, <1>31, <1>32, <1>33, <1>34, <1>35, <1>36, <1>37,
     <1>38
     DEF Next, HandlerStep, HandlerFault, ProcessStep, ApiStep

\* SENT, FAILED and CANCELLED are final (README.md, Idempotency, layer 4).
THEOREM TerminalIsStable ==
    ASSUME Budget["db"] = 0
    PROVE  Spec => TerminalStable
<1>1. ClaimInv /\ CommitsCertain /\ [Next]_vars
        => [\A e \in Emails : status[e] \in Terminal => status'[e] = status[e]]_vars
  BY TerminalStep
<1> QED
  BY <1>1, CommitsCertainCorrect, PTL DEF Spec, TerminalStable

\* What a handler or a DELETE request remembers of the campaign stays true: a
\* cancelled campaign stays cancelled, an existing one stays in existence.
CampaignMemory ==
    /\ \A s \in Slots : pc[s] = "cancelRow" => campaign[CampaignOfJob(s)] = "CANCELLED"
    /\ \A c \in Campaigns : cancelling[c] > 0 => campaign[c] # "absent"

LEMMA CampaignMemoryNext == TypeOK /\ CampaignMemory /\ [Next]_vars => CampaignMemory'
<1> SUFFICES ASSUME TypeOK, CampaignMemory, [Next]_vars PROVE CampaignMemory'
  OBVIOUS
<1> USE DEF TypeOK, CampaignMemory, CampaignOfJob, EmailOf, postgres, tables, handlers, outside
<1>1. ASSUME NEW s \in Slots, Take(s) PROVE CampaignMemory'
  BY <1>1 DEF Take
<1>2. ASSUME NEW s \in Slots, ReadCampaign(s) PROVE CampaignMemory'
  BY <1>2 DEF ReadCampaign, Goto
<1>3. ASSUME NEW s \in Slots, CancelRow(s) PROVE CampaignMemory'
  BY <1>3 DEF CancelRow, Goto
<1>4. ASSUME NEW s \in Slots, Claim(s) PROVE CampaignMemory'
  BY <1>4 DEF Claim, Goto
<1>5. ASSUME NEW s \in Slots, CheckLimit(s) PROVE CampaignMemory'
  BY <1>5 DEF CheckLimit, Goto
<1>6. ASSUME NEW s \in Slots, Defer(s) PROVE CampaignMemory'
  BY <1>6 DEF Defer, Goto
<1>7. ASSUME NEW s \in Slots, Requeue(s) PROVE CampaignMemory'
  BY <1>7 DEF Requeue, Goto
<1>8. ASSUME NEW s \in Slots, SelectSender(s) PROVE CampaignMemory'
  BY <1>8 DEF SelectSender, Goto
<1>9. ASSUME NEW s \in Slots, NoSender(s) PROVE CampaignMemory'
  BY <1>9 DEF NoSender, Goto
<1>10. ASSUME NEW s \in Slots, Send(s) PROVE CampaignMemory'
  BY <1>10 DEF Send, Goto
<1>11. ASSUME NEW s \in Slots, Record(s) PROVE CampaignMemory'
  BY <1>11 DEF Record, Goto
<1>12. ASSUME NEW s \in Slots, Catch(s) PROVE CampaignMemory'
  BY <1>12 DEF Catch, Goto
<1>13. ASSUME NEW s \in Slots, CountFail(s) PROVE CampaignMemory'
  BY <1>13 DEF CountFail, Goto
<1>14. ASSUME NEW s \in Slots, Complete(s) PROVE CampaignMemory'
  BY <1>14 DEF Complete, Finish
<1>15. ASSUME NEW s \in Slots, FailJob(s) PROVE CampaignMemory'
  BY <1>15 DEF FailJob, Finish
<1>16. ASSUME NEW s \in Slots, SendFails(s) PROVE CampaignMemory'
  BY <1>16 DEF SendFails, Goto
<1>17. ASSUME NEW s \in Slots, SendReplyLost(s) PROVE CampaignMemory'
  BY <1>17 DEF SendReplyLost, Goto
<1>18. ASSUME NEW s \in Slots, RecordFails(s) PROVE CampaignMemory'
  BY <1>18 DEF RecordFails, Goto
<1>19. ASSUME NEW s \in Slots, DbFails(s) PROVE CampaignMemory'
  BY <1>19 DEF DbFails, Goto
<1>20. ASSUME NEW s \in Slots, RedisFails(s) PROVE CampaignMemory'
  BY <1>20 DEF RedisFails, Goto
<1>21. ASSUME NEW s \in Slots, LockLoss(s) PROVE CampaignMemory'
  BY <1>21 DEF LockLoss
<1>22. ASSUME NEW j \in JobIds, Stalled(j) PROVE CampaignMemory'
  BY <1>22 DEF Stalled
<1>23. ASSUME NEW j \in JobIds, Evict(j) PROVE CampaignMemory'
  BY <1>23 DEF Evict
<1>24. ASSUME NEW p \in Procs, Crash(p) PROVE CampaignMemory'
  BY <1>24 DEF Crash, Die
<1>25. ASSUME NEW p \in Procs, Close(p) PROVE CampaignMemory'
  BY <1>25 DEF Close
<1>26. ASSUME NEW p \in Procs, Exit(p) PROVE CampaignMemory'
  BY <1>26 DEF Exit, Die
<1>27. ASSUME NEW p \in Procs, Start(p) PROVE CampaignMemory'
  BY <1>27 DEF Start
<1>28. ASSUME NEW p \in Procs, ReconcileRead(p) PROVE CampaignMemory'
  BY <1>28 DEF ReconcileRead
<1>29. ASSUME NEW p \in Procs, ReconcileRow(p) PROVE CampaignMemory'
  BY <1>29 DEF ReconcileRow
<1>30. ASSUME NEW p \in Procs, ReconcileDone(p) PROVE CampaignMemory'
  BY <1>30 DEF ReconcileDone
<1>31. ASSUME NEW p \in Procs, NEW c \in Campaigns, CreateCampaign(p, c) PROVE CampaignMemory'
  BY <1>31 DEF CreateCampaign
<1>32. ASSUME NEW p \in Procs, NEW e \in Emails, Enqueue(p, e) PROVE CampaignMemory'
  BY <1>32 DEF Enqueue
<1>33. ASSUME NEW p \in Procs, NEW e \in Emails, EnqueueFails(p, e) PROVE CampaignMemory'
  BY <1>33 DEF EnqueueFails
<1>34. ASSUME NEW c \in Campaigns, CancelRequest(c) PROVE CampaignMemory'
  BY <1>34 DEF CancelRequest
<1>35. ASSUME NEW c \in Campaigns, CancelCommit(c) PROVE CampaignMemory'
  BY <1>35 DEF CancelCommit
<1>36. ASSUME NEW b \in BOOLEAN, SetSender(b) PROVE CampaignMemory'
  BY <1>36 DEF SetSender
<1>37. CASE Tick
  BY <1>37 DEF Tick
<1>38. CASE UNCHANGED vars
  BY <1>38 DEF vars
<1> QED
  BY <1>1, <1>2, <1>3, <1>4, <1>5, <1>6, <1>7, <1>8, <1>9, <1>10, <1>11, <1>12, <1>13,
     <1>14, <1>15, <1>16, <1>17, <1>18, <1>19, <1>20, <1>21, <1>22, <1>23, <1>24, <1>25,
     <1>26, <1>27, <1>28, <1>29, <1>30, <1>31, <1>32, <1>33, <1>34, <1>35, <1>36, <1>37,
     <1>38
     DEF Next, HandlerStep, HandlerFault, ProcessStep, ApiStep

LEMMA LifecycleInit == Init => Lifecycle!Init
  BY DEF Init, Lifecycle!Init, mail, MailState, Claimable

\* How one row's move shows in the abstract state.
LEMMA MailMove ==
    ASSUME status \in [Emails -> Statuses], NEW row \in Emails, NEW st,
           status' = [status EXCEPT ![row] = st], delivered' = delivered
    PROVE  mail' = [mail EXCEPT ![row] = MailState(st, delivered[row])]
  BY DEF mail

LEMMA MailStutter == status' = status /\ delivered' = delivered => mail' = mail
  BY DEF mail

RefineInv == DeliveryInv /\ CampaignMemory

LEMMA LifecycleStep ==
    ASSUME RefineInv, [Next]_vars
    PROVE  [Lifecycle!Next]_(Lifecycle!vars)
<1> USE DEF RefineInv, DeliveryInv, ClaimInv, TypeOK, postgres, tables, outside
<1> DEFINE Same == campaign' = campaign /\ mail' = mail
<1>0. Same => [Lifecycle!Next]_(Lifecycle!vars)
  BY DEF Lifecycle!vars
<1> HIDE DEF Same
<1>1. ASSUME NEW s \in Slots, Take(s) PROVE [Lifecycle!Next]_(Lifecycle!vars)
  BY <1>1, <1>0, MailStutter DEF Take, Same
<1>2. ASSUME NEW s \in Slots, ReadCampaign(s) PROVE [Lifecycle!Next]_(Lifecycle!vars)
  BY <1>2, <1>0, MailStutter DEF ReadCampaign, Same
<1>3. ASSUME NEW s \in Slots, CancelRow(s) PROVE [Lifecycle!Next]_(Lifecycle!vars)
  <2>1. EmailOf(s) \in Emails
    BY <1>3, JobFacts DEF CancelRow, EmailOf
  <2>2. CASE status[EmailOf(s)] \in Claimable
    <3>1. mail' = [mail EXCEPT ![EmailOf(s)] = "cancelled"]
      BY <1>3, <2>1, <2>2, MailMove DEF CancelRow, SetStatus, MailState, Claimable
    <3>2. mail[EmailOf(s)] = "waiting"
      BY <2>1, <2>2 DEF mail, MailState, Claimable
    <3>3. Lifecycle!Drop(EmailOf(s))
      BY <1>3, <3>1, <3>2 DEF CancelRow, CampaignMemory, CampaignOfJob, Lifecycle!Drop,
            Lifecycle!Move
    <3> QED
      BY <2>1, <3>3 DEF Lifecycle!Next
  <2>3. CASE status[EmailOf(s)] \notin Claimable
    BY <1>3, <1>0, <2>3, MailStutter DEF CancelRow, Same
  <2> QED
    BY <2>2, <2>3
<1>4. ASSUME NEW s \in Slots, Claim(s) PROVE [Lifecycle!Next]_(Lifecycle!vars)
  <2>1. EmailOf(s) \in Emails
    BY <1>4, JobFacts DEF Claim, EmailOf
  <2>2. CASE status[EmailOf(s)] \in Claimable
    <3>1. delivered[EmailOf(s)] = 0
      BY <2>1, <2>2 DEF RowDelivery
    <3>2. mail' = [mail EXCEPT ![EmailOf(s)] = "claimed"]
      BY <1>4, <2>1, <2>2, <3>1, MailMove DEF Claim, SetStatus, MailState, Claimable
    <3>3. mail[EmailOf(s)] = "waiting"
      BY <2>1, <2>2 DEF mail, MailState, Claimable
    <3>4. Lifecycle!Claim(EmailOf(s))
      BY <1>4, <3>2, <3>3 DEF Claim, Lifecycle!Claim, Lifecycle!Move
    <3> QED
      BY <2>1, <3>4 DEF Lifecycle!Next
  <2>3. CASE status[EmailOf(s)] \notin Claimable
    BY <1>4, <1>0, <2>3, MailStutter DEF Claim, Same
  <2> QED
    BY <2>2, <2>3
<1>5. ASSUME NEW s \in Slots, CheckLimit(s) PROVE [Lifecycle!Next]_(Lifecycle!vars)
  BY <1>5, <1>0, MailStutter DEF CheckLimit, Same
<1>6. ASSUME NEW s \in Slots, Defer(s) PROVE [Lifecycle!Next]_(Lifecycle!vars)
  <2>1. EmailOf(s) \in Emails /\ mail[EmailOf(s)] = "claimed" /\ delivered[EmailOf(s)] = 0
    BY <1>6, OwnerFacts DEF Defer, OwnerDelivery, Owning, mail, MailState, Claimable
  <2>2. mail' = [mail EXCEPT ![EmailOf(s)] = "waiting"]
    BY <1>6, <2>1, MailMove DEF Defer, SetStatus, MailState, Claimable
  <2>3. Lifecycle!PutBack(EmailOf(s))
    BY <1>6, <2>1, <2>2 DEF Defer, Lifecycle!PutBack, Lifecycle!Move
  <2> QED
    BY <2>1, <2>3 DEF Lifecycle!Next
<1>7. ASSUME NEW s \in Slots, Requeue(s) PROVE [Lifecycle!Next]_(Lifecycle!vars)
  BY <1>7, <1>0, MailStutter DEF Requeue, Same
<1>8. ASSUME NEW s \in Slots, SelectSender(s) PROVE [Lifecycle!Next]_(Lifecycle!vars)
  BY <1>8, <1>0, MailStutter DEF SelectSender, Same
<1>9. ASSUME NEW s \in Slots, NoSender(s) PROVE [Lifecycle!Next]_(Lifecycle!vars)
  <2>1. EmailOf(s) \in Emails /\ mail[EmailOf(s)] = "claimed" /\ delivered[EmailOf(s)] = 0
    BY <1>9, OwnerFacts DEF NoSender, OwnerDelivery, Owning, mail, MailState, Claimable
  <2>2. mail' = [mail EXCEPT ![EmailOf(s)] = "waiting"] \/ mail' = [mail EXCEPT ![EmailOf(s)] = "failed"]
    BY <1>9, <2>1, MailMove DEF NoSender, SetStatus, StatusAfterFailure, MailState, Claimable
  <2>3. Lifecycle!PutBack(EmailOf(s)) \/ Lifecycle!GiveUp(EmailOf(s))
    BY <1>9, <2>1, <2>2 DEF NoSender, Lifecycle!PutBack, Lifecycle!GiveUp, Lifecycle!Move
  <2> QED
    BY <2>1, <2>3 DEF Lifecycle!Next
<1>10. ASSUME NEW s \in Slots, Send(s) PROVE [Lifecycle!Next]_(Lifecycle!vars)
  <2>1. EmailOf(s) \in Emails /\ mail[EmailOf(s)] = "claimed" /\ delivered[EmailOf(s)] = 0
    BY <1>10, OwnerFacts DEF Send, OwnerDelivery, Owning, mail, MailState, Claimable
  <2>2. status[EmailOf(s)] = "PROCESSING"
    BY <1>10 DEF Send, OwnerDelivery, Owning
  <2>3. mail' = [mail EXCEPT ![EmailOf(s)] = "handed"]
    <3>1. MailState("PROCESSING", 1) = "handed"
      BY DEF MailState, Claimable
    <3>2. status' = status /\ delivered' = [delivered EXCEPT ![EmailOf(s)] = 1]
      BY <1>10, <2>1 DEF Send
    <3> QED
      BY <2>1, <2>2, <3>1, <3>2 DEF mail
  <2>4. Lifecycle!HandOver(EmailOf(s))
    BY <1>10, <2>1, <2>3 DEF Send, Lifecycle!HandOver, Lifecycle!Move
  <2> QED
    BY <2>1, <2>4 DEF Lifecycle!Next
<1>11. ASSUME NEW s \in Slots, Record(s) PROVE [Lifecycle!Next]_(Lifecycle!vars)
  <2>1. EmailOf(s) \in Emails /\ mail[EmailOf(s)] = "handed"
    BY <1>11, OwnerFacts DEF Record, OwnerDelivery, Owning, mail, MailState, Claimable
  <2>2. mail' = [mail EXCEPT ![EmailOf(s)] = "sent"]
    BY <1>11, <2>1, MailMove DEF Record, CommitSent, SetStatus, MailState, Claimable
  <2>3. Lifecycle!Confirm(EmailOf(s))
    BY <1>11, <2>1, <2>2 DEF Record, Lifecycle!Confirm, Lifecycle!Move
  <2> QED
    BY <2>1, <2>3 DEF Lifecycle!Next
<1>12. ASSUME NEW s \in Slots, Catch(s) PROVE [Lifecycle!Next]_(Lifecycle!vars)
  <2>1. EmailOf(s) \in Emails /\ mail[EmailOf(s)] = "claimed" /\ delivered[EmailOf(s)] = 0
    BY <1>12, OwnerFacts DEF Catch, OwnerDelivery, Owning, mail, MailState, Claimable
  <2>2. mail' = [mail EXCEPT ![EmailOf(s)] = "waiting"] \/ mail' = [mail EXCEPT ![EmailOf(s)] = "failed"]
    BY <1>12, <2>1, MailMove DEF Catch, SetStatus, StatusAfterFailure, MailState, Claimable
  <2>3. Lifecycle!PutBack(EmailOf(s)) \/ Lifecycle!GiveUp(EmailOf(s))
    BY <1>12, <2>1, <2>2 DEF Catch, Lifecycle!PutBack, Lifecycle!GiveUp, Lifecycle!Move
  <2> QED
    BY <2>1, <2>3 DEF Lifecycle!Next
<1>13. ASSUME NEW s \in Slots, CountFail(s) PROVE [Lifecycle!Next]_(Lifecycle!vars)
  BY <1>13, <1>0, MailStutter DEF CountFail, Same
<1>14. ASSUME NEW s \in Slots, Complete(s) PROVE [Lifecycle!Next]_(Lifecycle!vars)
  BY <1>14, <1>0, MailStutter DEF Complete, Same, Finish
<1>15. ASSUME NEW s \in Slots, FailJob(s) PROVE [Lifecycle!Next]_(Lifecycle!vars)
  BY <1>15, <1>0, MailStutter DEF FailJob, Same, Finish
<1>16. ASSUME NEW s \in Slots, SendFails(s) PROVE [Lifecycle!Next]_(Lifecycle!vars)
  BY <1>16, <1>0, MailStutter DEF SendFails, Same
<1>17. ASSUME NEW s \in Slots, SendReplyLost(s) PROVE [Lifecycle!Next]_(Lifecycle!vars)
  BY <1>17 DEF SendReplyLost, Reliable, Spend
<1>18. ASSUME NEW s \in Slots, RecordFails(s) PROVE [Lifecycle!Next]_(Lifecycle!vars)
  BY <1>18 DEF RecordFails, Reliable, Spend
<1>19. ASSUME NEW s \in Slots, DbFails(s) PROVE [Lifecycle!Next]_(Lifecycle!vars)
  BY <1>19, <1>0, MailStutter DEF DbFails, Same
<1>20. ASSUME NEW s \in Slots, RedisFails(s) PROVE [Lifecycle!Next]_(Lifecycle!vars)
  BY <1>20, <1>0, MailStutter DEF RedisFails, Same
<1>21. ASSUME NEW s \in Slots, LockLoss(s) PROVE [Lifecycle!Next]_(Lifecycle!vars)
  BY <1>21, <1>0, MailStutter DEF LockLoss, Same
<1>22. ASSUME NEW j \in JobIds, Stalled(j) PROVE [Lifecycle!Next]_(Lifecycle!vars)
  BY <1>22, <1>0, MailStutter DEF Stalled, Same
<1>23. ASSUME NEW j \in JobIds, Evict(j) PROVE [Lifecycle!Next]_(Lifecycle!vars)
  BY <1>23, <1>0, MailStutter DEF Evict, Same
<1>24. ASSUME NEW p \in Procs, Crash(p) PROVE [Lifecycle!Next]_(Lifecycle!vars)
  BY <1>24, <1>0, MailStutter DEF Crash, Same, Die
<1>25. ASSUME NEW p \in Procs, Close(p) PROVE [Lifecycle!Next]_(Lifecycle!vars)
  BY <1>25, <1>0, MailStutter DEF Close, Same
<1>26. ASSUME NEW p \in Procs, Exit(p) PROVE [Lifecycle!Next]_(Lifecycle!vars)
  BY <1>26, <1>0, MailStutter DEF Exit, Same, Die
<1>27. ASSUME NEW p \in Procs, Start(p) PROVE [Lifecycle!Next]_(Lifecycle!vars)
  BY <1>27, <1>0, MailStutter DEF Start, Same
<1>28. ASSUME NEW p \in Procs, ReconcileRead(p) PROVE [Lifecycle!Next]_(Lifecycle!vars)
  BY <1>28, <1>0, MailStutter DEF ReconcileRead, Same
<1>29. ASSUME NEW p \in Procs, ReconcileRow(p) PROVE [Lifecycle!Next]_(Lifecycle!vars)
  BY <1>29, <1>0, MailStutter DEF ReconcileRow, Same
<1>30. ASSUME NEW p \in Procs, ReconcileDone(p) PROVE [Lifecycle!Next]_(Lifecycle!vars)
  BY <1>30, <1>0, MailStutter DEF ReconcileDone, Same
<1>31. ASSUME NEW p \in Procs, NEW c \in Campaigns, CreateCampaign(p, c)
     PROVE  [Lifecycle!Next]_(Lifecycle!vars)
  <2>1. mail' = [e \in Emails |-> IF CampaignOf[e] = c THEN "waiting" ELSE mail[e]]
    <3>1. \A n : MailState("SCHEDULED", n) = "waiting"
      BY DEF MailState, Claimable
    <3> QED
      BY <1>31, <3>1 DEF CreateCampaign, mail
  <2>2. Lifecycle!Create(c)
    BY <1>31, <2>1 DEF CreateCampaign, Lifecycle!Create
  <2> QED
    BY <2>2 DEF Lifecycle!Next
<1>32. ASSUME NEW p \in Procs, NEW e \in Emails, Enqueue(p, e) PROVE [Lifecycle!Next]_(Lifecycle!vars)
  BY <1>32, <1>0, MailStutter DEF Enqueue, Same
<1>33. ASSUME NEW p \in Procs, NEW e \in Emails, EnqueueFails(p, e) PROVE [Lifecycle!Next]_(Lifecycle!vars)
  BY <1>33, <1>0, MailStutter DEF EnqueueFails, Same
<1>34. ASSUME NEW c \in Campaigns, CancelRequest(c) PROVE [Lifecycle!Next]_(Lifecycle!vars)
  BY <1>34, <1>0, MailStutter DEF CancelRequest, Same
<1>35. ASSUME NEW c \in Campaigns, CancelCommit(c)
     PROVE  [Lifecycle!Next]_(Lifecycle!vars)
  <2>1. mail' = [e \in Emails |-> IF CampaignOf[e] = c /\ mail[e] = "waiting"
                                THEN "cancelled" ELSE mail[e]]
    <3>1. ASSUME NEW e \in Emails
          PROVE  mail'[e] = IF CampaignOf[e] = c /\ mail[e] = "waiting"
                            THEN "cancelled" ELSE mail[e]
      <4>1. mail[e] = "waiting" <=> status[e] \in Claimable
        BY DEF mail, MailState, Claimable, Statuses, Terminal
      <4>2. \A n : MailState("CANCELLED", n) = "cancelled"
        BY DEF MailState, Claimable
      <4> QED
        BY <1>35, <4>1, <4>2 DEF CancelCommit, mail
    <3> QED
      BY <3>1 DEF mail
  <2>2. Lifecycle!Cancel(c)
    BY <1>35, <2>1 DEF CancelCommit, CampaignMemory, Lifecycle!Cancel
  <2> QED
    BY <2>2 DEF Lifecycle!Next
<1>36. ASSUME NEW b \in BOOLEAN, SetSender(b) PROVE [Lifecycle!Next]_(Lifecycle!vars)
  BY <1>36, <1>0, MailStutter DEF SetSender, Same
<1>37. CASE Tick
  BY <1>37, <1>0, MailStutter DEF Tick, Same
<1>38. CASE UNCHANGED vars
  BY <1>38, <1>0, MailStutter DEF vars, Same
<1> QED
  BY <1>1, <1>2, <1>3, <1>4, <1>5, <1>6, <1>7, <1>8, <1>9, <1>10, <1>11, <1>12, <1>13,
     <1>14, <1>15, <1>16, <1>17, <1>18, <1>19, <1>20, <1>21, <1>22, <1>23, <1>24, <1>25,
     <1>26, <1>27, <1>28, <1>29, <1>30, <1>31, <1>32, <1>33, <1>34, <1>35, <1>36, <1>37,
     <1>38
     DEF Next, HandlerStep, HandlerFault, ProcessStep, ApiStep

\* The dispatcher implements EmailLifecycle.
THEOREM DispatchImplementsLifecycle ==
    ASSUME Budget["db"] = 0, Budget["ack"] = 0
    PROVE  Spec => ImplementsLifecycle
<1>1. Init => CampaignMemory
  BY DEF Init, CampaignMemory
<1>2. Spec => []RefineInv
  <2>1. DeliveryInv /\ CampaignMemory /\ [Next]_vars => CampaignMemory'
    BY CampaignMemoryNext DEF DeliveryInv, ClaimInv
  <2> QED
    BY <1>1, <2>1, DeliveryCorrect, PTL DEF Spec, RefineInv
<1>3. RefineInv /\ [Next]_vars => [Lifecycle!Next]_(Lifecycle!vars)
  BY LifecycleStep
<1> QED
  BY <1>2, <1>3, LifecycleInit, PTL DEF Spec, ImplementsLifecycle, Lifecycle!Spec

=============================================================================
