---------------------------- MODULE EmailDispatch -----------------------------
(***************************************************************************)
(* The dispatch of campaign emails: the API that creates and cancels       *)
(* campaigns, the BullMQ queue, the worker processes that run              *)
(* processEmailJob, and the reconciliation at worker startup.              *)
(*                                                                         *)
(* One handler step is the code between two awaits: every database         *)
(* statement, Redis call and SMTP call is one action, and any step of any  *)
(* other process may come between two of them.                             *)
(*                                                                         *)
(* Time is the rate limiter's hour: Tick starts the next window.  A        *)
(* "queued" job may run from now on (BullMQ wait, or a delay that ends     *)
(* within this window); a "deferred" one not before the next window.       *)
(*                                                                         *)
(* Everything that can fail is paid for from the constant Budget, so a     *)
(* configuration says which faults exist and how many of each.             *)
(***************************************************************************)
EXTENDS Integers, FiniteSets

CONSTANTS
    Campaigns, Emails,
    CampaignOf,       \* [Emails -> Campaigns], the campaignId of a row
    Procs,            \* operating system processes (API server with its worker)
    Concurrency,      \* config.worker.concurrency: handlers per worker
    MaxPerHour,       \* the campaigns' maxPerHour
    Attempts,         \* BullMQ defaultJobOptions.attempts
    MaxReschedules,   \* bound: the largest n of a job id <row>-r<n>
    Budget,           \* bound: how often each kind of event below may happen
    NoJob

\* What a budget limits: process crashes, failed database statements, failed
\* Redis calls, lost job locks, SMTP acceptances whose reply is lost, failed
\* enqueues in the API, SMTP rejections, changes of the sender accounts, cancel
\* requests, shutdowns, process starts and evictions of retained jobs.
Kinds == {"crash", "db", "redis", "lock", "ack", "enqueue", "smtp",
          "sender", "cancel", "shutdown", "restart", "evict"}

\* Worker option maxStalledCount.
MaxStalledCount == 1

Slots == Procs \X (1..Concurrency)
Host(s) == s[1]

\* Job ids: the row id, <row>-r<n> after the n-th deferral, <row>-rec<ms>
\* from reconciliation (at most one per row and process start).
JobIds ==
    (Emails \X {"base"} \X {0})
      \cup (Emails \X {"r"} \X (1..MaxReschedules))
      \cup (Emails \X {"rec"} \X (1..Budget["restart"]))
Row(j) == j[1]
BaseJob(e) == <<e, "base", 0>>
DeferredJobReusingId(e, n) == <<e, "base", 0>>        \* mutant
DeferredJob(e, n) == <<e, "r", n>>
RecoveryJob(e, n) == <<e, "rec", n>>

\* job.data.rescheduleCount ?? 0: reconciliation rebuilds the data without it.
RescheduleCount(j) == IF j[2] = "r" THEN j[3] ELSE 0

ASSUME DispatchAssumption ==
    /\ CampaignOf \in [Emails -> Campaigns]
    /\ Concurrency \in Nat \ {0}
    /\ MaxPerHour \in Nat \ {0}
    /\ Attempts \in Nat \ {0}
    /\ MaxReschedules \in Nat
    /\ Budget \in [Kinds -> Nat]
    /\ NoJob \notin JobIds

VARIABLES
    campaign,     \* Postgres: campaigns.status, "absent" before the POST
    status,       \* Postgres: scheduled_emails.status
    sentCount,    \* Postgres: campaigns.sentCount
    failedCount,  \* Postgres: campaigns.failedCount
    nextWindow,   \* Postgres: rows whose scheduledAt lies in a later window
    activeSender, \* Postgres: the user has an active sender account
    jobs,         \* Redis: the BullMQ jobs
    used,         \* Redis: slots taken in this window, rate:<campaign>:<hour>
    pc,           \* per handler: the statement it will run next
    cur,          \* per handler: the job it runs
    made,         \* per handler: job.attemptsMade when it got the job
    lock,         \* per handler: it still holds the job's BullMQ lock
    proc,         \* per process: "down", "starting", "reconciling", "up", "closing"
    toEnqueue,    \* per process: rows its POST handlers have yet to enqueue
    pending,      \* per process: reconciliation's rows still to look at
    cancelling,   \* cancel requests that have passed the status check
    delivered,    \* history: messages the SMTP server accepted, per row
    left          \* what is left of Budget

counters == <<sentCount, failedCount>>
tables   == <<campaign, counters, nextWindow, activeSender>>
postgres == <<status, tables>>
redis    == <<jobs, used>>
handlers == <<pc, cur, made, lock>>
process  == <<proc, toEnqueue, pending>>
outside  == <<cancelling, delivered>>
vars == <<postgres, redis, handlers, process, outside, left>>

ClaimableWithProcessing == {"SCHEDULED", "RESCHEDULED", "PROCESSING"}   \* mutant
Claimable == {"SCHEDULED", "RESCHEDULED"}
Terminal  == {"SENT", "FAILED", "CANCELLED"}
Statuses  == Claimable \cup Terminal \cup {"absent", "PROCESSING"}

Steps == {"idle", "lookup", "cancelRow", "claim", "limit", "defer", "requeue",
          "sender", "noSender", "send", "record", "catch", "countFail",
          "done", "throw"}

\* The steps at which a handler has claimed its row and not yet released it.
Owning == {"limit", "defer", "sender", "noSender", "send", "record", "catch"}

JobStates == {"none", "queued", "deferred", "active", "completed", "failed"}
Job == [st : JobStates, made : 0..Attempts, stalls : 0..MaxStalledCount]
Absent == [st |-> "none", made |-> 0, stalls |-> 0]

EmailOf(s) == Row(cur[s])
CampaignOfJob(s) == CampaignOf[EmailOf(s)]

Spend(k) ==
    /\ left[k] > 0
    /\ left' = [left EXCEPT ![k] = @ - 1]

-----------------------------------------------------------------------------
(* BullMQ, as src/ uses it *)

\* queue.add: a job whose id exists, in whatever state, is ignored.
AddJob(j, st) ==
    jobs' = IF jobs[j].st = "none"
            THEN [jobs EXCEPT ![j] = [Absent EXCEPT !.st = st]]
            ELSE jobs

\* A worker hands a due job to an idle handler and locks it.
Take(s) ==
    /\ proc[Host(s)] = "up"
    /\ pc[s] = "idle"
    /\ \E j \in JobIds :
         /\ jobs[j].st = "queued"
         /\ jobs' = [jobs EXCEPT ![j].st = "active"]
         /\ cur' = [cur EXCEPT ![s] = j]
         /\ made' = [made EXCEPT ![s] = jobs[j].made]
    /\ lock' = [lock EXCEPT ![s] = TRUE]
    /\ pc' = [pc EXCEPT ![s] = "lookup"]
    /\ UNCHANGED <<postgres, used, process, outside, left>>

\* The handler is free again; what it reports needs the lock to be accepted.
Finish(s, st, count) ==
    /\ jobs' = IF lock[s]
               THEN [jobs EXCEPT ![cur[s]].st = st, ![cur[s]].made = count]
               ELSE jobs
    /\ pc' = [pc EXCEPT ![s] = "idle"]
    /\ cur' = [cur EXCEPT ![s] = NoJob]
    /\ made' = [made EXCEPT ![s] = 0]
    /\ lock' = [lock EXCEPT ![s] = FALSE]
    /\ UNCHANGED <<postgres, used, process, outside, left>>

\* processEmailJob returned.
Complete(s) ==
    /\ pc[s] = "done"
    /\ Finish(s, "completed", made[s])

\* processEmailJob threw: the job is retried after a backoff, or fails for good.
FailJob(s) ==
    /\ pc[s] = "throw"
    /\ Finish(s, IF made[s] + 1 < Attempts THEN "queued" ELSE "failed", made[s] + 1)

\* The lock of a running job expires (an event loop or a Redis pause).
LockLoss(s) ==
    /\ lock[s]
    /\ Spend("lock")
    /\ lock' = [lock EXCEPT ![s] = FALSE]
    /\ UNCHANGED <<postgres, redis, pc, cur, made, process, outside>>

\* A worker's stalled check finds an active job that nobody has locked.
Stalled(j) ==
    /\ \E p \in Procs : proc[p] = "up"
    /\ jobs[j].st = "active"
    /\ \A s \in Slots : cur[s] = j => ~lock[s]
    /\ jobs' = IF jobs[j].stalls = MaxStalledCount
               THEN [jobs EXCEPT ![j].st = "failed"]
               ELSE [jobs EXCEPT ![j].st = "queued", ![j].stalls = @ + 1]
    /\ UNCHANGED <<postgres, used, handlers, process, outside, left>>

\* removeOnComplete and removeOnFail end the retention of a finished job.
Evict(j) ==
    /\ jobs[j].st \in {"completed", "failed"}
    /\ Spend("evict")
    /\ jobs' = [jobs EXCEPT ![j] = Absent]
    /\ UNCHANGED <<postgres, used, handlers, process, outside>>

-----------------------------------------------------------------------------
(* The API: POST and DELETE /api/campaigns, sender accounts *)

\* One transaction inserts the campaign and its rows; the handler then owes
\* the queue one job per row.
CreateCampaign(p, c) ==
    /\ proc[p] \in {"starting", "reconciling", "up"}
    /\ campaign[c] = "absent"
    /\ LET rows == {e \in Emails : CampaignOf[e] = c} IN
         /\ status' = [e \in Emails |-> IF e \in rows THEN "SCHEDULED" ELSE status[e]]
         /\ toEnqueue' = [toEnqueue EXCEPT ![p] = @ \cup rows]
    /\ campaign' = [campaign EXCEPT ![c] = "ACTIVE"]
    /\ UNCHANGED <<counters, nextWindow, activeSender, redis, handlers, proc, pending, outside, left>>

Enqueue(p, e) ==
    /\ e \in toEnqueue[p]
    /\ toEnqueue' = [toEnqueue EXCEPT ![p] = @ \ {e}]
    /\ AddJob(BaseJob(e), "queued")
    /\ UNCHANGED <<postgres, used, handlers, proc, pending, outside, left>>

\* The enqueue throws: logged, and the loop goes on with the next row.
EnqueueFails(p, e) ==
    /\ e \in toEnqueue[p]
    /\ Spend("enqueue")
    /\ toEnqueue' = [toEnqueue EXCEPT ![p] = @ \ {e}]
    /\ UNCHANGED <<postgres, redis, handlers, proc, pending, outside>>

\* DELETE reads the campaign's status in one statement ...
CancelRequest(c) ==
    /\ campaign[c] = "ACTIVE"
    /\ Spend("cancel")
    /\ cancelling' = [cancelling EXCEPT ![c] = @ + 1]
    /\ UNCHANGED <<postgres, redis, handlers, process, delivered>>

CancelCommitAll(c) ==                                      \* mutant
    /\ cancelling[c] > 0
    /\ cancelling' = [cancelling EXCEPT ![c] = @ - 1]
    /\ campaign' = [campaign EXCEPT ![c] = "CANCELLED"]
    /\ status' = [e \in Emails |->
                    IF CampaignOf[e] = c /\ status[e] \notin Terminal
                    THEN "CANCELLED" ELSE status[e]]
    /\ UNCHANGED <<counters, nextWindow, activeSender, redis, handlers, process, delivered, left>>

\* ... and cancels the campaign and its waiting rows in a later transaction.
CancelCommit(c) ==
    /\ cancelling[c] > 0
    /\ cancelling' = [cancelling EXCEPT ![c] = @ - 1]
    /\ campaign' = [campaign EXCEPT ![c] = "CANCELLED"]
    /\ status' = [e \in Emails |->
                    IF CampaignOf[e] = c /\ status[e] \in Claimable
                    THEN "CANCELLED" ELSE status[e]]
    /\ UNCHANGED <<counters, nextWindow, activeSender, redis, handlers, process, delivered, left>>

\* POST or DELETE /api/senders adds the only active account or removes it.
SetSender(b) ==
    /\ activeSender # b
    /\ Spend("sender")
    /\ activeSender' = b
    /\ UNCHANGED <<status, campaign, counters, nextWindow, redis, handlers, process, outside>>

-----------------------------------------------------------------------------
(* processEmailJob *)

Goto(s, step) ==
    /\ pc' = [pc EXCEPT ![s] = step]
    /\ UNCHANGED <<cur, made, lock>>

SetStatus(e, st) == status' = [status EXCEPT ![e] = st]

ReadCampaignUnchecked(s) ==                                \* mutant
    /\ pc[s] = "lookup"
    /\ Goto(s, "claim")
    /\ UNCHANGED <<postgres, redis, process, outside, left>>

\* The campaign's status is read ...
ReadCampaign(s) ==
    /\ pc[s] = "lookup"
    /\ Goto(s, IF campaign[CampaignOfJob(s)] = "CANCELLED" THEN "cancelRow" ELSE "claim")
    /\ UNCHANGED <<postgres, redis, process, outside, left>>

CancelRowBlind(s) ==                                       \* mutant
    /\ pc[s] = "cancelRow"
    /\ SetStatus(EmailOf(s), "CANCELLED")
    /\ Goto(s, "done")
    /\ UNCHANGED <<tables, redis, process, outside, left>>

\* ... and the row of a cancelled campaign is cancelled if it still waits.
CancelRow(s) ==
    /\ pc[s] = "cancelRow"
    /\ IF status[EmailOf(s)] \in Claimable
       THEN SetStatus(EmailOf(s), "CANCELLED")
       ELSE UNCHANGED status
    /\ Goto(s, "done")
    /\ UNCHANGED <<tables, redis, process, outside, left>>

\* The conditional UPDATE: one handler gets the row, the others see 0 rows.
Claim(s) ==
    /\ pc[s] = "claim"
    /\ IF status[EmailOf(s)] \in Claimable
       THEN SetStatus(EmailOf(s), "PROCESSING") /\ Goto(s, "limit")
       ELSE UNCHANGED status /\ Goto(s, "done")
    /\ UNCHANGED <<tables, redis, process, outside, left>>

CheckLimitOffByOne(s) ==                                   \* mutant
    /\ pc[s] = "limit"
    /\ LET c == CampaignOfJob(s) IN
         IF used[c] <= MaxPerHour
         THEN used' = [used EXCEPT ![c] = @ + 1] /\ Goto(s, "sender")
         ELSE UNCHANGED used /\ Goto(s, "defer")
    /\ UNCHANGED <<postgres, jobs, process, outside, left>>

\* The Lua script: take one of the window's slots, or be told there is none.
CheckLimit(s) ==
    /\ pc[s] = "limit"
    /\ LET c == CampaignOfJob(s) IN
         IF used[c] < MaxPerHour
         THEN used' = [used EXCEPT ![c] = @ + 1] /\ Goto(s, "sender")
         ELSE UNCHANGED used /\ Goto(s, "defer")
    /\ UNCHANGED <<postgres, jobs, process, outside, left>>

\* Over the limit: the row waits for the next window ...
Defer(s) ==
    /\ pc[s] = "defer"
    /\ SetStatus(EmailOf(s), "RESCHEDULED")
    /\ nextWindow' = nextWindow \cup {EmailOf(s)}
    /\ Goto(s, "requeue")
    /\ UNCHANGED <<campaign, counters, activeSender, redis, process, outside, left>>

\* ... and a job with the next reschedule number is added for it.
Requeue(s) ==
    /\ pc[s] = "requeue"
    /\ RescheduleCount(cur[s]) < MaxReschedules
    /\ AddJob(DeferredJob(EmailOf(s), RescheduleCount(cur[s]) + 1),
              IF EmailOf(s) \in nextWindow THEN "deferred" ELSE "queued")
    /\ Goto(s, "done")
    /\ UNCHANGED <<postgres, used, process, outside, left>>

SelectSender(s) ==
    /\ pc[s] = "sender"
    /\ Goto(s, IF activeSender THEN "send" ELSE "noSender")
    /\ UNCHANGED <<postgres, redis, process, outside, left>>

\* job.attemptsMade + 1 >= job.opts.attempts
IsFinalAttemptOffByOne(s) == made[s] >= Attempts                \* mutant
IsFinalAttempt(s) == made[s] + 1 >= Attempts

\* What a failed attempt leaves in the row.
StatusAfterFailure(s) == IF IsFinalAttempt(s) THEN "FAILED" ELSE "SCHEDULED"

\* No sender: the row is released or failed, and the handler throws.
NoSender(s) ==
    /\ pc[s] = "noSender"
    /\ SetStatus(EmailOf(s), StatusAfterFailure(s))
    /\ Goto(s, "throw")
    /\ UNCHANGED <<tables, redis, process, outside, left>>

\* The SMTP server accepts the message.
Send(s) ==
    /\ pc[s] = "send"
    /\ delivered' = [delivered EXCEPT ![EmailOf(s)] = @ + 1]
    /\ Goto(s, "record")
    /\ UNCHANGED <<postgres, redis, process, cancelling, left>>

SendFailsSwallowed(s) ==                                   \* mutant
    /\ pc[s] = "send"
    /\ Spend("smtp")
    /\ Goto(s, "record")
    /\ UNCHANGED <<postgres, redis, process, outside>>

\* sendMail throws: the server rejected the message ...
SendFails(s) ==
    /\ pc[s] = "send"
    /\ Spend("smtp")
    /\ Goto(s, "catch")
    /\ UNCHANGED <<postgres, redis, process, outside>>

\* ... or accepted it, and the connection broke before the reply.
SendReplyLost(s) ==
    /\ pc[s] = "send"
    /\ Spend("ack")
    /\ delivered' = [delivered EXCEPT ![EmailOf(s)] = @ + 1]
    /\ Goto(s, "catch")
    /\ UNCHANGED <<postgres, redis, process, cancelling>>

CommitSentUncounted(s) ==                                  \* mutant
    /\ SetStatus(EmailOf(s), "SENT")
    /\ UNCHANGED sentCount

\* The transaction that marks the row SENT and counts it.
CommitSent(s) ==
    /\ SetStatus(EmailOf(s), "SENT")
    /\ sentCount' = [sentCount EXCEPT ![CampaignOfJob(s)] = @ + 1]

Record(s) ==
    /\ pc[s] = "record"
    /\ CommitSent(s)
    /\ Goto(s, "done")
    /\ UNCHANGED <<campaign, failedCount, nextWindow, activeSender, redis, process, outside, left>>

\* The transaction is inside the try: when it throws, committed or not, the
\* handler goes where an SMTP error goes.
RecordFails(s) ==
    /\ pc[s] = "record"
    /\ Spend("db")
    /\ \/ UNCHANGED <<status, sentCount>>
       \/ CommitSent(s)
    /\ Goto(s, "catch")
    /\ UNCHANGED <<campaign, failedCount, nextWindow, activeSender, redis, process, outside>>

\* The catch block: FAILED only on the last attempt, else back to SCHEDULED ...
Catch(s) ==
    /\ pc[s] = "catch"
    /\ SetStatus(EmailOf(s), StatusAfterFailure(s))
    /\ Goto(s, IF IsFinalAttempt(s) THEN "countFail" ELSE "throw")
    /\ UNCHANGED <<tables, redis, process, outside, left>>

\* ... and a separate statement counts the failure.
CountFail(s) ==
    /\ pc[s] = "countFail"
    /\ failedCount' = [failedCount EXCEPT ![CampaignOfJob(s)] = @ + 1]
    /\ Goto(s, "throw")
    /\ UNCHANGED <<status, campaign, sentCount, nextWindow, activeSender, redis, process, outside, left>>

\* Any other database statement, or Redis call, that throws ends the handler
\* with no catch block of its own.
DbFails(s) ==
    /\ pc[s] \in {"lookup", "cancelRow", "claim", "defer", "sender", "noSender",
                  "catch", "countFail"}
    /\ Spend("db")
    /\ Goto(s, "throw")
    /\ UNCHANGED <<postgres, redis, process, outside>>

RedisFails(s) ==
    /\ pc[s] \in {"limit", "requeue"}
    /\ Spend("redis")
    /\ Goto(s, "throw")
    /\ UNCHANGED <<postgres, redis, process, outside>>

-----------------------------------------------------------------------------
(* Time, processes and reconciliation *)

\* The next hour begins: fresh rate keys, and what waited for it is due.
Tick ==
    /\ used' = [c \in Campaigns |-> 0]
    /\ jobs' = [j \in JobIds |->
                  IF jobs[j].st = "deferred" THEN [jobs[j] EXCEPT !.st = "queued"]
                  ELSE jobs[j]]
    /\ nextWindow' = {}
    /\ pending' = [p \in Procs |-> {[r EXCEPT !.due = "queued"] : r \in pending[p]}]
    /\ UNCHANGED <<status, campaign, counters, activeSender, handlers, proc, toEnqueue, outside, left>>

\* Everything process p had in memory is gone.
Die(p) ==
    /\ proc' = [proc EXCEPT ![p] = "down"]
    /\ toEnqueue' = [toEnqueue EXCEPT ![p] = {}]
    /\ pending' = [pending EXCEPT ![p] = {}]
    /\ pc' = [s \in Slots |-> IF Host(s) = p THEN "idle" ELSE pc[s]]
    /\ cur' = [s \in Slots |-> IF Host(s) = p THEN NoJob ELSE cur[s]]
    /\ made' = [s \in Slots |-> IF Host(s) = p THEN 0 ELSE made[s]]
    /\ lock' = [s \in Slots |-> IF Host(s) = p THEN FALSE ELSE lock[s]]
    /\ UNCHANGED <<postgres, redis, outside>>

Crash(p) ==
    /\ proc[p] # "down"
    /\ Spend("crash")
    /\ Die(p)

\* SIGTERM runs two shutdown handlers.  The worker's closes the worker, which
\* takes no more jobs, waits for the running ones and exits.  The server's exits
\* when its HTTP server has closed.
Close(p) ==
    /\ proc[p] = "up"
    /\ Spend("shutdown")
    /\ proc' = [proc EXCEPT ![p] = "closing"]
    /\ UNCHANGED <<postgres, redis, handlers, toEnqueue, pending, outside>>

\* The process ends with the first of the two, so neither handlers nor POST
\* requests are waited for.
Exit(p) ==
    /\ proc[p] = "closing"
    /\ Die(p)
    /\ UNCHANGED left

Start(p) ==
    /\ proc[p] = "down"
    /\ Spend("restart")
    /\ proc' = [proc EXCEPT ![p] = "starting"]
    /\ UNCHANGED <<postgres, redis, handlers, toEnqueue, pending, outside>>

\* reconcileOrphanedJobs reads the waiting rows of active campaigns, and
\* when each is due ...
ReconcileRead(p) ==
    /\ proc[p] = "starting"
    /\ LET rows == {e \in Emails : /\ status[e] \in Claimable
                                   /\ campaign[CampaignOf[e]] = "ACTIVE"}
       IN pending' = [pending EXCEPT ![p] =
                        {[row |-> e, due |-> IF e \in nextWindow THEN "deferred"
                                             ELSE "queued"] : e \in rows}]
    /\ proc' = [proc EXCEPT ![p] = "reconciling"]
    /\ UNCHANGED <<postgres, redis, handlers, toEnqueue, outside, left>>

HasBaseJobInverted(e) == jobs[BaseJob(e)].st = "none"            \* mutant
HasBaseJob(e) == jobs[BaseJob(e)].st # "none"

\* ... and adds a job, under a fresh id, for each that has no job with the
\* row's own id.  (The lookup and the add are two Redis calls; the API's add of
\* the base job between them commutes with the recovery job's.)
ReconcileRow(p) ==
    \E r \in pending[p] :
      /\ pending' = [pending EXCEPT ![p] = @ \ {r}]
      /\ IF HasBaseJob(r.row)
         THEN UNCHANGED jobs
         ELSE \E n \in 1..Budget["restart"] :
                /\ jobs[RecoveryJob(r.row, n)].st = "none"
                /\ AddJob(RecoveryJob(r.row, n), r.due)
      /\ UNCHANGED <<postgres, used, handlers, proc, toEnqueue, outside, left>>

\* The worker starts taking jobs only after reconciliation.
ReconcileDone(p) ==
    /\ proc[p] = "reconciling"
    /\ pending[p] = {}
    /\ proc' = [proc EXCEPT ![p] = "up"]
    /\ UNCHANGED <<postgres, redis, handlers, toEnqueue, pending, outside, left>>

-----------------------------------------------------------------------------
Init ==
    /\ campaign = [c \in Campaigns |-> "absent"]
    /\ status = [e \in Emails |-> "absent"]
    /\ sentCount = [c \in Campaigns |-> 0]
    /\ failedCount = [c \in Campaigns |-> 0]
    /\ nextWindow = {}
    /\ activeSender = TRUE
    /\ jobs = [j \in JobIds |-> Absent]
    /\ used = [c \in Campaigns |-> 0]
    /\ pc = [s \in Slots |-> "idle"]
    /\ cur = [s \in Slots |-> NoJob]
    /\ made = [s \in Slots |-> 0]
    /\ lock = [s \in Slots |-> FALSE]
    /\ proc = [p \in Procs |-> "up"]
    /\ toEnqueue = [p \in Procs |-> {}]
    /\ pending = [p \in Procs |-> {}]
    /\ cancelling = [c \in Campaigns |-> 0]
    /\ delivered = [e \in Emails |-> 0]
    /\ left = Budget

\* The steps a live worker takes by itself, and those it takes only by fault.
HandlerStep(s) ==
    \/ ReadCampaign(s) \/ CancelRow(s) \/ Claim(s) \/ CheckLimit(s) \/ Defer(s)
    \/ Requeue(s) \/ SelectSender(s) \/ NoSender(s) \/ Send(s) \/ Record(s)
    \/ Catch(s) \/ CountFail(s) \/ Complete(s) \/ FailJob(s)

HandlerFault(s) ==
    \/ SendFails(s) \/ SendReplyLost(s) \/ RecordFails(s) \/ DbFails(s)
    \/ RedisFails(s) \/ LockLoss(s)

ProcessStep(p) ==
    \/ Crash(p) \/ Close(p) \/ Exit(p) \/ Start(p)
    \/ ReconcileRead(p) \/ ReconcileRow(p) \/ ReconcileDone(p)

ApiStep ==
    \/ \E p \in Procs :
         \/ \E c \in Campaigns : CreateCampaign(p, c)
         \/ \E e \in Emails : Enqueue(p, e) \/ EnqueueFails(p, e)
    \/ \E c \in Campaigns : CancelRequest(c) \/ CancelCommit(c)
    \/ \E b \in BOOLEAN : SetSender(b)

Next ==
    \/ \E s \in Slots : Take(s) \/ HandlerStep(s) \/ HandlerFault(s)
    \/ \E j \in JobIds : Stalled(j) \/ Evict(j)
    \/ \E p \in Procs : ProcessStep(p)
    \/ ApiStep
    \/ Tick

Spec == Init /\ [][Next]_vars

\* Fairness: a process that is up keeps running its handlers, its loops and its
\* startup, BullMQ keeps handing out due jobs and finding stalled ones, and
\* hours pass.  No user request, fault, shutdown or restart is ever due.
Fairness ==
    /\ \A s \in Slots : WF_vars(HandlerStep(s)) /\ WF_vars(Take(s))
    /\ \A j \in JobIds : WF_vars(Stalled(j))
    /\ \A p \in Procs : /\ \A e \in Emails : WF_vars(Enqueue(p, e))
                        /\ WF_vars(ReconcileRead(p))
                        /\ WF_vars(ReconcileRow(p))
                        /\ WF_vars(ReconcileDone(p))
    /\ WF_vars(Tick)

FairSpec == Spec /\ Fairness

\* A supervisor restarts a process that has ended, while restarts are left.
SupervisedSpec ==
    FairSpec /\ \A p \in Procs : WF_vars(Start(p)) /\ WF_vars(Exit(p))

=============================================================================
