-------------------------- MODULE EmailDispatchProps --------------------------
(* What the dispatcher of EmailDispatch is to guarantee. *)
EXTENDS EmailDispatch

\* Types.  A handler that is not idle has a job, and a job that can still run
\* has attempts left (worker/index.ts:17-76, the job processEmailJob is given).
TypeOK ==
    /\ campaign \in [Campaigns -> {"absent", "ACTIVE", "CANCELLED"}]
    /\ status \in [Emails -> Statuses]
    /\ sentCount \in [Campaigns -> Nat]
    /\ failedCount \in [Campaigns -> Nat]
    /\ nextWindow \subseteq Emails
    /\ activeSender \in BOOLEAN
    /\ jobs \in [JobIds -> Job]
    /\ used \in [Campaigns -> 0..MaxPerHour]
    /\ pc \in [Slots -> Steps]
    /\ cur \in [Slots -> JobIds \cup {NoJob}]
    /\ made \in [Slots -> 0..(Attempts - 1)]
    /\ lock \in [Slots -> BOOLEAN]
    /\ proc \in [Procs -> {"down", "starting", "reconciling", "up", "closing"}]
    /\ toEnqueue \in [Procs -> SUBSET Emails]
    /\ pending \in [Procs -> SUBSET [row : Emails, due : {"queued", "deferred"}]]
    /\ cancelling \in [Campaigns -> Nat]
    /\ delivered \in [Emails -> Nat]
    /\ left \in [Kinds -> Nat]
    /\ \A s \in Slots : (pc[s] = "idle") <=> (cur[s] = NoJob)
    /\ \A j \in JobIds :
         jobs[j].st \in {"queued", "deferred", "active"} => jobs[j].made < Attempts

Owns(s, e) == pc[s] \in Owning /\ EmailOf(s) = e

\* The claim is exclusive: at any moment at most one handler, in any process,
\* is between the claim of a row and its release, and the row says PROCESSING
\* meanwhile.  Redelivered jobs, lost locks, duplicate jobs from reconciliation
\* and crashes do not break it (worker/index.ts:37-49, "the load-bearing guard").
\* The one exception is a handler whose SENT transaction failed ambiguously.
SingleOwner ==
    \A s \in Slots, e \in Emails :
        Owns(s, e) =>
          /\ status[e] = "PROCESSING" \/ (status[e] = "SENT" /\ pc[s] = "catch")
          /\ \A t \in Slots : Owns(t, e) => t = s

\* No recipient gets a campaign's email twice (README.md, Idempotency).
AtMostOnce == \A e \in Emails : delivered[e] <= 1

\* The status shown to the user is true: SENT means the SMTP server took the
\* message, and any other status but PROCESSING means it did not, so a retry,
\* a deferral or a cancellation never concerns an email that is already out.
StatusTruthful ==
    \A e \in Emails :
        /\ status[e] = "SENT" => delivered[e] = 1
        /\ status[e] \in Claimable \cup {"FAILED", "CANCELLED"} => delivered[e] = 0

\* SENT, FAILED and CANCELLED are final: no retry, late handler, deferral or
\* cancel request moves a row out of them.
TerminalStable ==
    [][\A e \in Emails : status[e] \in Terminal => status'[e] = status[e]]_vars

\* The tables and the machines are finite, so that rows can be counted.
ASSUME FinitenessAssumption == IsFiniteSet(Emails) /\ IsFiniteSet(Procs)

RowsOf(c, st) == {e \in Emails : CampaignOf[e] = c /\ status[e] = st}

\* The handlers that have marked a row FAILED and still owe the counter its increment.
Uncounted(c) == {s \in Slots : pc[s] = "countFail" /\ CampaignOfJob(s) = c}

SentCounted == \A c \in Campaigns : sentCount[c] = Cardinality(RowsOf(c, "SENT"))

FailuresCounted ==
    \A c \in Campaigns :
        failedCount[c] + Cardinality(Uncounted(c)) <= Cardinality(RowsOf(c, "FAILED"))

\* The campaign's counters agree with its rows: sentCount exactly, because row
\* and counter change in one transaction; failedCount never exceeds the failed
\* rows, even counting the increments still to come.  (It may stay below: the
\* no-sender path does not count, and a crash may separate the two writes.)
CountersSound == SentCounted /\ FailuresCounted

\* A handler that has yet to claim row e, to add its next job or to have its own
\* job retried.
WillReturn(s, e) ==
    /\ pc[s] # "idle"
    /\ EmailOf(s) = e
    /\ \/ pc[s] \in {"lookup", "claim", "requeue"}
       \/ pc[s] = "throw" /\ ~IsFinalAttempt(s)

\* Row e has a job that will still look at it, or a handler about to add one.
HasFuture(e) ==
    \/ \E p \in Procs : e \in toEnqueue[p]
    \/ \E j \in JobIds : Row(j) = e /\ jobs[j].st \in {"queued", "deferred"}
    \/ \E s \in Slots : WillReturn(s, e)

\* Without faults no email is stranded: a row that waits under an active
\* campaign always has a job, or a handler that is about to create one.
NoOrphan ==
    \A e \in Emails :
        (status[e] \in Claimable /\ campaign[CampaignOf[e]] = "ACTIVE") => HasFuture(e)

\* "Over-limit emails are never dropped": a row that the rate limit deferred
\* always has a job, or a handler that is about to create one.
DeferredNotDropped ==
    \A e \in Emails :
        (status[e] = "RESCHEDULED" /\ campaign[CampaignOf[e]] = "ACTIVE") => HasFuture(e)

\* After a cancellation nothing is claimed any more, although the campaign is
\* read before, not in, the claiming UPDATE.
NoClaimAfterCancel ==
    [][\A e \in Emails :
         status[e] \in Claimable /\ status'[e] = "PROCESSING"
           => campaign[CampaignOf[e]] = "ACTIVE"]_vars

\* Every email of a campaign comes to an end, through rejections, rate-limited
\* windows and cancellations: SENT, FAILED or CANCELLED.
EventuallyTerminal ==
    \A e \in Emails : (status[e] = "SCHEDULED") ~> (status[e] \in Terminal)

\* No email is lost: once written it ends SENT, FAILED or CANCELLED, or is at
\* least delivered ("survive process restarts without losing or duplicating
\* emails", README.md:3-5, less the silent success that README.md:109-116 admits).
NeverLost ==
    \A e \in Emails :
        (status[e] = "SCHEDULED") ~> (status[e] \in Terminal \/ delivered[e] > 0)

\* A row that the API wrote, for which no job exists or is still to come.
Unqueued(e) ==
    /\ status[e] = "SCHEDULED"
    /\ campaign[CampaignOf[e]] = "ACTIVE"
    /\ \A p \in Procs : e \notin toEnqueue[p]
    /\ \A j \in JobIds : Row(j) = e => jobs[j].st = "none"

\* The dual-write gap is closed at the next worker start: a row whose job was
\* never enqueued, because the enqueue failed or the process ended in the
\* middle of the POST, is found by reconciliation and comes to an end.
EnqueueGapRecovered ==
    \A p \in Procs, e \in Emails :
        (proc[p] = "starting" /\ Unqueued(e)) ~> (status[e] \in Terminal)

\* The promise of EmailLifecycle, read off the dispatcher's state: a claimed
\* email is handed over once the SMTP server has accepted it.
MailState(st, n) ==
    CASE st = "absent"      -> "absent"
      [] st \in Claimable   -> "waiting"
      [] st = "PROCESSING"  -> IF n = 0 THEN "claimed" ELSE "handed"
      [] st = "SENT"        -> "sent"
      [] st = "FAILED"      -> "failed"
      [] st = "CANCELLED"   -> "cancelled"

mail == [e \in Emails |-> MailState(status[e], delivered[e])]

Lifecycle == INSTANCE EmailLifecycle WITH campaign <- campaign, mail <- mail

\* The dispatcher implements EmailLifecycle: every step of every process is a
\* step of one email's life, or changes nothing in it.
ImplementsLifecycle == Lifecycle!Spec

=============================================================================
