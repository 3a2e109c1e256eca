------------------------------- MODULE Deferral -------------------------------
(***************************************************************************)
(* The emails of one campaign before the hourly limit: each has a planned  *)
(* instant, waits in the queue for it, asks RateLimiter for a slot, and is *)
(* sent or deferred past the next full hour.  The workers' steps are those *)
(* of RateLimiter, taken together with what they do to the email in hand.  *)
(*                                                                         *)
(* Failing calls and restarts are the subject of EmailDispatch; here only  *)
(* an attempt fails (no sender, SMTP), because it costs a slot.            *)
(***************************************************************************)
EXTENDS RateLimiter

CONSTANTS
    Emails,       \* the rows of the campaign
    Spacings,     \* the values of minDelayMs to look at, in ticks
    Stagger,      \* config.worker.minEmailDelayMs, in ticks
    MaxFaults,    \* bound: failed attempts
    NoEmail

ASSUME DeferralAssumption ==
    /\ IsFiniteSet(Emails)
    /\ Spacings \subseteq Nat
    /\ Stagger \in Nat
    /\ MaxFaults \in Nat
    /\ NoEmail \notin Emails

VARIABLES
    place,        \* per email: "unqueued", "queued", "held" or "ended"
    scheduledAt,  \* Postgres: scheduled_emails.scheduledAt; 0 once the row has ended
    due,          \* Redis: when the email's waiting job may run
    count,        \* Redis: rescheduleCount in its job's data, 0 without a job
    holds,        \* per worker: the email it has claimed
    delayMs,      \* per worker: the delay it has computed for a deferral, or -1
    faults        \* history: failed attempts

queue == <<place, scheduledAt, due, count>>
work  == <<holds, delayMs>>
dvars == <<vars, queue, work, faults>>

Now == hour * Ticks + tick

\* Math.max(0, scheduledAt - Date.now()), from now.
NotBefore(t) == IF t > Now THEN t ELSE Now

-----------------------------------------------------------------------------
\* scheduleEmailJob, by the POST handler or later by reconciliation.
Enqueue(e) ==
    /\ place[e] = "unqueued"
    /\ place' = [place EXCEPT ![e] = "queued"]
    /\ due' = [due EXCEPT ![e] = NotBefore(scheduledAt[e])]
    /\ UNCHANGED <<vars, scheduledAt, count, work, faults>>

TakeAnyRow(w, e) ==                                               \* mutant
    /\ place[e] \in {"queued", "held"}
    /\ due[e] <= Now
    /\ holds[w] = NoEmail
    /\ GetKey(w)
    /\ place' = [place EXCEPT ![e] = "held"]
    /\ holds' = [holds EXCEPT ![w] = e]
    /\ due' = [due EXCEPT ![e] = 0]
    /\ UNCHANGED <<scheduledAt, count, delayMs, faults>>

\* A due job is taken, its row claimed, and the key of the hour named.
Take(w, e) ==
    /\ place[e] = "queued"
    /\ due[e] <= Now
    /\ holds[w] = NoEmail
    /\ GetKey(w)
    /\ place' = [place EXCEPT ![e] = "held"]
    /\ holds' = [holds EXCEPT ![w] = e]
    /\ due' = [due EXCEPT ![e] = 0]
    /\ UNCHANGED <<scheduledAt, count, delayMs, faults>>

AskLimit(w) ==
    /\ Eval(w)
    /\ UNCHANGED <<queue, work, faults>>

UntilThisHour == 0                                                \* mutant
MsUntilNextHour == Ticks - tick

\* Refused: the delay is computed from the clock as it is then, and the row
\* is set to RESCHEDULED with the new time ...
Defer(w) ==
    LET e == holds[w]
        wait == MsUntilNextHour + (count[e] + 1) * Stagger
    IN
    /\ e # NoEmail
    /\ pc[w] = "idle"
    /\ delayMs[w] = -1
    /\ delayMs' = [delayMs EXCEPT ![w] = wait]
    /\ scheduledAt' = [scheduledAt EXCEPT ![e] = Now + wait]
    /\ UNCHANGED <<vars, place, due, count, holds, faults>>

RequeueAtOnce(w) ==                                               \* mutant
    LET e == holds[w] IN
    /\ delayMs[w] # -1
    /\ place' = [place EXCEPT ![e] = "queued"]
    /\ due' = [due EXCEPT ![e] = Now]
    /\ count' = [count EXCEPT ![e] = @ + 1]
    /\ holds' = [holds EXCEPT ![w] = NoEmail]
    /\ delayMs' = [delayMs EXCEPT ![w] = -1]
    /\ UNCHANGED <<vars, scheduledAt, faults>>

\* ... and the queue counts the same delay from the moment of the add.
Requeue(w) ==
    LET e == holds[w] IN
    /\ delayMs[w] # -1
    /\ place' = [place EXCEPT ![e] = "queued"]
    /\ due' = [due EXCEPT ![e] = Now + delayMs[w]]
    /\ count' = [count EXCEPT ![e] = @ + 1]
    /\ holds' = [holds EXCEPT ![w] = NoEmail]
    /\ delayMs' = [delayMs EXCEPT ![w] = -1]
    /\ UNCHANGED <<vars, scheduledAt, faults>>

\* The email leaves the worker's hands.  A failed attempt is retried by the same
\* job after a backoff, seconds where a tick is a part of an hour; otherwise the
\* job has ended.
Release(w, p) ==
    LET e == holds[w] IN
    /\ place' = [place EXCEPT ![e] = p]
    /\ due' = [due EXCEPT ![e] = IF p = "queued" THEN Now ELSE 0]
    /\ count' = [count EXCEPT ![e] = IF p = "queued" THEN @ ELSE 0]
    /\ scheduledAt' = [scheduledAt EXCEPT ![e] = IF p = "queued" THEN @ ELSE 0]
    /\ holds' = [holds EXCEPT ![w] = NoEmail]
    /\ UNCHANGED delayMs

Deliver(w) ==
    /\ Send(w)
    /\ Release(w, "ended")
    /\ UNCHANGED faults

Fail(w) ==
    /\ faults < MaxFaults
    /\ Waste(w)
    /\ \E p \in {"queued", "ended"} : Release(w, p)
    /\ faults' = faults + 1

TimePasses ==
    /\ Advance
    /\ UNCHANGED <<queue, work, faults>>

\* email[i] is planned for startAt + i * minDelayMs; the clock starts at startAt.
Planned(spacing, position) == [e \in Emails |-> position[e] * spacing]

DeferralInit ==
    /\ Init
    /\ place = [e \in Emails |-> "unqueued"]
    /\ \E spacing \in Spacings :
         \E position \in [Emails -> 0..(Cardinality(Emails) - 1)] :
           /\ \A e, f \in Emails : position[e] = position[f] => e = f
           /\ scheduledAt = Planned(spacing, position)
    /\ due = [e \in Emails |-> 0]
    /\ count = [e \in Emails |-> 0]
    /\ holds = [w \in Workers |-> NoEmail]
    /\ delayMs = [w \in Workers |-> -1]
    /\ faults = 0

DeferralNext ==
    \/ \E e \in Emails : Enqueue(e)
    \/ \E w \in Workers, e \in Emails : Take(w, e)
    \/ \E w \in Workers :
         AskLimit(w) \/ Defer(w) \/ Requeue(w) \/ Deliver(w) \/ Fail(w)
    \/ TimePasses

DeferralSpec == DeferralInit /\ [][DeferralNext]_dvars

-----------------------------------------------------------------------------
\* Types.  A worker that asks for a slot or has one holds an email, and an
\* email is held by exactly one worker (worker/index.ts:37-74).
DeferralTypeOK ==
    /\ place \in [Emails -> {"unqueued", "queued", "held", "ended"}]
    /\ scheduledAt \in [Emails -> Nat]
    /\ due \in [Emails -> Nat]
    /\ count \in [Emails -> Nat]
    /\ holds \in [Workers -> Emails \cup {NoEmail}]
    /\ delayMs \in [Workers -> Nat \cup {-1}]
    /\ faults \in 0..MaxFaults
    /\ \A w \in Workers : pc[w] # "idle" \/ delayMs[w] # -1 => holds[w] # NoEmail
    /\ \A e \in Emails : (place[e] = "held") <=> (\E w \in Workers : holds[w] = e)
    /\ \A v, w \in Workers : holds[v] = holds[w] => v = w \/ holds[v] = NoEmail

Ended == {e \in Emails : place[e] = "ended"}
Granted == {w \in Workers : pc[w] = "granted"}

\* "Over-limit emails are never dropped" (README.md:73), nor put off for ever:
\* each deferral of an email stands for a full hour's slots that went to others,
\* who sent their message or failed.  All deferred emails wake together and race
\* for the slots (worker/index.ts:55-56), yet none can be put off for more than
\* the Math.ceil(count / maxPerHour) hours that the compose form projects
\* (frontend/app/dashboard/page.tsx:47), failed attempts apart.
DeferralsProjected ==
    \A e \in Emails :
        count[e] * MaxPerHour <= Cardinality(Ended) + faults + Cardinality(Granted)

\* No attempt is made before the time its row shows, the planned one or the one
\* of its last deferral (api/routes/campaigns.ts:81, worker/index.ts:56-70): the
\* row's time and the job's delay are computed and written at different moments,
\* and the job's is never the earlier one.
NeverEarly ==
    [][\A e \in Emails :
         place[e] # "held" /\ place'[e] = "held" => scheduledAt[e] <= Now]_dvars

=============================================================================
