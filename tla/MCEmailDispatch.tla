---------------------------- MODULE MCEmailDispatch ---------------------------
(* Small instances of EmailDispatch for TLC: the budgets of the runs. *)
EXTENDS EmailDispatchProps, TLC

CONSTANTS c1, e1, e2, p1, p2   \* model values

MCCampaignOf == [e \in Emails |-> c1]

NoFault == [k \in Kinds |-> 0]

\* A crash and a restart, a Redis failure, an SMTP rejection, a change of the
\* sender account, a cancellation.
SafetyBudget == "crash" :> 1 @@ "redis" :> 1 @@ "smtp" :> 1 @@ "sender" :> 1
                @@ "cancel" :> 1 @@ "restart" :> 1 @@ NoFault

\* The database, the SMTP reply, a job's lock and a process fail.
ClaimBudget == "crash" :> 1 @@ "db" :> 1 @@ "ack" :> 1 @@ "lock" :> 1
               @@ "evict" :> 1 @@ "restart" :> 1 @@ NoFault

\* Nothing fails but SMTP; the user cancels.
NormalBudget == "smtp" :> 2 @@ "cancel" :> 1 @@ NoFault

\* Enqueues fail, SMTP rejects, the process is restarted once.
RecoveryBudget == "enqueue" :> 1 @@ "smtp" :> 1 @@ "shutdown" :> 1 @@ "restart" :> 1
                  @@ NoFault

\* Nothing fails; the process is restarted twice.
RestartBudget == "shutdown" :> 2 @@ "restart" :> 2 @@ NoFault

\* One database statement fails.
DatabaseBudget == "db" :> 1 @@ NoFault

\* The process is shut down and restarted once.
ShutdownBudget == "shutdown" :> 1 @@ "restart" :> 1 @@ NoFault

ProcSymmetry == Permutations(Procs)

=============================================================================
