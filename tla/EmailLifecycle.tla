---------------------------- MODULE EmailLifecycle ----------------------------
(***************************************************************************)
(* What the dispatcher promises about one email, whatever queues, worker   *)
(* processes and counters it is built from.                                *)
(*                                                                         *)
(* An email of a campaign waits, is claimed by one worker, is handed to    *)
(* the SMTP server and is then recorded as sent.  A claim may be put back  *)
(* (rate limit, SMTP error) or given up, but only while the message has    *)
(* not been handed over: from "handed" the only way is "sent".  Hence no   *)
(* email is handed over twice.  A cancelled campaign only loses waiting    *)
(* emails.                                                                 *)
(***************************************************************************)
CONSTANTS Campaigns, Emails, CampaignOf

VARIABLES campaign, mail

vars == <<campaign, mail>>

MailStates ==
    {"absent", "waiting", "claimed", "handed", "sent", "failed", "cancelled"}

Init ==
    /\ campaign = [c \in Campaigns |-> "absent"]
    /\ mail = [e \in Emails |-> "absent"]

Move(e, from, to) ==
    /\ mail[e] = from
    /\ mail' = [mail EXCEPT ![e] = to]
    /\ UNCHANGED campaign

\* The campaign row and one row per recipient appear together.
Create(c) ==
    /\ campaign[c] = "absent"
    /\ campaign' = [campaign EXCEPT ![c] = "ACTIVE"]
    /\ mail' = [e \in Emails |-> IF CampaignOf[e] = c THEN "waiting" ELSE mail[e]]

Claim(e)    == Move(e, "waiting", "claimed")
PutBack(e)  == Move(e, "claimed", "waiting")
GiveUp(e)   == Move(e, "claimed", "failed")
HandOver(e) == Move(e, "claimed", "handed")
Confirm(e)  == Move(e, "handed", "sent")

\* The campaign and the emails still waiting are cancelled together.
Cancel(c) ==
    /\ campaign[c] # "absent"
    /\ campaign' = [campaign EXCEPT ![c] = "CANCELLED"]
    /\ mail' = [e \in Emails |->
                  IF CampaignOf[e] = c /\ mail[e] = "waiting"
                  THEN "cancelled" ELSE mail[e]]

\* An email put back after the cancellation is cancelled later.
Drop(e) ==
    /\ campaign[CampaignOf[e]] = "CANCELLED"
    /\ Move(e, "waiting", "cancelled")

Next ==
    \/ \E c \in Campaigns : Create(c) \/ Cancel(c)
    \/ \E e \in Emails :
         Claim(e) \/ PutBack(e) \/ GiveUp(e) \/ HandOver(e) \/ Confirm(e) \/ Drop(e)

Spec == Init /\ [][Next]_vars

=============================================================================
