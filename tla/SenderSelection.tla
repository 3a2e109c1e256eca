---------------------------- MODULE SenderSelection ---------------------------
(***************************************************************************)
(* The sender accounts of one user: the API that adds and deactivates      *)
(* them, and the workers that choose the least recently used one.          *)
(*                                                                         *)
(* selectSender is an interactive READ COMMITTED transaction: it reads,    *)
(* takes a time stamp, and writes it.  The row lock of the write orders    *)
(* the commits and nothing else, so the read of another worker may come    *)
(* anywhere in between.  (EmailDispatch only asks whether there is an      *)
(* account at all.)                                                        *)
(***************************************************************************)
EXTENDS Integers, FiniteSets

CONSTANTS
    Accounts,   \* every account the user may ever create
    Workers,    \* handlers, in all processes together
    LastTime,   \* bound: the clock stops here
    NoAccount

ASSUME SenderAssumption ==
    /\ IsFiniteSet(Accounts)
    /\ IsFiniteSet(Workers)
    /\ LastTime \in Nat \ {0}
    /\ NoAccount \notin Accounts

VARIABLES
    now,        \* the clock, in milliseconds
    account,    \* Postgres: "absent", "active" or "inactive"
    lastUsedAt, \* Postgres: sender_accounts.lastUsedAt
    pc,         \* per worker: where it is in selectSender and sendEmail
    pick,       \* per worker: the account it has read
    stamp,      \* per worker: the last new Date() it took here
    tardy       \* history: messages sent through an account once inactive

rows == <<account, lastUsedAt>>
local == <<pc, pick, stamp>>
vars == <<now, rows, local, tardy>>

Times == 0..LastTime

Active == {a \in Accounts : account[a] = "active"}

-----------------------------------------------------------------------------
\* POST /api/senders: a new account counts as used just now.
AddAccount(a) ==
    /\ account[a] = "absent"
    /\ account' = [account EXCEPT ![a] = "active"]
    /\ lastUsedAt' = [lastUsedAt EXCEPT ![a] = now]
    /\ UNCHANGED <<now, local, tardy>>

\* DELETE /api/senders/:id.
Deactivate(a) ==
    /\ account[a] = "active"
    /\ account' = [account EXCEPT ![a] = "inactive"]
    /\ UNCHANGED <<now, lastUsedAt, local, tardy>>

LeastRecentlyUsedOfAll ==                                              \* mutant
    LET known == {a \in Accounts : account[a] # "absent"} IN
    {a \in known : \A b \in known : lastUsedAt[a] <= lastUsedAt[b]}

\* isActive = true, orderBy lastUsedAt asc; Postgres breaks ties as it likes.
LeastRecentlyUsed ==
    {a \in Active : \A b \in Active : lastUsedAt[a] <= lastUsedAt[b]}

FindUnchecked(w) ==                                                    \* mutant
    /\ pc[w] = "idle"
    /\ \E a \in IF Active = {} THEN {NoAccount} ELSE LeastRecentlyUsed :
         /\ pick' = [pick EXCEPT ![w] = a]
         /\ pc' = [pc EXCEPT ![w] = "found"]
    /\ UNCHANGED <<now, rows, stamp, tardy>>

\* findFirst; without an active account selectSender returns null at once.
Find(w) ==
    /\ pc[w] = "idle"
    /\ \E a \in LeastRecentlyUsed :
         /\ pick' = [pick EXCEPT ![w] = a]
         /\ pc' = [pc EXCEPT ![w] = "found"]
    /\ UNCHANGED <<now, rows, stamp, tardy>>

\* new Date().  A handler's next selection is not in the same millisecond: an
\* SMTP conversation lies between the two.
Stamp(w) ==
    /\ pc[w] = "found"
    /\ now > stamp[w]
    /\ stamp' = [stamp EXCEPT ![w] = now]
    /\ pc' = [pc EXCEPT ![w] = "stamped"]
    /\ UNCHANGED <<now, rows, pick, tardy>>

\* The write becomes visible with the commit.
Commit(w) ==
    /\ pc[w] = "stamped"
    /\ lastUsedAt' = [lastUsedAt EXCEPT ![pick[w]] = stamp[w]]
    /\ pc' = [pc EXCEPT ![w] = "sending"]
    /\ UNCHANGED <<now, account, pick, stamp, tardy>>

\* The transaction fails: the handler throws without having sent.
Abort(w) ==
    /\ pc[w] \in {"found", "stamped"}
    /\ pc' = [pc EXCEPT ![w] = "idle"]
    /\ UNCHANGED <<now, rows, pick, stamp, tardy>>

\* The message goes out with the credentials that were read.
Send(w) ==
    /\ pc[w] = "sending"
    /\ pc' = [pc EXCEPT ![w] = "idle"]
    /\ tardy' = [tardy EXCEPT ![pick[w]] =
                   IF account[pick[w]] = "inactive" THEN @ + 1 ELSE @]
    /\ UNCHANGED <<now, rows, pick, stamp>>

Tick ==
    /\ now < LastTime
    /\ now' = now + 1
    /\ UNCHANGED <<rows, local, tardy>>

Init ==
    /\ now = 1
    /\ account = [a \in Accounts |-> "absent"]
    /\ lastUsedAt = [a \in Accounts |-> 0]
    /\ pc = [w \in Workers |-> "idle"]
    /\ pick = [w \in Workers |-> NoAccount]
    /\ stamp = [w \in Workers |-> 0]
    /\ tardy = [a \in Accounts |-> 0]

Next ==
    \/ \E a \in Accounts : AddAccount(a) \/ Deactivate(a)
    \/ \E w \in Workers : Find(w) \/ Stamp(w) \/ Commit(w) \/ Abort(w) \/ Send(w)
    \/ Tick

Spec == Init /\ [][Next]_vars

-----------------------------------------------------------------------------
\* Types.  A worker inside selectSender or sendEmail has an account
\* (services/emailSender.ts:106).
TypeOK ==
    /\ now \in Times
    /\ account \in [Accounts -> {"absent", "active", "inactive"}]
    /\ lastUsedAt \in [Accounts -> Times]
    /\ pc \in [Workers -> {"idle", "found", "stamped", "sending"}]
    /\ pick \in [Workers -> Accounts \cup {NoAccount}]
    /\ stamp \in [Workers -> Times]
    /\ tardy \in [Accounts -> Nat]
    /\ \A w \in Workers : pc[w] # "idle" => pick[w] \in Accounts

\* Deactivating an account takes effect: afterwards every handler sends at most
\* one more message through it, the one whose selection had already read it.
\* Neither the write of lastUsedAt nor sendEmail looks at isActive again
\* (services/emailSender.ts:92-111, api/routes/senders.ts:102-105).
DeactivationTakesEffect == \A a \in Accounts : tardy[a] <= Cardinality(Workers)

=============================================================================
