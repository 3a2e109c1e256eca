------------------------ MODULE SenderSelection_proofs -------------------------
(* DeactivationTakesEffect for every number of workers and accounts. *)
EXTENDS SenderSelection, CardinalityLemmas

USE SenderAssumption

\* The workers between the read of account a and the end of their message.
Holders(a) == {w \in Workers : pc[w] # "idle" /\ pick[w] = a}

\* Every tardy message used up one of the workers that held the account when it
\* was deactivated; nobody comes to hold it afterwards.
TardyBudget ==
    \A a \in Accounts :
        IF account[a] = "inactive"
        THEN tardy[a] + Cardinality(Holders(a)) <= Cardinality(Workers)
        ELSE tardy[a] = 0

TardyInv == TypeOK /\ TardyBudget

LEMMA HolderCount ==
    ASSUME NEW a
    PROVE  /\ IsFiniteSet(Holders(a)) /\ Cardinality(Holders(a)) \in Nat
           /\ Cardinality(Holders(a)) <= Cardinality(Workers)
           /\ Cardinality(Workers) \in Nat
<1>1. Holders(a) \in SUBSET Workers
  BY DEF Holders
<1>2. IsFiniteSet(Holders(a))
  BY <1>1, FS_Subset
<1> QED
  BY <1>1, <1>2, FS_CardinalityType, ShrinkAtMost

LEMMA TypeNext == TypeOK /\ [Next]_vars => TypeOK'
<1> SUFFICES ASSUME TypeOK, [Next]_vars PROVE TypeOK'
  OBVIOUS
<1> USE DEF TypeOK, Times, rows, local
<1>1. ASSUME NEW a \in Accounts, AddAccount(a) PROVE TypeOK'
  BY <1>1 DEF AddAccount
<1>2. ASSUME NEW a \in Accounts, Deactivate(a) PROVE TypeOK'
  BY <1>2 DEF Deactivate
<1>3. ASSUME NEW w \in Workers, Find(w) PROVE TypeOK'
  BY <1>3 DEF Find, LeastRecentlyUsed, Active
<1>4. ASSUME NEW w \in Workers, Stamp(w) PROVE TypeOK'
  BY <1>4 DEF Stamp
<1>5. ASSUME NEW w \in Workers, Commit(w) PROVE TypeOK'
  BY <1>5 DEF Commit
<1>6. ASSUME NEW w \in Workers, Abort(w) PROVE TypeOK'
  BY <1>6 DEF Abort
<1>7. ASSUME NEW w \in Workers, Send(w) PROVE TypeOK'
  <2>1. tardy' \in [Accounts -> Nat]
    BY <1>7 DEF Send
  <2> QED
    BY <1>7, <2>1 DEF Send
<1>8. CASE Tick
  BY <1>8 DEF Tick
<1>9. CASE UNCHANGED vars
  BY <1>9 DEF vars
<1> QED
  BY <1>1, <1>2, <1>3, <1>4, <1>5, <1>6, <1>7, <1>8, <1>9 DEF Next

LEMMA TardyNext == TardyInv /\ [Next]_vars => TardyBudget'
<1> SUFFICES ASSUME TardyInv, [Next]_vars, NEW b \in Accounts
             PROVE  IF account'[b] = "inactive"
                    THEN tardy'[b] + Cardinality(Holders(b)') <= Cardinality(Workers)
                    ELSE tardy'[b] = 0
  BY DEF TardyBudget
<1> DEFINE Goal == IF account'[b] = "inactive"
                   THEN tardy'[b] + Cardinality(Holders(b)') <= Cardinality(Workers)
                   ELSE tardy'[b] = 0
<1> USE DEF TardyInv, TypeOK, rows, local
<1>0. /\ tardy[b] \in Nat
      /\ IF account[b] = "inactive"
         THEN tardy[b] + Cardinality(Holders(b)) <= Cardinality(Workers)
         ELSE tardy[b] = 0
  BY DEF TardyBudget
<1>a. ASSUME account'[b] = account[b], tardy'[b] = tardy[b], Holders(b)' = Holders(b)
      PROVE  Goal
  BY <1>0, <1>a
<1>1. ASSUME NEW a \in Accounts, AddAccount(a) PROVE Goal
  <2>1. account'[b] # "inactive" \/ account'[b] = account[b]
    BY <1>1 DEF AddAccount
  <2>2. tardy' = tardy /\ Holders(b)' = Holders(b)
    BY <1>1 DEF AddAccount, Holders
  <2>3. account[b] = "inactive" => account'[b] = "inactive"
    BY <1>1 DEF AddAccount
  <2> QED
    BY <2>1, <2>2, <2>3, <1>0
<1>2. ASSUME NEW a \in Accounts, Deactivate(a) PROVE Goal
  <2>1. tardy' = tardy /\ Holders(b)' = Holders(b)
    BY <1>2 DEF Deactivate, Holders
  <2>2. CASE a = b
    <3>1. tardy[b] = 0
      BY <1>2, <2>2, <1>0 DEF Deactivate
    <3>2. account'[b] = "inactive"
      BY <1>2, <2>2 DEF Deactivate
    <3> QED
      BY <2>1, <3>1, <3>2, HolderCount
  <2>3. CASE a # b
    BY <1>2, <2>1, <2>3, <1>a DEF Deactivate
  <2> QED
    BY <2>2, <2>3
<1>3. ASSUME NEW w \in Workers, Find(w) PROVE Goal
  <2>1. account' = account /\ tardy' = tardy
    BY <1>3 DEF Find
  <2>2. CASE account[b] = "inactive"
    <3>1. Holders(b)' = Holders(b)
      BY <1>3, <2>2 DEF Find, LeastRecentlyUsed, Active, Holders
    <3> QED
      BY <2>1, <3>1, <1>a
  <2>3. CASE account[b] # "inactive"
    BY <2>1, <2>3, <1>0
  <2> QED
    BY <2>2, <2>3
<1>4. ASSUME NEW w \in Workers, Stamp(w) PROVE Goal
  BY <1>4, <1>a DEF Stamp, Holders
<1>5. ASSUME NEW w \in Workers, Commit(w) PROVE Goal
  BY <1>5, <1>a DEF Commit, Holders
<1>6. ASSUME NEW w \in Workers, Abort(w) PROVE Goal
  <2>1. account' = account /\ tardy' = tardy
    BY <1>6 DEF Abort
  <2>2. Holders(b)' \in SUBSET Holders(b)
    BY <1>6 DEF Abort, Holders
  <2>3. /\ Cardinality(Holders(b)') <= Cardinality(Holders(b))
        /\ Cardinality(Holders(b)') \in Nat
    BY <2>2, HolderCount, ShrinkAtMost
  <2> QED
    BY <1>0, <2>1, <2>3, HolderCount
<1>7. ASSUME NEW w \in Workers, Send(w) PROVE Goal
  <2>0. pick[w] \in Accounts /\ account' = account
    BY <1>7 DEF Send
  <2>1. CASE pick[w] # b
    <3>1. Holders(b)' = Holders(b) /\ tardy'[b] = tardy[b]
      BY <1>7, <2>0, <2>1 DEF Send, Holders
    <3> QED
      BY <2>0, <3>1, <1>a
  <2>2. CASE pick[w] = b /\ account[b] = "inactive"
    <3>1. Holders(b)' = Holders(b) \ {w} /\ w \in Holders(b)
      BY <1>7, <2>2 DEF Send, Holders
    <3>2. tardy'[b] = tardy[b] + 1
      BY <1>7, <2>0, <2>2 DEF Send
    <3>3. Cardinality(Holders(b)') = Cardinality(Holders(b)) - 1
      BY <3>1, HolderCount, Shrink
    <3> QED
      BY <1>0, <2>0, <2>2, <3>2, <3>3, HolderCount
  <2>3. CASE pick[w] = b /\ account[b] # "inactive"
    <3>1. tardy'[b] = tardy[b]
      BY <1>7, <2>0, <2>3 DEF Send
    <3> QED
      BY <1>0, <2>0, <2>3, <3>1
  <2> QED
    BY <2>1, <2>2, <2>3
<1>8. CASE Tick
  BY <1>8, <1>a DEF Tick, Holders
<1>9. CASE UNCHANGED vars
  BY <1>9, <1>a DEF vars, Holders
<1> QED
  BY <1>1, <1>2, <1>3, <1>4, <1>5, <1>6, <1>7, <1>8, <1>9 DEF Next

LEMMA TardyInvariant == Spec => []TardyInv
<1>1. Init => TardyInv
  BY DEF Init, TardyInv, TypeOK, Times, TardyBudget
<1>2. TardyInv /\ [Next]_vars => TardyInv'
  BY TypeNext, TardyNext DEF TardyInv
<1> QED
  BY <1>1, <1>2, PTL DEF Spec

\* A worker inside selectSender or sendEmail has an account, whatever the user
\* adds and deactivates (services/emailSender.ts:91-124).
THEOREM SenderTypeCorrect == Spec => []TypeOK
  BY TardyInvariant, PTL DEF TardyInv

\* Once DELETE /api/senders/:id has answered, each handler sends at most one more
\* message through the account (services/emailSender.ts:91-124): only handlers
\* that had read it before can, and each of them reads again for its next one.
THEOREM DeactivationEffective == Spec => []DeactivationTakesEffect
<1>1. TardyInv => DeactivationTakesEffect
  <2> SUFFICES ASSUME TardyInv, NEW a \in Accounts
               PROVE  tardy[a] <= Cardinality(Workers)
    BY DEF DeactivationTakesEffect
  <2>1. tardy[a] \in Nat
    BY DEF TardyInv, TypeOK
  <2>2. tardy[a] = 0 \/ tardy[a] + Cardinality(Holders(a)) <= Cardinality(Workers)
    BY DEF TardyInv, TardyBudget
  <2> QED
    BY <2>1, <2>2, HolderCount
<1> QED
  BY <1>1, TardyInvariant, PTL

=============================================================================
