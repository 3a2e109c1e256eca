-------------------------- MODULE RateLimiter_proofs --------------------------
(* HourlyBound for every number of workers, limit and clock resolution. *)
EXTENDS RateLimiter, CardinalityLemmas

USE RateAssumption

LEMMA HourFacts ==
    /\ \A h \in Hours : h \in Nat
    /\ \A h \in Hours : h < LastHour => h + 1 \in Hours
    /\ \A h \in Hours : h \in -1..LastHour
  BY DEF Hours

\* Workers holding a slot of the current hour, and workers with a key, granted
\* or not, of an hour that is over.
Holding == {w \in Workers : pc[w] = "granted" /\ key[w] = hour}
Overdue == {w \in Workers : pc[w] # "idle" /\ key[w] < hour}

\* No key is older than its hour or younger than now, and the future is blank.
Chronology ==
    /\ \A w \in Workers : key[w] <= hour
    /\ \A h \in Hours : born[h] # NoKey => h <= born[h].hour /\ born[h].hour <= hour
    /\ \A h \in Hours : h > hour => onTime[h] = 0 /\ late[h] = 0

\* The key of the current hour, once set, lives, and its value covers what was
\* sent under it and what may still be.
CurrentSlots ==
    IF Live(hour) THEN onTime[hour] + Cardinality(Holding) <= value[hour]
    ELSE onTime[hour] = 0 /\ Holding = {}

\* Late messages come from workers that were under way when the hour began.
LateSlots ==
    /\ late[hour] + Cardinality(Overdue) <= Cardinality(Workers)
    /\ \A h \in Hours : onTime[h] <= MaxPerHour /\ late[h] <= Cardinality(Workers)

SlotInv == TypeOK /\ Chronology /\ CurrentSlots /\ LateSlots

LEMMA Counting ==
    /\ Cardinality(Workers) \in Nat
    /\ IsFiniteSet(Holding) /\ Cardinality(Holding) \in Nat
    /\ IsFiniteSet(Overdue) /\ Cardinality(Overdue) \in Nat
    /\ Cardinality(Holding) <= Cardinality(Workers)
    /\ Cardinality(Overdue) <= Cardinality(Workers)
<1>1. Holding \in SUBSET Workers /\ Overdue \in SUBSET Workers
  BY DEF Holding, Overdue
<1>2. IsFiniteSet(Holding) /\ Cardinality(Holding) <= Cardinality(Workers)
  BY <1>1, FS_Subset
<1>3. IsFiniteSet(Overdue) /\ Cardinality(Overdue) <= Cardinality(Workers)
  BY <1>1, FS_Subset
<1> QED
  BY <1>2, <1>3, FS_CardinalityType

LEMMA OneMore ==
    ASSUME NEW f \in [Hours -> Nat], NEW h \in Hours
    PROVE  [f EXCEPT ![h] = @ + 1] \in [Hours -> Nat]
<1>1. f[h] + 1 \in Nat
  OBVIOUS
<1> QED
  BY <1>1

LEMMA TypeNext == TypeOK /\ [Next]_vars => TypeOK'
<1> SUFFICES ASSUME TypeOK, [Next]_vars PROVE TypeOK'
  OBVIOUS
<1> USE HourFacts DEF TypeOK, clock
<1>1. ASSUME NEW w \in Workers, GetKey(w) PROVE TypeOK'
  BY <1>1 DEF GetKey
<1>2. ASSUME NEW w \in Workers, Eval(w) PROVE TypeOK'
  <2>1. born' \in [Hours -> [hour : -1..LastHour, tick : 0..(Ticks - 1)]]
    BY <1>2 DEF Eval
  <2>2. pc' \in [Workers -> {"idle", "keyed", "granted"}]
    BY <1>2 DEF Eval
  <2>3. Incremented(key[w]) \in 1..(MaxPerHour + 1)
    BY DEF Incremented
  <2>4. value' \in [Hours -> 0..MaxPerHour]
    <3>1. CASE OverLimit(Incremented(key[w]))
      BY <1>2, <2>3, <3>1 DEF Eval
    <3>2. CASE ~OverLimit(Incremented(key[w]))
      BY <1>2, <2>3, <3>2 DEF Eval, OverLimit
    <3> QED
      BY <3>1, <3>2
  <2> QED
    BY <1>2, <2>1, <2>2, <2>4 DEF Eval
<1>3. ASSUME NEW w \in Workers, Send(w) PROVE TypeOK'
  <2>1. /\ [onTime EXCEPT ![hour] = @ + 1] \in [Hours -> Nat]
        /\ [late EXCEPT ![hour] = @ + 1] \in [Hours -> Nat]
    BY OneMore
  <2>2. onTime' \in [Hours -> Nat] /\ late' \in [Hours -> Nat]
    <3>1. CASE key[w] = hour
      BY <1>3, <2>1, <3>1 DEF Send
    <3>2. CASE key[w] # hour
      BY <1>3, <2>1, <3>2 DEF Send
    <3> QED
      BY <3>1, <3>2
  <2>3. pc' \in [Workers -> {"idle", "keyed", "granted"}]
    BY <1>3 DEF Send
  <2>4. UNCHANGED <<hour, tick, value, born, key>>
    BY <1>3 DEF Send
  <2> QED
    BY <2>2, <2>3, <2>4
<1>4. ASSUME NEW w \in Workers, Waste(w) PROVE TypeOK'
  BY <1>4 DEF Waste
<1>5. CASE Advance
  BY <1>5 DEF Advance
<1>6. CASE UNCHANGED vars
  BY <1>6 DEF vars
<1> QED
  BY <1>1, <1>2, <1>3, <1>4, <1>5, <1>6 DEF Next

\* The key of the current hour cannot have expired: it lives iff it was set.
LEMMA CurrentKey ==
    TypeOK /\ Chronology => (Live(hour) <=> born[hour] # NoKey)
<1> SUFFICES ASSUME TypeOK, Chronology PROVE Live(hour) <=> born[hour] # NoKey
  OBVIOUS
<1>1. CASE born[hour] = NoKey
  BY <1>1, HourFacts DEF Live, NoKey, TypeOK
<1>2. CASE born[hour] # NoKey
  <2>1. hour \in Nat /\ hour <= born[hour].hour /\ born[hour].hour <= hour
    BY <1>2, HourFacts DEF TypeOK, Chronology
  <2>2. born[hour].hour \in Int
    BY DEF TypeOK
  <2> QED
    BY <1>2, <2>1, <2>2 DEF Live
<1> QED
  BY <1>1, <1>2

LEMMA ChronologyNext == SlotInv /\ [Next]_vars => Chronology'
<1> SUFFICES ASSUME SlotInv, [Next]_vars PROVE Chronology'
  OBVIOUS
<1> USE HourFacts DEF SlotInv, TypeOK, Chronology, clock
<1>1. ASSUME NEW w \in Workers, GetKey(w) PROVE Chronology'
  BY <1>1 DEF GetKey
<1>2. ASSUME NEW w \in Workers, Eval(w) PROVE Chronology'
  BY <1>2 DEF Eval
<1>3. ASSUME NEW w \in Workers, Send(w) PROVE Chronology'
  BY <1>3 DEF Send
<1>4. ASSUME NEW w \in Workers, Waste(w) PROVE Chronology'
  BY <1>4 DEF Waste
<1>5. CASE Advance
  BY <1>5 DEF Advance
<1>6. CASE UNCHANGED vars
  BY <1>6 DEF vars
<1> QED
  BY <1>1, <1>2, <1>3, <1>4, <1>5, <1>6 DEF Next

LEMMA CurrentKeyNext ==
    SlotInv /\ [Next]_vars => (Live(hour) <=> born[hour] # NoKey)'
<1>1. SlotInv /\ [Next]_vars => TypeOK' /\ Chronology'
  BY TypeNext, ChronologyNext DEF SlotInv
<1> QED
  BY <1>1, CurrentKey, PTL

LEMMA CurrentSlotsNext == SlotInv /\ [Next]_vars => CurrentSlots'
<1> SUFFICES ASSUME SlotInv, [Next]_vars PROVE CurrentSlots'
  OBVIOUS
<1> USE HourFacts DEF SlotInv, TypeOK, clock
<1>0. Live(hour) <=> born[hour] # NoKey
  BY CurrentKey
<1>a. (Live(hour) <=> born[hour] # NoKey)'
  BY CurrentKeyNext
<1>1. ASSUME NEW w \in Workers, GetKey(w) PROVE CurrentSlots'
  <2>1. Holding' = Holding
    BY <1>1 DEF GetKey, Holding
  <2> QED
    BY <1>1, <2>1 DEF GetKey, CurrentSlots, Live
<1>2. ASSUME NEW w \in Workers, Eval(w) PROVE CurrentSlots'
  <2>1. CASE key[w] # hour
    <3>1. Holding' = Holding /\ value'[hour] = value[hour] /\ born'[hour] = born[hour]
      BY <1>2, <2>1 DEF Eval, Holding
    <3> QED
      BY <1>2, <2>1, <3>1, <1>0, <1>a DEF Eval, CurrentSlots
  <2>2. CASE key[w] = hour /\ Live(hour) /\ OverLimit(value[hour] + 1)
    <3>1. Holding' = Holding
      BY <1>2, <2>2 DEF Eval, Holding, Incremented
    <3>2. value'[hour] = value[hour] /\ born' = born /\ hour' = hour /\ onTime' = onTime
      BY <1>2, <2>2 DEF Eval, Incremented
    <3> QED
      BY <3>1, <3>2, <2>2, <1>0, <1>a DEF CurrentSlots
  <2>3. CASE key[w] = hour /\ Live(hour) /\ ~OverLimit(value[hour] + 1)
    <3>1. Holding' = Holding \cup {w} /\ w \notin Holding
      BY <1>2, <2>3 DEF Eval, Holding, Incremented
    <3>2. value'[hour] = value[hour] + 1 /\ born' = born /\ hour' = hour /\ onTime' = onTime
      BY <1>2, <2>3 DEF Eval, Incremented
    <3>3. Cardinality(Holding') = Cardinality(Holding) + 1
      BY <3>1, Counting, Grow
    <3> QED
      BY <3>2, <3>3, <2>3, <1>0, <1>a, Counting DEF CurrentSlots
  <2>4. CASE key[w] = hour /\ ~Live(hour)
    <3>1. ~OverLimit(1)
      BY DEF OverLimit
    <3>2. Holding' = {w} /\ value'[hour] = 1 /\ hour' = hour /\ onTime' = onTime
      BY <1>2, <2>4, <3>1 DEF Eval, Holding, Incremented, CurrentSlots
    <3>3. Cardinality(Holding') = 1
      BY <3>2, FS_Singleton
    <3>4. born'[hour] # NoKey
      BY <1>2, <2>4 DEF Eval, NoKey
    <3> QED
      BY <3>2, <3>3, <3>4, <2>4, <1>a DEF CurrentSlots
  <2> QED
    BY <2>1, <2>2, <2>3, <2>4
<1>3. ASSUME NEW w \in Workers, Send(w) PROVE CurrentSlots'
  <2>1. born' = born /\ value' = value /\ hour' = hour
    BY <1>3 DEF Send
  <2>2. CASE key[w] = hour
    <3>1. Holding' = Holding \ {w} /\ w \in Holding /\ onTime'[hour] = onTime[hour] + 1
      BY <1>3, <2>2 DEF Send, Holding
    <3>2. Cardinality(Holding') = Cardinality(Holding) - 1
      BY <3>1, Counting, Shrink
    <3> QED
      BY <2>1, <3>1, <3>2, <1>0, <1>a, Counting DEF CurrentSlots
  <2>3. CASE key[w] # hour
    <3>1. Holding' = Holding /\ onTime' = onTime
      BY <1>3, <2>3 DEF Send, Holding
    <3> QED
      BY <2>1, <3>1, <1>0, <1>a DEF CurrentSlots
  <2> QED
    BY <2>2, <2>3
<1>4. ASSUME NEW w \in Workers, Waste(w) PROVE CurrentSlots'
  <2>1. Holding' = Holding \ {w}
    BY <1>4 DEF Waste, Holding
  <2>2. Cardinality(Holding') = IF w \in Holding THEN Cardinality(Holding) - 1
                               ELSE Cardinality(Holding)
    BY <2>1, Counting, Shrink
  <2>3. born' = born /\ value' = value /\ hour' = hour /\ onTime' = onTime
    BY <1>4 DEF Waste
  <2> QED
    BY <2>1, <2>2, <2>3, <1>0, <1>a, Counting DEF CurrentSlots
<1>5. CASE Advance
  <2>1. value' = value /\ born' = born /\ pc' = pc /\ key' = key /\ onTime' = onTime
    BY <1>5 DEF Advance
  <2>2. CASE hour' = hour
    <3>1. Holding' = Holding
      BY <2>1, <2>2 DEF Holding
    <3> QED
      BY <2>1, <2>2, <3>1, <1>0, <1>a DEF CurrentSlots
  <2>3. CASE hour' = hour + 1
    <3>1. hour' \in Hours
      BY TypeNext
    <3>2. Holding' = {}
      BY <2>1, <2>3 DEF Holding, Chronology
    <3>3. born'[hour'] = NoKey /\ onTime'[hour'] = 0
      BY <2>1, <2>3, <3>1 DEF Chronology
    <3> QED
      BY <3>2, <3>3, <1>a DEF CurrentSlots
  <2> QED
    BY <1>5, <2>2, <2>3 DEF Advance
<1>6. CASE UNCHANGED vars
  <2>1. Holding' = Holding
    BY <1>6 DEF vars, Holding
  <2> QED
    BY <1>6, <2>1 DEF vars, CurrentSlots, Live
<1> QED
  BY <1>1, <1>2, <1>3, <1>4, <1>5, <1>6 DEF Next

LEMMA LateSlotsNext == SlotInv /\ [Next]_vars => LateSlots'
<1> SUFFICES ASSUME SlotInv, [Next]_vars PROVE LateSlots'
  OBVIOUS
<1> USE HourFacts DEF SlotInv, TypeOK, clock
<1>0. onTime[hour] + 1 <= MaxPerHour \/ Holding = {}
  <2>1. CASE Live(hour) /\ Holding # {}
    <3>1. Cardinality(Holding) # 0
      BY <2>1, Counting, FS_EmptySet
    <3>2. onTime[hour] + Cardinality(Holding) <= value[hour]
      BY <2>1 DEF CurrentSlots
    <3>3. onTime[hour] \in Nat /\ value[hour] \in 0..MaxPerHour
      OBVIOUS
    <3> QED
      BY <3>1, <3>2, <3>3, Counting
  <2>2. CASE ~Live(hour)
    BY <2>2 DEF CurrentSlots
  <2> QED
    BY <2>1, <2>2
<1>1. ASSUME NEW w \in Workers, GetKey(w) PROVE LateSlots'
  <2>1. Overdue' = Overdue
    BY <1>1 DEF GetKey, Overdue
  <2> QED
    BY <1>1, <2>1 DEF GetKey, LateSlots
<1>2. ASSUME NEW w \in Workers, Eval(w) PROVE LateSlots'
  <2>1. Overdue' = Overdue \/ Overdue' = Overdue \ {w}
    BY <1>2 DEF Eval, Overdue
  <2>2. Cardinality(Overdue') <= Cardinality(Overdue) /\ Cardinality(Overdue') \in Nat
    <3>1. CASE Overdue' = Overdue
      BY <3>1, Counting
    <3>2. CASE Overdue' = Overdue \ {w}
      BY <3>2, Counting, ShrinkAtMost
    <3> QED
      BY <2>1, <3>1, <3>2
  <2>3. hour' = hour /\ onTime' = onTime /\ late' = late
    BY <1>2 DEF Eval
  <2>4. late[hour] \in Nat
    OBVIOUS
  <2> QED
    BY <2>2, <2>3, <2>4, Counting DEF LateSlots
<1>3. ASSUME NEW w \in Workers, Send(w) PROVE LateSlots'
  <2>0. late[hour] \in Nat /\ onTime[hour] \in Nat
    OBVIOUS
  <2>1. CASE key[w] = hour
    <3>1. Overdue' = Overdue /\ hour' = hour /\ late' = late
      BY <1>3, <2>1 DEF Send, Overdue
    <3>2. w \in Holding
      BY <1>3, <2>1 DEF Send, Holding
    <3>3. onTime[hour] + 1 <= MaxPerHour
      BY <3>2, <1>0
    <3>4. onTime' = [onTime EXCEPT ![hour] = onTime[hour] + 1]
      BY <1>3, <2>1 DEF Send
    <3>5. \A h \in Hours : onTime'[h] <= MaxPerHour
      BY <3>3, <3>4 DEF LateSlots
    <3> QED
      BY <3>1, <3>5 DEF LateSlots
  <2>2. CASE key[w] # hour
    <3>a. key[w] \in Nat /\ hour \in Nat /\ key[w] <= hour
      BY DEF Chronology
    <3>b. key[w] < hour /\ pc[w] = "granted" /\ pc' = [pc EXCEPT ![w] = "idle"]
      BY <1>3, <2>2, <3>a DEF Send
    <3>c. hour' = hour /\ key' = key
      BY <1>3 DEF Send
    <3>1. Overdue' = Overdue \ {w} /\ w \in Overdue
      BY <3>b, <3>c DEF Overdue
    <3>2. Cardinality(Overdue') = Cardinality(Overdue) - 1
      BY <3>1, Counting, Shrink
    <3>3. late' = [late EXCEPT ![hour] = late[hour] + 1] /\ hour' = hour /\ onTime' = onTime
      BY <1>3, <2>2 DEF Send
    <3>4. Cardinality(Overdue) >= 1
      BY <3>1, Counting, FS_EmptySet
    <3>5. late'[hour] = late[hour] + 1
      BY <3>3
    <3>6. late'[hour] + Cardinality(Overdue') <= Cardinality(Workers)
      BY <2>0, <3>2, <3>5, Counting DEF LateSlots
    <3>7. late'[hour] <= Cardinality(Workers)
      BY <2>0, <3>2, <3>4, <3>5, <3>6, Counting
    <3>8. \A h \in Hours : late'[h] <= Cardinality(Workers)
      BY <3>3, <3>7 DEF LateSlots
    <3> QED
      BY <3>3, <3>6, <3>8 DEF LateSlots
  <2> QED
    BY <2>1, <2>2
<1>4. ASSUME NEW w \in Workers, Waste(w) PROVE LateSlots'
  <2>1. Overdue' = Overdue \ {w}
    BY <1>4 DEF Waste, Overdue
  <2>2. Cardinality(Overdue') <= Cardinality(Overdue) /\ Cardinality(Overdue') \in Nat
    BY <2>1, Counting, ShrinkAtMost
  <2>3. hour' = hour /\ onTime' = onTime /\ late' = late
    BY <1>4 DEF Waste
  <2>4. late[hour] \in Nat
    OBVIOUS
  <2> QED
    BY <2>2, <2>3, <2>4, Counting DEF LateSlots
<1>5. CASE Advance
  <2>1. onTime' = onTime /\ late' = late /\ pc' = pc /\ key' = key
    BY <1>5 DEF Advance
  <2>2. CASE hour' = hour
    <3>1. Overdue' = Overdue
      BY <2>1, <2>2 DEF Overdue
    <3> QED
      BY <2>1, <2>2, <3>1 DEF LateSlots
  <2>3. CASE hour' = hour + 1
    <3>1. hour' \in Hours
      BY TypeNext
    <3>2. late'[hour'] = 0
      BY <2>1, <2>3, <3>1 DEF Chronology
    <3>3. Overdue' \in SUBSET Workers
      BY DEF Overdue
    <3>4. Cardinality(Overdue') <= Cardinality(Workers) /\ Cardinality(Overdue') \in Nat
      BY <3>3, FS_Subset, FS_CardinalityType
    <3> QED
      BY <2>1, <3>2, <3>4, Counting DEF LateSlots
  <2> QED
    BY <1>5, <2>2, <2>3 DEF Advance
<1>6. CASE UNCHANGED vars
  <2>1. Overdue' = Overdue
    BY <1>6 DEF vars, Overdue
  <2> QED
    BY <1>6, <2>1 DEF vars, LateSlots
<1> QED
  BY <1>1, <1>2, <1>3, <1>4, <1>5, <1>6 DEF Next

LEMMA SlotInit == Init => SlotInv
<1> SUFFICES ASSUME Init PROVE SlotInv
  OBVIOUS
<1> USE DEF Init
<1>1. 0 \in Hours /\ 0 \in 0..(Ticks - 1) /\ -1 \in -1..LastHour
  BY DEF Hours
<1>2. TypeOK
  BY <1>1 DEF TypeOK, NoKey
<1>3. Chronology
  BY <1>1, HourFacts DEF Chronology
<1>4. Holding = {} /\ Overdue = {}
  BY DEF Holding, Overdue
<1>5. Cardinality(Holding) = 0 /\ Cardinality(Overdue) = 0
  BY <1>4, FS_EmptySet
<1>6. CurrentSlots
  BY <1>1, <1>4, <1>5 DEF CurrentSlots
<1>7. LateSlots
  BY <1>1, <1>5, Counting DEF LateSlots
<1> QED
  BY <1>2, <1>3, <1>6, <1>7 DEF SlotInv

LEMMA SlotInvariant == Spec => []SlotInv
<1>1. SlotInv /\ [Next]_vars => SlotInv'
  BY TypeNext, ChronologyNext, CurrentSlotsNext, LateSlotsNext DEF SlotInv
<1> QED
  BY <1>1, SlotInit, PTL DEF Spec

\* Every variable keeps to its type; no counter exceeds the limit.
THEOREM RateTypeCorrect == Spec => []TypeOK
  BY SlotInvariant, PTL DEF SlotInv

(***************************************************************************)
(* However slow Redis and the workers are, an hour never sees more than    *)
(* the limit and one message per worker (lib/rateLimiter.ts:52-75): the    *)
(* messages of the hour's own key are bounded by its counter, which cannot *)
(* expire within the hour, and each worker can be late only once.          *)
(***************************************************************************)
THEOREM HourlyBounded == Spec => []HourlyBound
<1>1. SlotInv => HourlyBound
  BY DEF SlotInv, LateSlots, HourlyBound
<1> QED
  BY <1>1, SlotInvariant, PTL

LEMMA Ceiling ==
    ASSUME NEW n \in 0..MaxPerHour, n + 1 > MaxPerHour
    PROVE  n = MaxPerHour
  OBVIOUS

(***************************************************************************)
(* A worker is told to wait in its key's own hour only when the hour is    *)
(* full: the DECR of a refused caller gives back what its INCR took, and   *)
(* the key that is counted has not expired (lib/rateLimiter.ts:21-37).     *)
(***************************************************************************)
THEOREM DenialIsJustified == Spec => DenialJustified
<1>1. ASSUME SlotInv, [Next]_vars, NEW w \in Workers,
             pc[w] = "keyed", pc'[w] = "idle", key[w] = hour
      PROVE  value[hour] = MaxPerHour /\ Live(hour)
  <2> USE <1>1 DEF SlotInv, TypeOK
  <2>1. Eval(w)
    BY DEF Next, GetKey, Eval, Send, Waste, Advance, vars
  <2>2. OverLimit(Incremented(hour))
    BY <2>1 DEF Eval
  <2>3. Live(hour)
    BY <2>2 DEF OverLimit, Incremented
  <2>4. value[hour] \in 0..MaxPerHour /\ value[hour] + 1 > MaxPerHour
    BY <2>2, <2>3 DEF OverLimit, Incremented
  <2>5. value[hour] = MaxPerHour
    BY <2>4, Ceiling
  <2> QED
    BY <2>3, <2>5
<1>2. SlotInv /\ [Next]_vars
        => [\A w \in Workers :
              (pc[w] = "keyed" /\ pc'[w] = "idle" /\ key[w] = hour)
                => value[hour] = MaxPerHour /\ Live(hour)]_vars
  BY <1>1
<1> QED
  BY <1>2, SlotInvariant, PTL DEF Spec, DenialJustified

=============================================================================
