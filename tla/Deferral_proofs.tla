---------------------------- MODULE Deferral_proofs ----------------------------
(* Deferral implements RateLimiter, no attempt is made early, and every deferral is   *)
(* paid for by an hour whose slots were all spent.                                    *)
EXTENDS Deferral, RateLimiter_proofs

USE DeferralAssumption

-----------------------------------------------------------------------------
(* Every step is a step of the rate limiter, or leaves it alone. *)

LEMMA LimiterStep == [DeferralNext]_dvars => [Next]_vars
<1> SUFFICES ASSUME [DeferralNext]_dvars PROVE [Next]_vars
  OBVIOUS
<1>1. ASSUME NEW e \in Emails, Enqueue(e) PROVE UNCHANGED vars
  BY <1>1 DEF Enqueue
<1>2. ASSUME NEW w \in Workers, NEW e \in Emails, Take(w, e) PROVE GetKey(w)
  BY <1>2 DEF Take
<1>3. ASSUME NEW w \in Workers, AskLimit(w) PROVE Eval(w)
  BY <1>3 DEF AskLimit
<1>4. ASSUME NEW w \in Workers, Defer(w) \/ Requeue(w) PROVE UNCHANGED vars
  BY <1>4 DEF Defer, Requeue
<1>5. ASSUME NEW w \in Workers, Deliver(w) PROVE Send(w)
  BY <1>5 DEF Deliver
<1>6. ASSUME NEW w \in Workers, Fail(w) PROVE Waste(w)
  BY <1>6 DEF Fail
<1>7. ASSUME TimePasses PROVE Advance
  BY <1>7 DEF TimePasses
<1>8. ASSUME UNCHANGED dvars PROVE UNCHANGED vars
  BY <1>8 DEF dvars
<1> QED
  BY <1>1, <1>2, <1>3, <1>4, <1>5, <1>6, <1>7, <1>8 DEF DeferralNext, Next

\* The workers of Deferral keep to the protocol of lib/rateLimiter.ts: whatever
\* is proved of RateLimiter holds of them.
THEOREM DeferralImplementsLimiter == DeferralSpec => Spec
<1>1. DeferralInit => Init
  BY DEF DeferralInit
<1> QED
  BY <1>1, LimiterStep, PTL DEF DeferralSpec, Spec

\* The bound on an hour's messages (lib/rateLimiter.ts:21-57) with deferrals,
\* failed attempts and late enqueues.
THEOREM DeferralHourlyBounded == DeferralSpec => []HourlyBound
  BY DeferralImplementsLimiter, HourlyBounded, PTL

-----------------------------------------------------------------------------
(* The clock. *)

LEMMA ScaleNat == \A a, b, c \in Nat : a * b + c \in Nat
  OBVIOUS

LEMMA NowNat == TypeOK => Now \in Nat
<1> SUFFICES ASSUME TypeOK PROVE Now \in Nat
  OBVIOUS
<1>1. hour \in Nat /\ tick \in Nat /\ Ticks \in Nat
  BY RateAssumption DEF TypeOK, Hours
<1> QED
  BY <1>1 DEF Now

LEMMA NowNatNext == TypeOK' => Now' \in Nat
<1> SUFFICES ASSUME TypeOK' PROVE Now' \in Nat
  OBVIOUS
<1>1. hour' \in Nat /\ tick' \in Nat /\ Ticks \in Nat
  BY RateAssumption DEF TypeOK, Hours
<1>2. hour' * Ticks + tick' \in Nat
  BY <1>1, ScaleNat
<1>3. Now' = hour' * Ticks + tick'
  BY DEF Now
<1> QED
  BY <1>2, <1>3

LEMMA NowGrows == TypeOK /\ [Next]_vars => Now <= Now'
<1> SUFFICES ASSUME TypeOK, [Next]_vars PROVE Now <= Now'
  OBVIOUS
<1>1. hour \in Nat /\ tick \in Nat /\ Ticks \in Nat /\ tick < Ticks
  BY RateAssumption DEF TypeOK, Hours
<1>2. CASE Advance
  <2>1. CASE tick' = tick + 1 /\ hour' = hour
    BY <1>1, <2>1 DEF Now
  <2>2. CASE tick + 1 = Ticks /\ tick' = 0 /\ hour' = hour + 1
    <3>1. (hour + 1) * Ticks = hour * Ticks + Ticks
      BY <1>1
    <3>2. hour * Ticks \in Nat
      BY <1>1
    <3> QED
      BY <1>1, <2>2, <3>1, <3>2 DEF Now
  <2> QED
    BY <1>2, <2>1, <2>2 DEF Advance
<1>3. CASE UNCHANGED clock
  BY <1>1, <1>3 DEF Now, clock
<1> QED
  BY <1>2, <1>3 DEF Next, vars, GetKey, Eval, Send, Waste

-----------------------------------------------------------------------------
(* Types, and who holds what. *)

\* A worker that defers has done with the limiter.
HandInv == DeferralTypeOK /\ \A w \in Workers : delayMs[w] # -1 => pc[w] = "idle"

LEMMA WaitNat ==
    ASSUME TypeOK, DeferralTypeOK, NEW e \in Emails
    PROVE  MsUntilNextHour + (count[e] + 1) * Stagger \in Nat
<1>1. count[e] + 1 \in Nat /\ Stagger \in Nat
  BY DEF DeferralTypeOK
<1>2. (count[e] + 1) * Stagger \in Nat
  BY <1>1
<1>3. Ticks - tick \in Nat
  BY RateAssumption DEF TypeOK
<1> QED
  BY <1>2, <1>3 DEF MsUntilNextHour

LEMMA HandInit == DeferralInit => HandInv
<1> SUFFICES ASSUME DeferralInit PROVE HandInv
  OBVIOUS
<1>1. scheduledAt \in [Emails -> Nat]
  <2> PICK spacing \in Spacings, position \in [Emails -> 0..(Cardinality(Emails) - 1)] :
        scheduledAt = Planned(spacing, position)
    BY DEF DeferralInit
  <2>1. \A e \in Emails : position[e] \in Nat /\ spacing \in Nat
    BY FS_CardinalityType
  <2>2. \A e \in Emails : position[e] * spacing \in Nat
    BY <2>1
  <2> QED
    BY <2>2 DEF Planned
<1> QED
  BY <1>1 DEF DeferralInit, Init, HandInv, DeferralTypeOK

LEMMA HandNext == TypeOK /\ HandInv /\ [DeferralNext]_dvars => HandInv'
<1> SUFFICES ASSUME TypeOK, HandInv, [DeferralNext]_dvars PROVE HandInv'
  OBVIOUS
<1>n. Now \in Nat
  BY NowNat
<1> USE DEF HandInv, DeferralTypeOK
<1>1. ASSUME NEW e \in Emails, Enqueue(e) PROVE HandInv'
  <2>1. NotBefore(scheduledAt[e]) \in Nat
    BY <1>n DEF NotBefore
  <2> QED
    BY <1>1, <2>1 DEF Enqueue, vars, work
<1>2. ASSUME NEW w \in Workers, NEW e \in Emails, Take(w, e) PROVE HandInv'
  <2>1. pc' = [pc EXCEPT ![w] = "keyed"] /\ delayMs[w] = -1
    BY <1>2 DEF Take, GetKey
  <2>2. \A v \in Workers : holds[v] # e
    BY <1>2 DEF Take
  <2> QED
    BY <1>2, <2>1, <2>2 DEF Take
<1>3. ASSUME NEW w \in Workers, AskLimit(w) PROVE HandInv'
  BY <1>3 DEF AskLimit, Eval, queue, work, TypeOK
<1>4. ASSUME NEW w \in Workers, Defer(w) PROVE HandInv'
  <2> DEFINE e == holds[w]
             wait == MsUntilNextHour + (count[e] + 1) * Stagger
  <2>1. e \in Emails /\ wait \in Nat /\ Now + wait \in Nat
    BY <1>4, <1>n, WaitNat DEF Defer
  <2>2. /\ delayMs' = [delayMs EXCEPT ![w] = wait]
        /\ scheduledAt' = [scheduledAt EXCEPT ![e] = Now + wait]
        /\ pc[w] = "idle"
        /\ UNCHANGED <<vars, place, due, count, holds, faults>>
    BY <1>4 DEF Defer
  <2> HIDE DEF wait
  <2> QED
    BY <2>1, <2>2 DEF vars
<1>5. ASSUME NEW w \in Workers, Requeue(w) PROVE HandInv'
  <2>1. holds[w] \in Emails /\ Now + delayMs[w] \in Nat /\ count[holds[w]] + 1 \in Nat
    BY <1>5, <1>n DEF Requeue
  <2> QED
    BY <1>5, <2>1 DEF Requeue, vars
<1>6. ASSUME NEW w \in Workers, NEW p \in {"queued", "ended"}, Release(w, p),
             pc[w] = "granted", pc' = [pc EXCEPT ![w] = "idle"], faults' \in 0..MaxFaults
      PROVE HandInv'
  <2>1. holds[w] \in Emails
    BY <1>6
  <2> QED
    BY <1>6, <1>n, <2>1 DEF Release, TypeOK
<1>7. ASSUME NEW w \in Workers, Deliver(w) PROVE HandInv'
  BY <1>6, <1>7 DEF Deliver, Send
<1>8. ASSUME NEW w \in Workers, Fail(w) PROVE HandInv'
  <2>1. faults' \in 0..MaxFaults
    BY <1>8 DEF Fail
  <2> QED
    BY <1>6, <1>8, <2>1 DEF Fail, Waste
<1>9. ASSUME TimePasses \/ UNCHANGED dvars PROVE HandInv'
  BY <1>9 DEF TimePasses, Advance, dvars, vars, queue, work
<1> QED
  BY <1>1, <1>2, <1>3, <1>4, <1>5, <1>7, <1>8, <1>9 DEF DeferralNext

LEMMA HandInvariant == DeferralSpec => [](TypeOK /\ HandInv)
<1>1. DeferralSpec => []TypeOK
  BY DeferralImplementsLimiter, RateTypeCorrect, PTL
<1> QED
  BY <1>1, HandInit, HandNext, PTL DEF DeferralSpec

\* A worker that asks for a slot or has one holds an email, and no email is in
\* two hands (worker/index.ts:37-74).
THEOREM DeferralTypeCorrect == DeferralSpec => []DeferralTypeOK
  BY HandInvariant, PTL DEF HandInv

-----------------------------------------------------------------------------
(* A job is never due before the time its row shows. *)

OnTime ==
    /\ \A e \in Emails : place[e] = "queued" => scheduledAt[e] <= due[e]
    /\ \A w \in Workers : holds[w] # NoEmail =>
         scheduledAt[holds[w]] <= IF delayMs[w] = -1 THEN Now ELSE Now + delayMs[w]

LEMMA OnTimeInit == DeferralInit => OnTime
  BY DEF DeferralInit, OnTime

LEMMA OnTimeNext == TypeOK /\ HandInv /\ OnTime /\ [DeferralNext]_dvars => OnTime'
<1> SUFFICES ASSUME TypeOK, HandInv, OnTime, [DeferralNext]_dvars PROVE OnTime'
  OBVIOUS
<1>n. Now \in Nat
  BY NowNat
<1> USE DEF HandInv, DeferralTypeOK, OnTime
<1>s. ASSUME UNCHANGED clock PROVE Now' = Now
  BY <1>s DEF clock, Now
<1>1. ASSUME NEW e \in Emails, Enqueue(e) PROVE OnTime'
  <2>1. Now' = Now
    BY <1>1, <1>s DEF Enqueue, vars
  <2>2. scheduledAt[e] <= NotBefore(scheduledAt[e]) /\ NotBefore(scheduledAt[e]) \in Nat
    BY <1>n DEF NotBefore
  <2> QED
    BY <1>1, <2>1, <2>2 DEF Enqueue, work
<1>2. ASSUME NEW w \in Workers, NEW e \in Emails, Take(w, e) PROVE OnTime'
  <2>1. Now' = Now
    BY <1>2, <1>s DEF Take, GetKey
  <2>2. scheduledAt[e] <= Now /\ delayMs[w] = -1
    BY <1>2, <1>n DEF Take
  <2> QED
    BY <1>2, <2>1, <2>2 DEF Take
<1>3. ASSUME NEW w \in Workers, AskLimit(w) PROVE OnTime'
  <2>1. Now' = Now
    BY <1>3, <1>s DEF AskLimit, Eval
  <2> QED
    BY <1>3, <2>1 DEF AskLimit, queue, work
<1>4. ASSUME NEW w \in Workers, Defer(w) PROVE OnTime'
  <2> DEFINE e == holds[w]
             wait == MsUntilNextHour + (count[e] + 1) * Stagger
  <2>1. e \in Emails /\ wait \in Nat /\ place[e] = "held"
    BY <1>4, WaitNat DEF Defer
  <2>2. /\ delayMs' = [delayMs EXCEPT ![w] = wait]
        /\ scheduledAt' = [scheduledAt EXCEPT ![e] = Now + wait]
        /\ UNCHANGED <<vars, place, due, holds>>
    BY <1>4 DEF Defer
  <2>3. Now' = Now
    BY <2>2, <1>s DEF vars
  <2> HIDE DEF wait
  <2> QED
    BY <1>n, <2>1, <2>2, <2>3
<1>5. ASSUME NEW w \in Workers, Requeue(w) PROVE OnTime'
  <2>1. Now' = Now
    BY <1>5, <1>s DEF Requeue, vars
  <2>2. holds[w] \in Emails /\ scheduledAt[holds[w]] <= Now + delayMs[w]
    BY <1>5 DEF Requeue
  <2> QED
    BY <1>5, <2>1, <2>2 DEF Requeue
<1>6. ASSUME NEW w \in Workers, NEW p \in {"queued", "ended"}, Release(w, p),
             pc[w] = "granted", UNCHANGED clock
      PROVE OnTime'
  <2>1. Now' = Now
    BY <1>6, <1>s
  <2>2. holds[w] \in Emails /\ scheduledAt[holds[w]] <= Now
    BY <1>6
  <2> QED
    BY <1>6, <2>1, <2>2 DEF Release
<1>7. ASSUME NEW w \in Workers, Deliver(w) \/ Fail(w) PROVE OnTime'
  BY <1>6, <1>7 DEF Deliver, Send, Fail, Waste
<1>8. ASSUME TimePasses \/ UNCHANGED dvars PROVE OnTime'
  <2>1. Now <= Now' /\ Now' \in Nat
    <3>1. [Next]_vars
      BY LimiterStep
    <3> QED
      BY <3>1, NowGrows, NowNatNext, TypeNext
  <2>2. UNCHANGED <<queue, work>>
    BY <1>8 DEF TimePasses, dvars
  <2> QED
    BY <1>n, <2>1, <2>2 DEF queue, work
<1> QED
  BY <1>1, <1>2, <1>3, <1>4, <1>5, <1>7, <1>8 DEF DeferralNext

\* No attempt is made before the time its row shows, however long a worker takes
\* between computing a delay, writing the row and adding the job
\* (worker/index.ts:54-70).
THEOREM NeverAttemptedEarly == DeferralSpec => NeverEarly
<1>1. TypeOK /\ HandInv /\ OnTime /\ [DeferralNext]_dvars =>
        [\A e \in Emails :
           place[e] # "held" /\ place'[e] = "held" => scheduledAt[e] <= Now]_dvars
  <2> SUFFICES ASSUME TypeOK, HandInv, OnTime, DeferralNext, NEW e \in Emails,
                      place[e] # "held", place'[e] = "held"
               PROVE  scheduledAt[e] <= Now
    OBVIOUS
  <2> USE DEF HandInv, DeferralTypeOK
  <2>n. Now \in Nat
    BY NowNat
  <2>1. PICK w \in Workers : Take(w, e)
    BY DEF DeferralNext, Enqueue, Take, AskLimit, Defer, Requeue, Deliver, Fail, Release,
           TimePasses, queue
  <2>2. place[e] = "queued" /\ due[e] <= Now
    BY <2>1 DEF Take
  <2>3. scheduledAt[e] <= due[e]
    BY <2>2 DEF OnTime
  <2> QED
    BY <2>n, <2>2, <2>3
<1>2. DeferralSpec => []OnTime
  BY HandInvariant, OnTimeInit, OnTimeNext, PTL DEF DeferralSpec
<1> QED
  BY <1>1, <1>2, HandInvariant, PTL DEF DeferralSpec, NeverEarly

-----------------------------------------------------------------------------
(* Every deferral stands for a full hour's slots that went to others. *)

\* What slots have been spent on; the slots of the keys of hour n and later, as far
\* as their counters still show them; and a claim on what has been spent: c full
\* hours before n, besides the slots shown from n on.
Spent == Cardinality(Ended) + faults + Cardinality(Granted)
Slots(n) == {s \in Hours \X (1..MaxPerHour) : n <= s[1] /\ s[2] <= value[s[1]]}
Pays(c, n) == c * MaxPerHour + Cardinality(Slots(n)) <= Spent

LEMMA SlotsSize ==
    ASSUME NEW n
    PROVE  /\ IsFiniteSet(Slots(n)) /\ Cardinality(Slots(n)) \in Nat
           /\ IsFiniteSet(Slots(n)') /\ Cardinality(Slots(n)') \in Nat
<1>1. IsFiniteSet(Hours) /\ IsFiniteSet(1..MaxPerHour)
  <2>1. 0 \in Int /\ LastHour \in Int /\ 1 \in Int /\ MaxPerHour \in Int
    BY RateAssumption
  <2> QED
    BY <2>1, FS_Interval DEF Hours
<1>2. IsFiniteSet(Hours \X (1..MaxPerHour))
  BY <1>1, FS_Product
<1>3. Slots(n) \subseteq Hours \X (1..MaxPerHour) /\ Slots(n)' \subseteq Hours \X (1..MaxPerHour)
  BY DEF Slots
<1> QED
  BY <1>2, <1>3, FS_Subset, FS_CardinalityType

LEMMA SlotsLater ==
    ASSUME NEW m \in Nat, NEW n \in Nat, m <= n
    PROVE  Cardinality(Slots(n)) <= Cardinality(Slots(m))
<1>1. Slots(n) \subseteq Slots(m)
  <2>1. \A h \in Hours : h \in Nat
    BY HourFacts
  <2> QED
    BY <2>1 DEF Slots
<1> QED
  BY <1>1, SlotsSize, ShrinkAtMost

LEMMA FullHour ==
    ASSUME NEW h \in Hours, value[h] = MaxPerHour
    PROVE  Cardinality(Slots(h + 1)) + MaxPerHour <= Cardinality(Slots(h))
<1> DEFINE D == {h} \X (1..MaxPerHour)
<1>1. h \in Nat /\ MaxPerHour \in Nat /\ \A g \in Hours : g \in Nat
  BY HourFacts, RateAssumption
<1>2. IsFiniteSet(D) /\ Cardinality(D) = MaxPerHour
  <2>1. IsFiniteSet({h}) /\ Cardinality({h}) = 1
    BY FS_Singleton
  <2>2. IsFiniteSet(1..MaxPerHour) /\ Cardinality(1..MaxPerHour) = MaxPerHour
    <3>1. 1 \in Int /\ MaxPerHour \in Int /\ MaxPerHour >= 1
      BY RateAssumption
    <3>2. Cardinality(1..MaxPerHour) = MaxPerHour - 1 + 1
      BY <3>1, FS_Interval
    <3> QED
      BY <3>1, <3>2, FS_Interval
  <2>3. IsFiniteSet(D) /\ Cardinality(D) = Cardinality({h}) * Cardinality(1..MaxPerHour)
    BY <2>1, <2>2, FS_Product
  <2> QED
    BY <1>1, <2>1, <2>2, <2>3
<1>3. Slots(h + 1) \cap D = {} /\ Slots(h + 1) \cup D \subseteq Slots(h)
  <2>1. Slots(h + 1) \cap D = {}
    BY <1>1 DEF Slots
  <2>2. D \subseteq Slots(h)
    BY <1>1 DEF Slots
  <2>3. \A g \in Hours : h + 1 <= g => h <= g
    BY <1>1
  <2>4. Slots(h + 1) \subseteq Slots(h)
    BY <2>3 DEF Slots
  <2> QED
    BY <2>1, <2>2, <2>4
<1> HIDE DEF D
<1>4. Cardinality(Slots(h + 1) \cup D) = Cardinality(Slots(h + 1)) + Cardinality(D) - 0
  BY <1>2, <1>3, SlotsSize, FS_Union, FS_EmptySet
<1>5. Cardinality(Slots(h + 1) \cup D) <= Cardinality(Slots(h))
  BY <1>3, SlotsSize, ShrinkAtMost
<1>6. Cardinality(Slots(h + 1)) \in Nat
  BY SlotsSize
<1> QED
  BY <1>1, <1>2, <1>4, <1>5, <1>6

LEMMA SpentFinite ==
    /\ IsFiniteSet(Ended) /\ Cardinality(Ended) \in Nat
    /\ IsFiniteSet(Granted) /\ Cardinality(Granted) \in Nat
    /\ IsFiniteSet(Ended') /\ Cardinality(Ended') \in Nat
    /\ IsFiniteSet(Granted') /\ Cardinality(Granted') \in Nat
<1>1. Ended \subseteq Emails /\ Ended' \subseteq Emails /\ Granted \subseteq Workers /\ Granted' \subseteq Workers
  BY DEF Ended, Granted
<1> QED
  BY <1>1, RateAssumption, FS_Subset, FS_CardinalityType

\* No step shows another slot without one being spent on a worker.
LEMMA Balance ==
    ASSUME TypeOK, HandInv, [DeferralNext]_dvars, NEW n \in Nat
    PROVE  /\ Cardinality(Slots(n)') + Spent <= Cardinality(Slots(n)) + Spent'
           /\ Spent \in Nat /\ Spent' \in Nat
<1> USE DEF HandInv, DeferralTypeOK
<1>1. /\ Cardinality(Slots(n)) \in Nat /\ Cardinality(Slots(n)') \in Nat
      /\ faults \in Nat /\ faults' \in Nat
  <2>1. faults' \in Nat
    BY HandNext
  <2> QED
    BY <2>1, SlotsSize
<1>2. Spent \in Nat /\ Spent' \in Nat
  BY <1>1, SpentFinite DEF Spent
<1>3. ASSUME UNCHANGED <<value, faults>>, Ended' = Ended, Granted' = Granted
      PROVE  Cardinality(Slots(n)') + Spent <= Cardinality(Slots(n)) + Spent'
  <2>1. Slots(n)' = Slots(n) /\ Spent' = Spent
    BY <1>3 DEF Slots, Spent
  <2> QED
    BY <1>1, <1>2, <2>1
<1>4. ASSUME NEW e \in Emails, Enqueue(e)
      PROVE  Cardinality(Slots(n)') + Spent <= Cardinality(Slots(n)) + Spent'
  <2>1. Ended' = Ended /\ Granted' = Granted /\ UNCHANGED <<value, faults>>
    BY <1>4 DEF Enqueue, vars, Ended, Granted
  <2> QED
    BY <1>3, <2>1
<1>5. ASSUME NEW w \in Workers, NEW e \in Emails, Take(w, e)
      PROVE  Cardinality(Slots(n)') + Spent <= Cardinality(Slots(n)) + Spent'
  <2>1. Ended' = Ended /\ Granted' = Granted /\ UNCHANGED <<value, faults>>
    BY <1>5 DEF Take, GetKey, vars, Ended, Granted, TypeOK
  <2> QED
    BY <1>3, <2>1
<1>6. ASSUME NEW w \in Workers, AskLimit(w)
      PROVE  Cardinality(Slots(n)') + Spent <= Cardinality(Slots(n)) + Spent'
  <2> DEFINE h == key[w]
             current == Incremented(h)
  <2>1. /\ Ended' = Ended /\ UNCHANGED faults /\ h \in Hours /\ pc[w] = "keyed"
        /\ value[h] \in Nat /\ h \in Nat
    BY <1>6, HourFacts DEF AskLimit, Eval, queue, Ended, TypeOK
  <2>2. CASE OverLimit(current)
    <3>1. value' = [value EXCEPT ![h] = current - 1] /\ pc' = [pc EXCEPT ![w] = "idle"]
      BY <1>6, <2>2 DEF AskLimit, Eval
    <3>2. current = value[h] + 1
      BY <2>2, RateAssumption DEF OverLimit, Incremented
    <3>3. value' = value
      BY <2>1, <3>1, <3>2 DEF TypeOK
    <3>4. Granted' = Granted
      BY <2>1, <3>1 DEF Granted, TypeOK
    <3> QED
      BY <1>3, <2>1, <3>3, <3>4
  <2>3. CASE ~OverLimit(current)
    <3>1. value' = [value EXCEPT ![h] = current] /\ pc' = [pc EXCEPT ![w] = "granted"]
      BY <1>6, <2>3 DEF AskLimit, Eval
    <3>2. Granted' = Granted \cup {w} /\ w \notin Granted
      BY <2>1, <3>1 DEF Granted, TypeOK
    <3>3. Cardinality(Granted') = Cardinality(Granted) + 1
      BY <3>2, SpentFinite, Grow
    <3>4. Spent' = Spent + 1
      BY <1>1, <2>1, <3>3, SpentFinite DEF Spent
    <3>5. current \in Nat /\ current <= value[h] + 1
      BY <2>1 DEF Incremented
    <3> HIDE DEF current
    <3>6. Slots(n)' \subseteq Slots(n) \cup {<<h, current>>}
      <4>1. SUFFICES ASSUME NEW g \in Hours, NEW i \in 1..MaxPerHour, n <= g, i <= value'[g]
                     PROVE  <<g, i>> \in Slots(n) \cup {<<h, current>>}
        BY DEF Slots
      <4>2. g # h => value'[g] = value[g]
        BY <3>1 DEF TypeOK
      <4>3. g = h => i = current \/ i <= value[h]
        BY <2>1, <3>1, <3>5, <4>1 DEF TypeOK
      <4> QED
        BY <4>1, <4>2, <4>3 DEF Slots
    <3>7. Cardinality(Slots(n)') <= Cardinality(Slots(n)) + 1
      <4>1. /\ IsFiniteSet(Slots(n) \cup {<<h, current>>})
            /\ Cardinality(Slots(n) \cup {<<h, current>>}) \in Nat
            /\ Cardinality(Slots(n) \cup {<<h, current>>}) <= Cardinality(Slots(n)) + 1
        BY SlotsSize, GrowAtMost
      <4>2. Cardinality(Slots(n)') <= Cardinality(Slots(n) \cup {<<h, current>>})
        BY <3>6, <4>1, ShrinkAtMost
      <4> QED
        BY <1>1, <4>1, <4>2
    <3> QED
      BY <1>1, <1>2, <3>4, <3>7
  <2> QED
    BY <2>2, <2>3
<1>7. ASSUME NEW w \in Workers, Defer(w) \/ Requeue(w)
      PROVE  Cardinality(Slots(n)') + Spent <= Cardinality(Slots(n)) + Spent'
  <2>1. Granted' = Granted /\ UNCHANGED <<value, faults>>
    BY <1>7 DEF Defer, Requeue, vars, Granted
  <2>2. Ended' = Ended
    BY <1>7 DEF Defer, Requeue, Ended
  <2> QED
    BY <1>3, <2>1, <2>2
<1>8. ASSUME NEW w \in Workers, NEW p \in {"queued", "ended"}, Release(w, p), pc[w] = "granted",
             pc' = [pc EXCEPT ![w] = "idle"], UNCHANGED value,
             (p = "ended" /\ faults' = faults) \/ faults' = faults + 1
      PROVE  Cardinality(Slots(n)') + Spent <= Cardinality(Slots(n)) + Spent'
  <2>1. holds[w] \in Emails /\ place[holds[w]] = "held"
    BY <1>8
  <2>2. Slots(n)' = Slots(n)
    BY <1>8 DEF Slots
  <2>3. Cardinality(Granted') = Cardinality(Granted) - 1 /\ Cardinality(Granted') \in Nat
    <3>1. Granted' = Granted \ {w} /\ w \in Granted
      BY <1>8 DEF Granted, TypeOK
    <3> QED
      BY <3>1, SpentFinite, Shrink
  <2>4. Cardinality(Ended') = IF p = "ended" THEN Cardinality(Ended) + 1 ELSE Cardinality(Ended)
    <3>1. /\ p = "ended" => Ended' = Ended \cup {holds[w]}
          /\ p = "queued" => Ended' = Ended
          /\ holds[w] \notin Ended
      BY <1>8, <2>1 DEF Ended, Release
    <3>2. p = "ended" => Cardinality(Ended') = Cardinality(Ended) + 1
      BY <3>1, SpentFinite, Grow
    <3> QED
      BY <3>1, <3>2
  <2>5. Spent <= Spent'
    BY <1>1, <1>8, <2>3, <2>4, SpentFinite DEF Spent
  <2> QED
    BY <1>1, <1>2, <2>2, <2>5
<1>9. ASSUME NEW w \in Workers, Deliver(w) \/ Fail(w)
      PROVE  Cardinality(Slots(n)') + Spent <= Cardinality(Slots(n)) + Spent'
  BY <1>8, <1>9 DEF Deliver, Send, Fail, Waste
<1>10. ASSUME TimePasses \/ UNCHANGED dvars
       PROVE  Cardinality(Slots(n)') + Spent <= Cardinality(Slots(n)) + Spent'
  <2>1. Ended' = Ended /\ Granted' = Granted /\ UNCHANGED <<value, faults>>
    BY <1>10 DEF TimePasses, Advance, dvars, vars, queue, Ended, Granted
  <2> QED
    BY <1>3, <2>1
<1> QED
  BY <1>2, <1>4, <1>5, <1>6, <1>7, <1>9, <1>10 DEF DeferralNext

LEMMA PaysKept ==
    ASSUME TypeOK, HandInv, [DeferralNext]_dvars, NEW c \in Nat, NEW n \in Nat, Pays(c, n)
    PROVE  c * MaxPerHour + Cardinality(Slots(n)') <= Spent'
<1>1. c * MaxPerHour \in Nat
  BY RateAssumption
<1>2. Cardinality(Slots(n)) \in Nat /\ Cardinality(Slots(n)') \in Nat
  BY SlotsSize
<1> QED
  BY <1>1, <1>2, Balance DEF Pays

LEMMA PaysLater ==
    ASSUME TypeOK, HandInv, NEW c \in Nat, NEW m \in Nat, NEW n \in Nat, m <= n, Pays(c, m)
    PROVE  Pays(c, n)
<1>1. c * MaxPerHour \in Nat
  BY RateAssumption
<1>2. Cardinality(Slots(m)) \in Nat /\ Cardinality(Slots(n)) \in Nat /\ Spent \in Nat
  <2>1. faults \in Nat
    BY DEF HandInv, DeferralTypeOK
  <2> QED
    BY <2>1, SlotsSize, SpentFinite DEF Spent
<1> QED
  BY <1>1, <1>2, SlotsLater DEF Pays

\* A refusal by the key of hour h: the claim of one hour more, from the next on.
LEMMA PaysRefusal ==
    ASSUME TypeOK, HandInv, NEW c \in Nat, NEW h \in Hours, value[h] = MaxPerHour, Pays(c, h)
    PROVE  Pays(c + 1, h + 1)
<1>1. c * MaxPerHour \in Nat /\ (c + 1) * MaxPerHour = c * MaxPerHour + MaxPerHour
      /\ MaxPerHour \in Nat
  BY RateAssumption
<1>2. Cardinality(Slots(h)) \in Nat /\ Cardinality(Slots(h + 1)) \in Nat /\ Spent \in Nat
  <2>1. faults \in Nat
    BY DEF HandInv, DeferralTypeOK
  <2> QED
    BY <2>1, SlotsSize, SpentFinite DEF Spent
<1> QED
  BY <1>1, <1>2, FullHour DEF Pays

\* The keys that an email can still be given come after those that have refused it.
\* What it claims is a full hour for each of the latter: c of them, all before n.
Claims(c, n) ==
    \/ c = 0
    \/ \E e \in Emails : place[e] = "queued" /\ c = count[e] /\ due[e] < (n + 1) * Ticks
    \/ \E w \in Workers : /\ holds[w] # NoEmail /\ pc[w] # "idle"
                          /\ c = count[holds[w]] /\ n = key[w]
    \/ \E w \in Workers : /\ holds[w] # NoEmail /\ pc[w] = "idle"
                          /\ c = count[holds[w]] + 1 /\ n = key[w] + 1

ProjectedInv ==
    /\ \A c, n \in Nat : Claims(c, n) => Pays(c, n)
    /\ \A e \in Emails : place[e] \in {"unqueued", "ended"} => count[e] = 0
    /\ \A w \in Workers : delayMs[w] # -1 => (key[w] + 1) * Ticks <= Now + delayMs[w]

\* Whichever place an email has, its own count is paid.
LEMMA CountPaid ==
    ASSUME TypeOK, HandInv, ProjectedInv
    PROVE  DeferralsProjected
<1> SUFFICES ASSUME NEW e \in Emails PROVE count[e] * MaxPerHour <= Spent
  BY DEF DeferralsProjected, Spent
<1>1. /\ count[e] \in Nat /\ count[e] + 1 \in Nat /\ Spent \in Nat /\ MaxPerHour \in Nat
      /\ count[e] * MaxPerHour \in Nat
      /\ (count[e] + 1) * MaxPerHour = count[e] * MaxPerHour + MaxPerHour
  <2>1. faults \in Nat /\ count[e] \in Nat
    BY DEF HandInv, DeferralTypeOK
  <2> QED
    BY <2>1, SpentFinite, RateAssumption DEF Spent
<1>2. \A n : Pays(count[e], n) => count[e] * MaxPerHour <= Spent
  BY <1>1, SlotsSize DEF Pays
<1>3. \A n : Pays(count[e] + 1, n) => count[e] * MaxPerHour <= Spent
  BY <1>1, SlotsSize DEF Pays
<1>4. CASE place[e] \in {"unqueued", "ended"}
  <2>1. Claims(count[e], 0)
    BY <1>4 DEF ProjectedInv, Claims
  <2> QED
    BY <1>1, <1>2, <2>1 DEF ProjectedInv
<1>5. CASE place[e] = "queued"
  <2>1. due[e] \in Nat /\ Ticks \in Nat \ {0}
    BY RateAssumption DEF HandInv, DeferralTypeOK
  <2>2. (due[e] + 1) * Ticks = due[e] * Ticks + Ticks /\ due[e] * Ticks >= due[e]
    BY <2>1
  <2>3. due[e] < (due[e] + 1) * Ticks
    BY <2>1, <2>2
  <2>4. Claims(count[e], due[e])
    BY <1>5, <2>3 DEF Claims
  <2> QED
    BY <1>1, <1>2, <2>1, <2>4 DEF ProjectedInv
<1>6. CASE place[e] = "held"
  <2>1. PICK w \in Workers : holds[w] = e
    BY <1>6 DEF HandInv, DeferralTypeOK
  <2>2. key[w] \in Nat /\ key[w] + 1 \in Nat /\ e # NoEmail
    BY HourFacts DEF TypeOK
  <2>3. Claims(count[e], key[w]) \/ Claims(count[e] + 1, key[w] + 1)
    BY <2>1, <2>2 DEF Claims
  <2> QED
    BY <1>1, <1>2, <1>3, <2>2, <2>3 DEF ProjectedInv
<1> QED
  BY <1>4, <1>5, <1>6 DEF HandInv, DeferralTypeOK

LEMMA ProjectedInit == DeferralInit => ProjectedInv
<1> SUFFICES ASSUME DeferralInit PROVE ProjectedInv
  OBVIOUS
<1>1. /\ \A e \in Emails : place[e] = "unqueued" /\ count[e] = 0
      /\ \A w \in Workers : holds[w] = NoEmail /\ delayMs[w] = -1
      /\ \A h \in Hours : value[h] = 0
      /\ faults = 0
  BY DEF DeferralInit, Init
<1>2. ASSUME NEW c \in Nat, NEW n \in Nat, Claims(c, n) PROVE Pays(c, n)
  <2>1. c * MaxPerHour = 0
    <3>1. c = 0
      BY <1>1, <1>2 DEF Claims
    <3> QED
      BY <3>1, RateAssumption
  <2>2. Cardinality(Slots(n)) = 0
    <3>1. Slots(n) = {}
      BY <1>1 DEF Slots
    <3> QED
      BY <3>1, FS_EmptySet
  <2> QED
    BY <1>1, <2>1, <2>2, SpentFinite DEF Pays, Spent
<1> QED
  BY <1>1, <1>2 DEF ProjectedInv

\* The hour of the clock, and what lies before it.
LEMMA HourOfNow ==
    ASSUME TypeOK
    PROVE  /\ hour \in Nat /\ Now \in Nat
           /\ Now < (hour + 1) * Ticks
           /\ \A n \in Nat : Now < (n + 1) * Ticks => hour <= n
           /\ \A k \in Nat : k <= hour => (k + 1) * Ticks <= Now + MsUntilNextHour
<1>1. hour \in Nat /\ tick \in Nat /\ tick < Ticks /\ Ticks \in Nat \ {0}
  BY RateAssumption, HourFacts DEF TypeOK
<1>2. (hour + 1) * Ticks = hour * Ticks + Ticks /\ hour * Ticks \in Nat
  BY <1>1
<1>3. ASSUME NEW n \in Nat, Now < (n + 1) * Ticks PROVE hour <= n
  <2>1. SUFFICES ASSUME n + 1 <= hour PROVE FALSE
    BY <1>1
  <2>2. (n + 1) * Ticks <= hour * Ticks
    BY <1>1, <2>1
  <2>3. (n + 1) * Ticks \in Nat
    BY <1>1
  <2> QED
    BY <1>1, <1>2, <1>3, <2>2, <2>3 DEF Now
<1>4. ASSUME NEW k \in Nat, k <= hour PROVE (k + 1) * Ticks <= Now + MsUntilNextHour
  <2>1. (k + 1) * Ticks <= (hour + 1) * Ticks
    BY <1>1, <1>4
  <2>2. (k + 1) * Ticks \in Nat
    BY <1>1
  <2> QED
    BY <1>1, <1>2, <2>1, <2>2 DEF Now, MsUntilNextHour
<1> QED
  BY <1>1, <1>2, <1>3, <1>4, NowNat DEF Now

\* Whatever is claimed after a step was paid before it.
LEMMA ClaimsPaid ==
    ASSUME SlotInv, HandInv, ProjectedInv, DeferralNext, NEW c \in Nat, NEW n \in Nat, Claims(c, n)'
    PROVE  Pays(c, n)
<1> USE DEF HandInv, DeferralTypeOK
<1>t. TypeOK /\ \A w \in Workers : key[w] <= hour /\ key[w] \in Nat /\ key[w] + 1 \in Nat
  BY HourFacts DEF SlotInv, Chronology, TypeOK
<1>p. Claims(c, n) => Pays(c, n)
  BY DEF ProjectedInv
<1>l. ASSUME NEW m \in Nat, m <= n, Claims(c, m) PROVE Pays(c, n)
  BY <1>l, <1>t, PaysLater DEF ProjectedInv
<1>0. c = 0 => Pays(c, n)
  BY <1>p DEF Claims
<1>1. ASSUME NEW e \in Emails, Enqueue(e) PROVE Pays(c, n)
  <2>1. count[e] = 0
    BY <1>1 DEF Enqueue, ProjectedInv
  <2>2. c = 0 \/ Claims(c, n)
    BY <1>1, <2>1 DEF Claims, Enqueue, vars, work
  <2> QED
    BY <1>0, <1>p, <2>2
<1>2. ASSUME NEW w \in Workers, NEW e \in Emails, Take(w, e) PROVE Pays(c, n)
  <2>1. /\ holds' = [holds EXCEPT ![w] = e] /\ pc' = [pc EXCEPT ![w] = "keyed"]
        /\ key' = [key EXCEPT ![w] = hour] /\ count' = count
        /\ place' = [place EXCEPT ![e] = "held"] /\ due' = [due EXCEPT ![e] = 0]
        /\ place[e] = "queued" /\ due[e] <= Now
    BY <1>2 DEF Take, GetKey
  <2>2. Claims(count[e], hour)
    <3>1. due[e] < (hour + 1) * Ticks
      <4>1. (hour + 1) * Ticks \in Nat /\ due[e] \in Nat
        BY <1>t, HourOfNow, RateAssumption
      <4> QED
        BY <1>t, <2>1, <4>1, HourOfNow
    <3> QED
      BY <2>1, <3>1 DEF Claims
  <2>3. (c = count[e] /\ n = hour) \/ Claims(c, n)
    BY <1>t, <2>1 DEF Claims, TypeOK
  <2> QED
    BY <1>p, <2>2, <2>3
<1>3. ASSUME NEW w \in Workers, AskLimit(w) PROVE Pays(c, n)
  <2>1. /\ UNCHANGED <<place, due, count, holds, key>> /\ pc[w] = "keyed"
        /\ pc' = [pc EXCEPT ![w] = "idle"] \/ pc' = [pc EXCEPT ![w] = "granted"]
    BY <1>3 DEF AskLimit, Eval, queue, work
  <2>2. CASE pc' = [pc EXCEPT ![w] = "granted"]
    <3>1. Claims(c, n)
      BY <1>t, <2>1, <2>2 DEF Claims, TypeOK
    <3> QED
      BY <1>p, <3>1
  <2>3. CASE pc' = [pc EXCEPT ![w] = "idle"]
    <3>1. OverLimit(Incremented(key[w])) /\ key[w] \in Hours
      BY <1>3, <1>t, <2>1, <2>3 DEF AskLimit, Eval, TypeOK
    <3>2. value[key[w]] = MaxPerHour
      <4>1. value[key[w]] \in 0..MaxPerHour /\ MaxPerHour \in Nat \ {0}
        BY <1>t, <3>1, RateAssumption DEF TypeOK
      <4>2. Incremented(key[w]) = value[key[w]] + 1 \/ Incremented(key[w]) = 1
        BY DEF Incremented
      <4>3. Incremented(key[w]) > MaxPerHour
        BY <3>1 DEF OverLimit
      <4> QED
        BY <4>1, <4>2, <4>3
    <3>3. holds[w] \in Emails /\ count[holds[w]] \in Nat
      BY <2>1
    <3>4. Claims(count[holds[w]], key[w])
      BY <2>1, <3>3 DEF Claims
    <3>5. Pays(count[holds[w]] + 1, key[w] + 1)
      BY <1>t, <3>1, <3>2, <3>3, <3>4, PaysRefusal DEF ProjectedInv
    <3>6. (c = count[holds[w]] + 1 /\ n = key[w] + 1) \/ Claims(c, n)
      BY <1>t, <2>1, <2>3 DEF Claims, TypeOK
    <3> QED
      BY <1>p, <3>5, <3>6
  <2> QED
    BY <2>1, <2>2, <2>3
<1>4. ASSUME NEW w \in Workers, Defer(w) PROVE Pays(c, n)
  <2>1. Claims(c, n)
    BY <1>4 DEF Claims, Defer, vars
  <2> QED
    BY <1>p, <2>1
<1>5. ASSUME NEW w \in Workers, Requeue(w) PROVE Pays(c, n)
  <2> DEFINE e == holds[w]
  <2>1. /\ place' = [place EXCEPT ![e] = "queued"] /\ due' = [due EXCEPT ![e] = Now + delayMs[w]]
        /\ count' = [count EXCEPT ![e] = @ + 1] /\ holds' = [holds EXCEPT ![w] = NoEmail]
        /\ UNCHANGED <<pc, key>> /\ delayMs[w] # -1
    BY <1>5 DEF Requeue, vars
  <2>2. e \in Emails /\ pc[w] = "idle" /\ (key[w] + 1) * Ticks <= Now + delayMs[w]
    BY <2>1 DEF ProjectedInv
  <2>3. Claims(count[e] + 1, key[w] + 1)
    BY <2>2 DEF Claims
  <2>4. \/ c = count[e] + 1 /\ Now + delayMs[w] < (n + 1) * Ticks
        \/ Claims(c, n)
    <3>1. \A v \in Workers \ {w} : holds'[v] = holds[v] /\ (holds[v] # NoEmail => holds[v] # e)
      BY <2>1, <2>2
    <3>2. \A v \in Workers : holds'[v] # NoEmail => v # w
      BY <2>1
    <3> QED
      BY <2>1, <2>2, <3>1, <3>2 DEF Claims
  <2>5. Now + delayMs[w] < (n + 1) * Ticks => key[w] + 1 <= n
    <3>1. SUFFICES ASSUME Now + delayMs[w] < (n + 1) * Ticks, n + 1 <= key[w] + 1 PROVE FALSE
      BY <1>t
    <3>2. Ticks \in Nat /\ Now \in Nat /\ delayMs[w] \in Nat
      BY <1>t, <2>1, NowNat, RateAssumption
    <3>3. (n + 1) * Ticks <= (key[w] + 1) * Ticks /\ (n + 1) * Ticks \in Nat
      BY <1>t, <3>1, <3>2
    <3>4. (key[w] + 1) * Ticks \in Nat
      BY <1>t, <3>2
    <3> QED
      BY <2>2, <3>1, <3>2, <3>3, <3>4
  <2> QED
    BY <1>t, <1>p, <1>l, <2>3, <2>4, <2>5
<1>6. ASSUME NEW w \in Workers, NEW p \in {"queued", "ended"}, Release(w, p), pc[w] = "granted",
             pc' = [pc EXCEPT ![w] = "idle"], UNCHANGED key
      PROVE  Pays(c, n)
  <2> DEFINE e == holds[w]
  <2>1. /\ place' = [place EXCEPT ![e] = p] /\ due' = [due EXCEPT ![e] = IF p = "queued" THEN Now ELSE 0]
        /\ count' = [count EXCEPT ![e] = IF p = "queued" THEN @ ELSE 0]
        /\ holds' = [holds EXCEPT ![w] = NoEmail]
    BY <1>6 DEF Release
  <2>2. e \in Emails /\ e # NoEmail
    BY <1>6
  <2>3. Claims(count[e], key[w])
    BY <1>6, <2>2 DEF Claims
  <2>4. \/ c = count[e] /\ Now < (n + 1) * Ticks
        \/ Claims(c, n)
    <3>1. \A v \in Workers \ {w} : /\ holds'[v] = holds[v] /\ pc'[v] = pc[v]
                                   /\ holds[v] # NoEmail => holds[v] # e
      BY <1>t, <1>6, <2>1, <2>2 DEF TypeOK
    <3>2. \A v \in Workers : holds'[v] # NoEmail => v # w
      BY <2>1
    <3> QED
      BY <1>6, <2>1, <2>2, <3>1, <3>2 DEF Claims
  <2>5. Now < (n + 1) * Ticks => key[w] <= n
    BY <1>t, HourOfNow
  <2> QED
    BY <1>t, <1>p, <1>l, <2>3, <2>4, <2>5
<1>7. ASSUME NEW w \in Workers, Deliver(w) \/ Fail(w) PROVE Pays(c, n)
  BY <1>6, <1>7 DEF Deliver, Send, Fail, Waste
<1>8. ASSUME TimePasses PROVE Pays(c, n)
  <2>1. Claims(c, n)
    BY <1>8 DEF Claims, TimePasses, Advance, queue, work
  <2> QED
    BY <1>p, <2>1
<1> QED
  BY <1>1, <1>2, <1>3, <1>4, <1>5, <1>7, <1>8 DEF DeferralNext

LEMMA ProjectedNext == SlotInv /\ HandInv /\ ProjectedInv /\ [DeferralNext]_dvars => ProjectedInv'
<1> SUFFICES ASSUME SlotInv, HandInv, ProjectedInv, [DeferralNext]_dvars PROVE ProjectedInv'
  OBVIOUS
<1>t. TypeOK /\ \A w \in Workers : key[w] <= hour /\ key[w] \in Nat
  BY HourFacts DEF SlotInv, Chronology, TypeOK
<1>1. ASSUME NEW c \in Nat, NEW n \in Nat, Claims(c, n)' PROVE Pays(c, n)'
  <2>1. CASE DeferralNext
    <3>1. Pays(c, n)
      BY <1>1, <2>1, ClaimsPaid
    <3> QED
      BY <1>t, <3>1, PaysKept DEF Pays
  <2>2. CASE UNCHANGED dvars
    <3>1. Claims(c, n)
      BY <1>1, <2>2 DEF Claims, dvars, vars, queue, work
    <3>2. Pays(c, n)
      BY <3>1 DEF ProjectedInv
    <3> QED
      BY <1>t, <3>2, PaysKept DEF Pays
  <2> QED
    BY <2>1, <2>2
<1>2. ASSUME NEW e \in Emails, place'[e] \in {"unqueued", "ended"} PROVE count'[e] = 0
  <2> USE DEF HandInv, DeferralTypeOK, ProjectedInv
  <2>1. CASE UNCHANGED <<place, count>>
    BY <1>2, <2>1
  <2>2. ASSUME NEW f \in Emails, Enqueue(f) \/ (\E w \in Workers : Take(w, f)) PROVE count'[e] = 0
    <3>1. UNCHANGED count /\ place[e] = place'[e]
      BY <1>2, <2>2 DEF Enqueue, Take
    <3> QED
      BY <1>2, <3>1
  <2>3. ASSUME NEW w \in Workers, Requeue(w) PROVE count'[e] = 0
    BY <1>2, <2>3 DEF Requeue
  <2>4. ASSUME NEW w \in Workers, NEW p \in {"queued", "ended"}, Release(w, p) PROVE count'[e] = 0
    BY <1>2, <2>4 DEF Release
  <2> QED
    BY <2>1, <2>2, <2>3, <2>4
       DEF DeferralNext, AskLimit, Defer, Deliver, Fail, TimePasses, dvars, queue
<1>3. ASSUME NEW w \in Workers, delayMs'[w] # -1
      PROVE  (key'[w] + 1) * Ticks <= Now' + delayMs'[w]
  <2>n. Now \in Nat /\ Now' \in Nat /\ Now <= Now'
    BY <1>t, NowNat, NowNatNext, NowGrows, LimiterStep, TypeNext
  <2>1. CASE UNCHANGED <<key, delayMs>>
    <3>1. (key[w] + 1) * Ticks <= Now + delayMs[w]
      BY <1>3, <2>1 DEF ProjectedInv
    <3>2. (key[w] + 1) * Ticks \in Nat /\ delayMs[w] \in Nat
      BY <1>t, <1>3, <2>1, RateAssumption DEF HandInv, DeferralTypeOK
    <3> QED
      BY <2>n, <2>1, <3>1, <3>2
  <2>2. ASSUME NEW v \in Workers, NEW e \in Emails, Take(v, e)
        PROVE  (key'[w] + 1) * Ticks <= Now' + delayMs'[w]
    <3>1. delayMs[v] = -1
      BY <2>2 DEF Take, HandInv, DeferralTypeOK
    <3>2. v # w /\ key'[w] = key[w] /\ delayMs' = delayMs /\ Now' = Now
      BY <1>t, <1>3, <2>2, <3>1 DEF Take, GetKey, TypeOK, clock, Now
    <3> QED
      BY <1>3, <3>2 DEF ProjectedInv
  <2>3. ASSUME NEW v \in Workers, Defer(v)
        PROVE  (key'[w] + 1) * Ticks <= Now' + delayMs'[w]
    <3> DEFINE wait == MsUntilNextHour + (count[holds[v]] + 1) * Stagger
    <3>1. delayMs' = [delayMs EXCEPT ![v] = wait] /\ UNCHANGED vars /\ holds[v] \in Emails
      BY <2>3 DEF Defer, HandInv, DeferralTypeOK
    <3>2. key' = key /\ Now' = Now
      BY <3>1 DEF vars, clock, Now
    <3>3. CASE v # w
      BY <1>3, <3>1, <3>2, <3>3 DEF ProjectedInv, HandInv, DeferralTypeOK
    <3>4. CASE v = w
      <4>1. delayMs'[w] = wait
        BY <3>1, <3>4 DEF HandInv, DeferralTypeOK
      <4>2. MsUntilNextHour \in Nat /\ (count[holds[v]] + 1) * Stagger \in Nat
        <5>1. count[holds[v]] + 1 \in Nat /\ Stagger \in Nat
          BY <3>1, DeferralAssumption DEF HandInv, DeferralTypeOK
        <5>2. \A a, b \in Nat : a * b \in Nat
          OBVIOUS
        <5>3. Ticks - tick \in Nat
          BY <1>t, RateAssumption DEF TypeOK
        <5> QED
          BY <5>1, <5>2, <5>3 DEF MsUntilNextHour
      <4>3. (key[w] + 1) * Ticks <= Now + MsUntilNextHour /\ (key[w] + 1) * Ticks \in Nat
        BY <1>t, HourOfNow, RateAssumption
      <4> HIDE DEF MsUntilNextHour
      <4> QED
        BY <2>n, <3>2, <4>1, <4>2, <4>3
    <3> QED
      BY <3>3, <3>4
  <2>4. ASSUME NEW v \in Workers, Requeue(v)
        PROVE  (key'[w] + 1) * Ticks <= Now' + delayMs'[w]
    <3>1. v # w /\ delayMs'[w] = delayMs[w] /\ key' = key /\ Now' = Now
      BY <1>3, <2>4 DEF Requeue, HandInv, DeferralTypeOK, vars, clock, Now
    <3> QED
      BY <1>3, <3>1 DEF ProjectedInv
  <2> QED
    BY <2>1, <2>2, <2>3, <2>4
       DEF DeferralNext, Enqueue, AskLimit, Eval, Deliver, Send, Fail, Waste, Release, TimePasses,
           Advance, dvars, vars, work
<1> QED
  BY <1>1, <1>2, <1>3 DEF ProjectedInv

\* No email is put off for longer than the compose form projects: each of its
\* deferrals was decided by the key of another hour, whose slots were all spent
\* (worker/index.ts:49-74, frontend/app/dashboard/page.tsx:47).
THEOREM DeferralsAsProjected == DeferralSpec => []DeferralsProjected
<1>1. DeferralSpec => []SlotInv
  BY DeferralImplementsLimiter, SlotInvariant, PTL
<1>2. SlotInv /\ HandInv /\ ProjectedInv => DeferralsProjected
  BY CountPaid DEF SlotInv
<1> QED
  BY <1>1, <1>2, HandInvariant, ProjectedInit, ProjectedNext, PTL DEF DeferralSpec

=============================================================================
