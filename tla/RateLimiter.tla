----------------------------- MODULE RateLimiter ------------------------------
(***************************************************************************)
(* The hourly limit of one campaign, seen from the clock: the key is named *)
(* after the hour in which the worker asked for it, the Lua script runs    *)
(* later, and the message goes out later still.  (EmailDispatch has these  *)
(* three in one window.)  Keys of different campaigns do not interact.     *)
(*                                                                         *)
(* The clock is an hour and a tick in it; Math.floor(now / 3600000) is the *)
(* variable hour.                                                          *)
(***************************************************************************)
EXTENDS Integers, FiniteSets

CONSTANTS
    Workers,      \* handlers, in all processes together
    MaxPerHour,   \* the campaign's maxPerHour
    Ticks,        \* instants of an hour that are told apart
    LastHour      \* bound: the clock stops here

ASSUME RateAssumption ==
    /\ IsFiniteSet(Workers)
    /\ MaxPerHour \in Nat \ {0}
    /\ Ticks \in Nat \ {0}
    /\ LastHour \in Nat

Hours == 0..LastHour

VARIABLES
    hour, tick,    \* the clock
    value,         \* Redis: the counter of rate:<campaign>:<hour>, if the key lives
    born,          \* Redis: when EXPIRE was set on it
    pc, key,       \* per worker: its next step and the hour its key names
    onTime, late   \* history: messages sent in an hour, under its own key, under an older one

clock == <<hour, tick>>
vars == <<clock, value, born, pc, key, onTime, late>>

NoKey == [hour |-> -1, tick |-> 0]

\* EXPIRE key 3600: the key lives one hour from its first INCR.
LiveHalfHour(h) ==                                                \* mutant
    hour = born[h].hour /\ 2 * (tick - born[h].tick) < Ticks
Live(h) ==
    \/ hour = born[h].hour
    \/ hour = born[h].hour + 1 /\ tick < born[h].tick

-----------------------------------------------------------------------------
\* getRateLimitKey: the name is computed first ...
GetKey(w) ==
    /\ pc[w] = "idle"
    /\ pc' = [pc EXCEPT ![w] = "keyed"]
    /\ key' = [key EXCEPT ![w] = hour]
    /\ UNCHANGED <<clock, value, born, onTime, late>>

\* ... and the script runs when the call reaches Redis: INCR, EXPIRE on the
\* first, and above the limit DECR and 0.
Incremented(h) == IF Live(h) THEN value[h] + 1 ELSE 1

OverLimitOffByOne(n) == n > MaxPerHour + 1                        \* mutant
OverLimitStrict(n) == n >= MaxPerHour                             \* mutant
OverLimit(n) == n > MaxPerHour

Eval(w) ==
    LET h == key[w] current == Incremented(h) IN
    /\ pc[w] = "keyed"
    /\ born' = IF Live(h) THEN born
               ELSE [born EXCEPT ![h] = [hour |-> hour, tick |-> tick]]
    /\ IF OverLimit(current)
       THEN /\ value' = [value EXCEPT ![h] = current - 1]
            /\ pc' = [pc EXCEPT ![w] = "idle"]
       ELSE /\ value' = [value EXCEPT ![h] = current]
            /\ pc' = [pc EXCEPT ![w] = "granted"]
    /\ UNCHANGED <<clock, key, onTime, late>>

\* A sender is chosen and the message goes out, in whatever hour it is by then.
Send(w) ==
    /\ pc[w] = "granted"
    /\ pc' = [pc EXCEPT ![w] = "idle"]
    /\ IF key[w] = hour
       THEN onTime' = [onTime EXCEPT ![hour] = @ + 1] /\ UNCHANGED late
       ELSE late' = [late EXCEPT ![hour] = @ + 1] /\ UNCHANGED onTime
    /\ UNCHANGED <<clock, value, born, key>>

\* No sender, an SMTP rejection or a crash: the slot is spent all the same.
Waste(w) ==
    /\ pc[w] = "granted"
    /\ pc' = [pc EXCEPT ![w] = "idle"]
    /\ UNCHANGED <<clock, value, born, key, onTime, late>>

Advance ==
    /\ \/ tick + 1 < Ticks /\ tick' = tick + 1 /\ UNCHANGED hour
       \/ tick + 1 = Ticks /\ hour < LastHour /\ tick' = 0 /\ hour' = hour + 1
    /\ UNCHANGED <<value, born, pc, key, onTime, late>>

Init ==
    /\ hour = 0
    /\ tick = 0
    /\ value = [h \in Hours |-> 0]
    /\ born = [h \in Hours |-> NoKey]
    /\ pc = [w \in Workers |-> "idle"]
    /\ key = [w \in Workers |-> 0]
    /\ onTime = [h \in Hours |-> 0]
    /\ late = [h \in Hours |-> 0]

Next ==
    \/ \E w \in Workers : GetKey(w) \/ Eval(w) \/ Send(w) \/ Waste(w)
    \/ Advance

Spec == Init /\ [][Next]_vars

-----------------------------------------------------------------------------
\* Types of the limiter's state (lib/rateLimiter.ts:52-75).
TypeOK ==
    /\ hour \in Hours
    /\ tick \in 0..(Ticks - 1)
    /\ value \in [Hours -> 0..MaxPerHour]
    /\ born \in [Hours -> [hour : -1..LastHour, tick : 0..(Ticks - 1)]]
    /\ pc \in [Workers -> {"idle", "keyed", "granted"}]
    /\ key \in [Workers -> Hours]
    /\ onTime \in [Hours -> Nat]
    /\ late \in [Hours -> Nat]

\* How far the limit can be missed.  The key never expires within its own hour,
\* so its slots go out once (lib/rateLimiter.ts:21-37); what else is sent in
\* an hour is at most one message per worker, with the slot it was granted,
\* or asked for, before the hour began (line 56).
HourlyBound ==
    \A h \in Hours : onTime[h] <= MaxPerHour /\ late[h] <= Cardinality(Workers)

\* A worker is turned away in the hour of its key only when the slots of that
\* hour are all taken: the over-limit DECR and the TTL lose none.
DenialJustified ==
    [][\A w \in Workers :
         (pc[w] = "keyed" /\ pc'[w] = "idle" /\ key[w] = hour)
           => value[hour] = MaxPerHour /\ Live(hour)]_vars

\* "maxPerHour: Maximum emails per hour (per this campaign)"
\* (prisma/schema.prisma:118).
HourlyCap == \A h \in Hours : onTime[h] + late[h] <= MaxPerHour

=============================================================================
