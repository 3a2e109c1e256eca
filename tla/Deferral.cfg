SPECIFICATION DeferralSpec
CONSTANTS
    Workers = {w1, w2}
    MaxPerHour = 1
    Ticks = 2
    LastHour = 2
    Emails = {e1, e2, e3}
    Spacings = {0, 1}
    Stagger = 1
    MaxFaults = 1
    NoEmail = NoEmail
SYMMETRY DeferralSymmetry
INVARIANTS DeferralTypeOK DeferralsProjected TypeOK HourlyBound
PROPERTIES NeverEarly DenialJustified
CHECK_DEADLOCK FALSE
