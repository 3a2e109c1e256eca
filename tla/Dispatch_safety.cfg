SPECIFICATION Spec
CONSTANTS
    c1 = c1
    e1 = e1
    e2 = e2
    p1 = p1
    p2 = p2
    NoJob = NoJob
    Campaigns = {c1}
    Emails = {e1}
    Procs = {p1, p2}
    Concurrency = 1
    MaxPerHour = 1
    Attempts = 2
    MaxReschedules = 2
    CampaignOf <- MCCampaignOf
    Budget <- SafetyBudget
SYMMETRY ProcSymmetry
INVARIANTS AtMostOnce StatusTruthful CountersSound
PROPERTIES TerminalStable ImplementsLifecycle
