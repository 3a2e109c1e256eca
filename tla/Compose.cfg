SPECIFICATION Spec
CONSTANTS
    Texts <- MCTexts
    Settings <- MCSettings
    LastMinute = 2
    MaxDrafts = 2
    MaxPresses = 2
    MaxFiles = 1
    NoResult = NoResult
INVARIANTS TypeOK NoSilentDouble TotalsTrue SentWasShown NeverOverstrict UploadDrift
PROPERTIES SubmitSettles
CHECK_DEADLOCK FALSE
