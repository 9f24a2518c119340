SPECIFICATION Spec
CONSTANTS
    Conn = {c1}
    Val = {v1}
    NoVal = NoVal
    Agent = {a1}
    MaxChanges = 2
    MaxFaults = 1
INVARIANTS TypeOK AppliedNotAhead RevisionIsSettings
PROPERTIES ChangeMovesRevision RecordTellsTruth SettingsArrive
CHECK_DEADLOCK FALSE
