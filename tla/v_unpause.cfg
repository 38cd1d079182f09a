SPECIFICATION Spec
CONSTANTS
    Empty = Empty
    Identifiers <- MCIdentifiers
    Domains <- MCDomains
    Dotted <- MCDotted
    Templates <- MCTemplates
    Payloads <- MCPayloads
    Expand <- MCExpand
    Generated <- MCGenerated
    FirstField <- MCFirstField
    Hash <- MCHash
    name = name
    dotted = dotted
    undotted = undotted
    template = template
    p = p
    q = q
    Absent = Absent
    NoAnnotations = NoAnnotations
    NoHash = NoHash
    Nothing = Nothing
    Partial = Partial
    NoCondition = NoCondition
    Inputs <- OneSetup
    Versions = {v1}
    StaleThreshold = 1
    MaxClock = 3
    MaxEdits = 3
    MaxFaults = 0
    Environment = {"pause"}
CHECK_DEADLOCK FALSE
INVARIANTS
    PausedMeansPaused
