SPECIFICATION Spec
CONSTANTS
    Empty = Empty
    Identifiers <- MCIdentifiers
    Domains <- MCDomains
    Dotted <- MCDotted
    Templates <- MCTemplates
    Payloads <- MCPayloads
    Expand <- MCExpand
    Generated <- MCGenerated
    FirstField <- MCFirstField
    Hash <- MCHash
    name = name
    dotted = dotted
    undotted = undotted
    template = template
    p = p
    q = q
    Absent = Absent
    NoAnnotations = NoAnnotations
    NoHash = NoHash
    Nothing = Nothing
    Partial = Partial
    NoCondition = NoCondition
    Inputs <- TwoSetups
    Versions = {v1, v2}
    StaleThreshold = 1
    MaxClock = 2
    MaxEdits = 1
    MaxFaults = 2
    Environment = {"tie", "helmfail", "crash", "upgrade", "handover"}
CHECK_DEADLOCK FALSE
INVARIANTS
    Settled
